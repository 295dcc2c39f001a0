-------------------------- MODULE WallTimerProofs --------------------------
(***************************************************************************)
(* Theorems about WallTimer: two rest on what the wrappers tell the        *)
(* compiler and on which loops suspend interrupts, for loops of any        *)
(* length and whatever registers the kernel changes meanwhile, one on the  *)
(* arithmetic of struct timespec, for any clock, and the last two on all   *)
(* of these and on which rows the program of a call has.                   *)
(***************************************************************************)
EXTENDS WallTimer, FiniteSetTheorems, TLAPS

LeftChanged == {"TS", "CR8", "TEST_CTL"}

-----------------------------------------------------------------------------
(* The program                                                             *)

\* The k-th operation of f leaves rax with what the next one may put.
Puts(f, k) ==
  f.asm[k].op = "put" =>
    \/ f.asm[k].on \subseteq LeftChanged
    \/ k > 1 /\ f.asm[k - 1].op = "get" /\ f.asm[k - 1].on = f.asm[k].on

\* A wrapper that its caller survives: it loses no register, sets only those of
\* LeftChanged, and puts back what it has just got.
Sound(f) ==
  /\ Len(f.asm) \in Nat \ {0} /\ DOMAIN f.asm = 1 .. Len(f.asm)
  /\ Lost(f) = {}
  /\ \A k \in DOMAIN f.asm :
       /\ f.asm[k].op \in {"compute", "get", "put", "fix"}
       /\ f.asm[k].on \subseteq Register
       /\ f.asm[k].op = "fix" => f.asm[k].on \subseteq LeftChanged
       /\ Puts(f, k)

\* Only a masked entry puts other registers.
Quiet(f) ==
  \A k \in DOMAIN f.asm : f.asm[k].op = "put" => f.asm[k].on \subseteq LeftChanged

Good(e) == Sound(e.call) /\ (Quiet(e.call) \/ e.masked)

LEMMA WriteBackSound ==
  ASSUME NEW regs \in SUBSET Register
  PROVE  Sound(ReadAndWriteBack(regs))
BY DEF Sound, Puts, ReadAndWriteBack, Wrapper, Get, Put, Lost, CalleeSaved

\* An asm of one operation that reads kernel registers at most.
LEMMA ReaderSound ==
  ASSUME NEW m, NEW named,
         m.op \in {"compute", "get"}, m.on \subseteq Register,
         "rbx" \in m.writes => "rbx" \in named
  PROVE  Sound(Wrapper(<<m>>, named)) /\ Quiet(Wrapper(<<m>>, named))
BY DEF Sound, Quiet, Puts, Wrapper, Lost, CalleeSaved

LEMMA FixSound ==
  ASSUME NEW r \in LeftChanged, NEW named
  PROVE  Sound(Wrapper(<<Fix(r)>>, named)) /\ Quiet(Wrapper(<<Fix(r)>>, named))
BY DEF Sound, Quiet, Puts, Wrapper, Lost, CalleeSaved, Fix, LeftChanged, Register

LEMMA ToCr8Sound == Sound(mov_to_cr8_f) /\ Quiet(mov_to_cr8_f)
BY DEF mov_to_cr8_f, Sound, Quiet, Puts, Wrapper, Lost, CalleeSaved, Compute, Put,
       LeftChanged, Register

\* The wrappers, by what their loops are: unmasked ones, and masked ones.
LEMMA UnmaskedGood ==
  \A f \in {xor_f, cpuid_f, invd_f, inb_f, outb_f, invlpg_f, rdtsc_f, rdtscp_f,
            rdmsr_f, rdpmc_f, rdrand_f, rdseed_f, wbinvd_f, movntdqa_f, movntdq_f,
            clflush_f, sfence_f, mfence_f, clts_f, wrmsr_f} :
    Sound(f) /\ Quiet(f)
<1>1. ASSUME NEW regs, NEW named, "rbx" \in regs => "rbx" \in named
      PROVE  LET f == Wrapper(<<Compute(regs)>>, named) IN Sound(f) /\ Quiet(f)
  <2>1. /\ Compute(regs).op \in {"compute", "get"}
        /\ Compute(regs).on \subseteq Register
        /\ Compute(regs).writes = regs
    BY DEF Compute
  <2> QED
    BY <1>1, <2>1, ReaderSound
<1>2. \A f \in {xor_f, invd_f, inb_f, outb_f, rdtsc_f, rdtscp_f, rdmsr_f, rdpmc_f} :
        Sound(f) /\ Quiet(f)
  BY <1>1 DEF xor_f, invd_f, inb_f, outb_f, rdtsc_f, rdtscp_f, rdmsr_f, rdpmc_f
<1>3. \A f \in {rdrand_f, rdseed_f, wbinvd_f, movntdqa_f, movntdq_f, clflush_f,
                sfence_f, mfence_f} : Sound(f) /\ Quiet(f)
  BY <1>1 DEF rdrand_f, rdseed_f, wbinvd_f, movntdqa_f, movntdq_f, clflush_f,
              sfence_f, mfence_f
<1>4. \A f \in {cpuid_f, invlpg_f} : Sound(f) /\ Quiet(f)
  BY <1>1 DEF cpuid_f, invlpg_f
<1>5. \A f \in {clts_f, wrmsr_f} : Sound(f) /\ Quiet(f)
  BY FixSound DEF clts_f, wrmsr_f, LeftChanged
<1> QED
  BY <1>2, <1>3, <1>4, <1>5

LEMMA MaskedGood ==
  \A f \in {mov_from_cr8_f, mov_to_cr0_f, mov_to_cr3_f, mov_to_cr4_f, mov_to_cr8_f,
            mov_dr0_f, mov_dr1_f, mov_dr2_f, mov_dr3_f, mov_dr4_f, mov_dr5_f,
            mov_dr6_f, mov_dr7_f} : Sound(f)
<1>1. Sound(mov_from_cr8_f)
  <2>1. /\ Get({"CR8"}).op \in {"compute", "get"}
        /\ Get({"CR8"}).on \subseteq Register
        /\ "rbx" \notin Get({"CR8"}).writes
    BY DEF Get, Register
  <2> QED
    BY <2>1, ReaderSound DEF mov_from_cr8_f
<1>2. \A f \in {mov_to_cr0_f, mov_to_cr3_f, mov_to_cr4_f} : Sound(f)
  BY WriteBackSound DEF mov_to_cr0_f, mov_to_cr3_f, mov_to_cr4_f, Register
<1>3. \A f \in {mov_dr0_f, mov_dr1_f, mov_dr2_f, mov_dr3_f} : Sound(f)
  BY WriteBackSound DEF mov_dr0_f, mov_dr1_f, mov_dr2_f, mov_dr3_f, Register
<1>4. \A f \in {mov_dr4_f, mov_dr5_f, mov_dr6_f, mov_dr7_f} : Sound(f)
  BY WriteBackSound DEF mov_dr4_f, mov_dr5_f, mov_dr6_f, mov_dr7_f, Register
<1> QED
  BY <1>1, <1>2, <1>3, <1>4, ToCr8Sound

\* What each macro makes of a wrapper.
LEMMA MacroGood ==
  ASSUME NEW f, NEW name, Sound(f)
  PROVE  /\ Good(TIMING_LOOP_SUSPEND_INTERRUPTS(f, name))
         /\ Quiet(f) => /\ Good(TIMING_LOOP(f, name))
                        /\ Good(TIMING_LOOP_BOOT_FEATURE_CHECK(f, name))
                        /\ Good(TIMING_LOOP_CHECK_FOR_KMALLOC(f, name))
BY DEF Good, TIMING_LOOP, TIMING_LOOP_SUSPEND_INTERRUPTS,
       TIMING_LOOP_BOOT_FEATURE_CHECK, TIMING_LOOP_CHECK_FOR_KMALLOC

LEMMA FlushGood ==
  /\ Len(buffer_flush_start) = 3
  /\ \A k \in 1 .. 3 : Good(buffer_flush_start[k])
<1>1. \A f \in {clflush_f, sfence_f, mfence_f} : Sound(f) /\ Quiet(f)
  BY UnmaskedGood
<1> QED
  BY <1>1, MacroGood DEF buffer_flush_start

LEMMA WallGood ==
  /\ Len(wall_timing_start) = 30
  /\ \A k \in 1 .. 30 : Good(wall_timing_start[k])
<1>1. \A k \in 1 .. 9 : Good(wall_timing_start[k])
  BY UnmaskedGood, MacroGood DEF wall_timing_start
<1>2. \A k \in 10 .. 22 : Good(wall_timing_start[k])
  BY MaskedGood, MacroGood DEF wall_timing_start
<1>3. \A k \in 23 .. 30 : Good(wall_timing_start[k])
  BY UnmaskedGood, MacroGood DEF wall_timing_start
<1>4. Len(wall_timing_start) = 30
  BY DEF wall_timing_start
<1> QED
  BY <1>1, <1>2, <1>3, <1>4

-----------------------------------------------------------------------------
(* The invariant                                                           *)

Labels == {"macro", "start", "test", "asm", "end", "leave", "next", "done", "oops"}

Place ==
  /\ cmd \in DOMAIN Program
  /\ entry \in DOMAIN Program[cmd]
  /\ pc \in Labels

\* i counts the runs, and stays below LOOP_ITERATIONS while there are more.
Counting ==
  /\ pc \in {"test", "asm", "end", "leave"} => i \in 0 .. Iterations /\ runs = i
  /\ pc = "asm" => i < Iterations
  /\ pc \in {"end", "leave"} => i = Iterations

\* In the asm, rax holds what the next operation may put; what interrupts could
\* spoil is masked.
Keeping ==
  /\ irqs \in BOOLEAN
  /\ stale \subseteq LeftChanged
  /\ pc \in {"test", "asm"} => op \in DOMAIN Here.call.asm
  /\ pc = "test" => op = 1
  /\ pc \in {"start", "test", "asm", "end"} /\ Here.masked => ~ irqs
  /\ pc = "asm" /\ Here.call.asm[op].op = "put" =>
       Here.call.asm[op].on \ rax \subseteq LeftChanged

IInv == Place /\ Counting /\ Keeping

LEMMA HereGood == Place => Good(Here)
<1> SUFFICES ASSUME Place PROVE Good(Here)
  OBVIOUS
<1>1. CASE cmd = "WALL"
  <2>1. Program[cmd] = wall_timing_start /\ entry \in 1 .. 30
    BY <1>1, WallGood DEF Place, Program, wall_timing_start
  <2> QED
    BY <2>1, WallGood DEF Here
<1>2. CASE cmd = "WALL_FL"
  <2>1. Program[cmd] = buffer_flush_start /\ entry \in 1 .. 3
    BY <1>2, FlushGood DEF Place, Program, buffer_flush_start
  <2> QED
    BY <2>1, FlushGood DEF Here
<1> QED
  BY <1>1, <1>2 DEF Place, Program

LEMMA ProgramDomain ==
  ASSUME Place
  PROVE  Len(Program[cmd]) \in Nat \ {0} /\ DOMAIN Program[cmd] = 1 .. Len(Program[cmd])
<1>1. CASE cmd = "WALL"
  BY <1>1 DEF Program, wall_timing_start
<1>2. CASE cmd = "WALL_FL"
  BY <1>2 DEF Program, buffer_flush_start
<1> QED
  BY <1>1, <1>2 DEF Place, Program

LEMMA InitIInv == Init => IInv
<1> SUFFICES ASSUME Init PROVE IInv
  OBVIOUS
<1>1. Place
  <2>1. 1 \in DOMAIN wall_timing_start /\ 1 \in DOMAIN buffer_flush_start
    BY DEF wall_timing_start, buffer_flush_start
  <2>2. cmd \in {"WALL", "WALL_FL"} /\ entry = 1 /\ pc = "macro"
    BY DEF Init, Program
  <2> QED
    BY <2>1, <2>2 DEF Place, Labels, Program
<1>2. /\ pc = "macro" /\ irqs = TRUE /\ stale = {}
  BY DEF Init
<1>3. Counting /\ Keeping
  BY <1>2 DEF Counting, Keeping
<1> QED
  BY <1>1, <1>3 DEF IInv

-----------------------------------------------------------------------------
(* One lemma for each step                                                 *)

LEMMA MacroKeeps == IInv /\ Macro => IInv'
<1> SUFFICES ASSUME IInv, Macro PROVE IInv'
  OBVIOUS
<1>1. /\ pc' \in {"next", "start"}
      /\ irqs' \in BOOLEAN
      /\ pc' = "start" /\ Here.masked => ~ irqs'
  BY DEF IInv, Keeping, Macro, Skip, LogZero, Enter, To
<1>2. UNCHANGED <<cmd, entry, i, op, runs, stale, rax>> /\ Here' = Here
  BY DEF Macro, call, loop, Here
<1> QED
  BY <1>1, <1>2 DEF IInv, Place, Labels, Counting, Keeping

LEMMA TimingStartKeeps == IInv /\ TimingStart => IInv'
<1> SUFFICES ASSUME IInv, TimingStart PROVE IInv'
  OBVIOUS
<1>1. /\ pc = "start" /\ pc' = "test" /\ i' = 0 /\ op' = 1 /\ runs' = 0
      /\ UNCHANGED <<cmd, entry, irqs, rax, stale>> /\ Here' = Here
  BY DEF TimingStart, In, To, call, cpu, Here
<1>2. 1 \in DOMAIN Here.call.asm
  BY HereGood DEF IInv, Good, Sound
<1>3. Iterations \in Nat
  BY WallTimerAssumption
<1>4. Place' /\ Counting'
  BY <1>1, <1>3 DEF IInv, Place, Labels, Counting
<1>5. Keeping'
  BY <1>1, <1>2 DEF IInv, Keeping
<1> QED
  BY <1>4, <1>5 DEF IInv

LEMMA LoopTestKeeps == IInv /\ LoopTest => IInv'
<1> SUFFICES ASSUME IInv, LoopTest PROVE IInv'
  OBVIOUS
<1>1. /\ pc = "test" /\ pc' = IF i < Iterations THEN "asm" ELSE "end"
      /\ UNCHANGED <<cmd, entry, i, op, runs, irqs, rax, stale>> /\ Here' = Here
  BY DEF LoopTest, In, To, call, loop, cpu, Here
<1>2. Here.call.asm[1].op = "put" => Here.call.asm[1].on \subseteq LeftChanged
  BY HereGood DEF IInv, Good, Sound, Puts
<1>3. Place' /\ Counting'
  BY <1>1, WallTimerAssumption DEF IInv, Place, Labels, Counting
<1>4. Keeping'
  BY <1>1, <1>2 DEF IInv, Keeping
<1> QED
  BY <1>3, <1>4 DEF IInv

\* The registers after an operation of a wrapper that is Good.
LEMMA EffectKeeps ==
  ASSUME IInv, pc = "asm", Effect(Here.call.asm[op])
  PROVE  /\ stale' \subseteq LeftChanged
         /\ op + 1 \in DOMAIN Here.call.asm /\ Here.call.asm[op + 1].op = "put" =>
              Here.call.asm[op + 1].on \ rax' \subseteq LeftChanged
<1> DEFINE f == Here.call
           m == f.asm[op]
<1>1. /\ op \in DOMAIN f.asm /\ DOMAIN f.asm = 1 .. Len(f.asm) /\ Len(f.asm) \in Nat
      /\ m.op = "fix" => m.on \subseteq LeftChanged
      /\ stale \subseteq LeftChanged
      /\ m.op = "put" => m.on \ rax \subseteq LeftChanged
  BY HereGood DEF IInv, Good, Sound, Keeping
<1>2. stale' \subseteq LeftChanged
  BY <1>1 DEF Effect
<1>3. ASSUME op + 1 \in DOMAIN f.asm, f.asm[op + 1].op = "put"
      PROVE  f.asm[op + 1].on \ rax' \subseteq LeftChanged
  <2>1. \/ f.asm[op + 1].on \subseteq LeftChanged
        \/ m.op = "get" /\ m.on = f.asm[op + 1].on
    <3>1. Puts(f, op + 1)
      BY <1>3, HereGood DEF IInv, Good, Sound
    <3>2. (op + 1) - 1 = op
      BY <1>1
    <3> QED
      BY <1>3, <3>1, <3>2 DEF Puts
  <2>2. CASE m.op = "get" /\ m.on = f.asm[op + 1].on
    <3>1. rax' = m.on \ stale
      BY <2>2 DEF Effect
    <3> QED
      BY <1>1, <2>2, <3>1
  <2> QED
    BY <2>1, <2>2
<1> QED
  BY <1>2, <1>3

LEMMA AsmKeeps == IInv /\ Asm => IInv'
<1> SUFFICES ASSUME IInv, Asm PROVE IInv'
  OBVIOUS
<1> DEFINE f == Here.call
<1>1. /\ pc = "asm" /\ Effect(f.asm[op])
      /\ UNCHANGED <<cmd, entry, irqs>> /\ Here' = Here
  BY DEF Asm, In, call, Here
<1>2. /\ Lost(f) = {} /\ DOMAIN f.asm = 1 .. Len(f.asm) /\ Len(f.asm) \in Nat \ {0}
      /\ op \in 1 .. Len(f.asm)
  BY <1>1, HereGood DEF IInv, Good, Sound, Keeping
<1>3. CASE op < Len(f.asm) /\ op' = op + 1 /\ UNCHANGED <<pc, i, runs>>
  <2>1. op + 1 \in DOMAIN f.asm
    BY <1>2, <1>3
  <2>2. Place' /\ Counting'
    BY <1>1, <1>3 DEF IInv, Place, Counting
  <2>3. Keeping'
    BY <1>1, <1>3, <2>1, EffectKeeps DEF IInv, Keeping
  <2> QED
    BY <2>2, <2>3 DEF IInv
<1>4. CASE /\ op = Len(f.asm) /\ op' = 1 /\ pc' = "test" /\ i' = i + 1
           /\ runs' = IF runs <= Iterations THEN runs + 1 ELSE runs
  <2>1. Place' /\ Counting'
    BY <1>1, <1>4, WallTimerAssumption DEF IInv, Place, Labels, Counting
  <2>2. Keeping'
    BY <1>1, <1>2, <1>4, EffectKeeps DEF IInv, Keeping
  <2> QED
    BY <2>1, <2>2 DEF IInv
<1> QED
  BY <1>2, <1>3, <1>4 DEF Asm, To

LEMMA FaultKeeps == IInv /\ Fault => IInv'
BY DEF IInv, Fault, To, Place, Labels, Counting, Keeping, call, loop, Here

LEMMA TimingEndKeeps == IInv /\ TimingEnd => IInv'
BY DEF IInv, TimingEnd, In, To, Place, Labels, Counting, Keeping, call, loop, cpu, Here

LEMMA LeaveKeeps == IInv /\ Leave => IInv'
BY DEF IInv, Leave, In, To, Place, Labels, Counting, Keeping, call, loop, Here

LEMMA NextEntryKeeps == IInv /\ NextEntry => IInv'
<1> SUFFICES ASSUME IInv, NextEntry PROVE IInv'
  OBVIOUS
<1>1. /\ pc' \in {"macro", "done"} /\ UNCHANGED <<cmd, irqs, stale>>
      /\ entry' \in DOMAIN Program[cmd]
  BY ProgramDomain DEF IInv, Place, NextEntry, To, call, cpu
<1> QED
  BY <1>1 DEF IInv, Place, Labels, Counting, Keeping

LEMMA InterruptKeeps ==
  ASSUME IInv, NEW r \in Live, Interrupt(r)
  PROVE  IInv'
<1>1. /\ irqs /\ stale' = stale \ {r} /\ rax' = rax \ {r}
      /\ UNCHANGED <<cmd, entry, pc, i, op, runs, irqs>> /\ Here' = Here
  BY DEF Interrupt, call, loop, Here
<1>2. pc = "asm" /\ Here.call.asm[op].op = "put" => Here.call.asm[op].on \subseteq LeftChanged
  BY <1>1, HereGood DEF IInv, Good, Quiet, Keeping
<1>3. Place' /\ Counting'
  BY <1>1 DEF IInv, Place, Counting
<1>4. Keeping'
  BY <1>1, <1>2 DEF IInv, Keeping
<1> QED
  BY <1>3, <1>4 DEF IInv

LEMMA NextIInv == IInv /\ [Next]_vars => IInv'
<1> SUFFICES ASSUME IInv, [Next]_vars PROVE IInv'
  OBVIOUS
<1>1. CASE Thread
  BY <1>1, MacroKeeps, TimingStartKeeps, LoopTestKeeps, AsmKeeps, FaultKeeps,
     TimingEndKeeps, LeaveKeeps, NextEntryKeeps DEF Thread
<1>2. CASE Tick
  BY <1>2 DEF IInv, Tick, Place, Counting, Keeping, call, loop, cpu, Here
<1>3. CASE SetClock
  BY <1>3 DEF IInv, SetClock, Place, Counting, Keeping, call, loop, cpu, Here
<1>4. ASSUME NEW r \in Live, Interrupt(r) PROVE IInv'
  BY <1>4, InterruptKeeps
<1>5. CASE UNCHANGED vars
  BY <1>5 DEF IInv, vars, Place, Counting, Keeping, call, loop, cpu, Here
<1> QED
  BY <1>1, <1>2, <1>3, <1>4, <1>5 DEF Next

\* Of the registers of the kernel, a call leaves none but TS, CR8 and TEST_CTL
\* changed: a write back needs masked interrupts, and every one has them.
THEOREM RegistersKept == Spec => []KernelRegistersKept
<1>1. IInv => KernelRegistersKept
  BY DEF IInv, Keeping, KernelRegistersKept, LeftChanged
<1> QED
  BY InitIInv, NextIInv, <1>1, PTL DEF Spec

\* Every loop runs its wrapper LOOP_ITERATIONS times, as no wrapper loses a
\* register that its caller counts in.
THEOREM LoopRuns == Spec => []LoopRunsItsIterations
<1>1. IInv => LoopRunsItsIterations
  BY DEF IInv, Counting, LoopRunsItsIterations
<1> QED
  BY InitIInv, NextIInv, <1>1, PTL DEF Spec

-----------------------------------------------------------------------------
(* The time that is logged                                                  *)

LEMMA DivMod ==
  ASSUME NEW t \in Int, NEW n \in Nat \ {0}
  PROVE  /\ t \div n \in Int /\ t % n \in 0 .. n - 1
         /\ (t \div n) * n + (t % n) = t
OBVIOUS

LEMMA MultipleMod ==
  ASSUME NEW v \in Int, NEW q \in Int, NEW n \in Nat \ {0}, v = q * n
  PROVE  v % n = 0
OBVIOUS

LEMMA Remainder ==
  ASSUME NEW d \in Int, NEW n \in Nat \ {0}
  PROVE  d % n \in 0 .. n - 1 /\ ((d % n) - d) % n = 0
<1>1. (d \div n) * n + (d % n) = d /\ d \div n \in Int /\ d % n \in 0 .. n - 1
  BY DivMod
<1>2. (d % n) - d = (- (d \div n)) * n
  BY <1>1
<1> QED
  BY <1>1, <1>2, MultipleMod

\* timespec_sub of two readings is what lies between them, whatever their seconds.
LEMMA SubExact ==
  ASSUME NEW sec \in Int, NEW nsec \in Int, NEW d \in Int
  PROVE  LET start == [tv_sec |-> sec, tv_nsec |-> nsec]
         IN  timespec_sub(timespec(Total(start) + d), start) = timespec(d)
<1> DEFINE start == [tv_sec |-> sec, tv_nsec |-> nsec]
           t == sec * NS + nsec + d
<1>1. NS \in Nat \ {0}
  BY WallTimerAssumption
<1>2. t \in Int /\ Total(start) + d = t
  BY <1>1 DEF Total
<1>3. timespec(t).tv_sec = t \div NS /\ timespec(t).tv_nsec = t % NS
  BY DEF timespec
<1>4. (t \div NS) * NS + (t % NS) = t /\ t \div NS \in Int /\ t % NS \in Int
  BY <1>1, <1>2, DivMod
<1>5. ((t \div NS) - sec) * NS + (t % NS) - nsec = d
  BY <1>1, <1>4
<1> QED
  BY <1>2, <1>3, <1>5 DEF timespec_sub

ClockInv ==
  /\ ts_start \in [tv_sec : Int, tv_nsec : Int]
  /\ elapsed \in Int /\ set \in Int
  /\ LoggedIsElapsed

LEMMA ClockStep == ClockInv /\ [Next]_vars => ClockInv'
<1> SUFFICES ASSUME ClockInv, [Next]_vars PROVE ClockInv'
  OBVIOUS
<1> NS \in Nat \ {0} /\ Steps \subseteq Int
  BY WallTimerAssumption
<1>1. CASE TimingStart
  <2>1. PICK t \in 2 * NS .. 3 * NS - 1 : ts_start' = timespec(t)
    BY <1>1 DEF TimingStart
  <2>2. ts_start' \in [tv_sec : Int, tv_nsec : Int]
    BY <2>1, DivMod DEF timespec
  <2> QED
    BY <1>1, <2>2 DEF TimingStart, To, ClockInv, LoggedIsElapsed
<1>2. CASE TimingEnd
  <2> DEFINE d == elapsed + set
  <2>1. /\ ts_start \in [tv_sec : Int, tv_nsec : Int] /\ d \in Int
        /\ UNCHANGED <<ts_start, elapsed, set>> /\ value' = test_of_time.tv_nsec
    BY <1>2 DEF TimingEnd, clock, ClockInv
  <2>2. PICK sec \in Int, nsec \in Int : ts_start = [tv_sec |-> sec, tv_nsec |-> nsec]
    BY <2>1
  <2>3. Total(ts_start) + elapsed + set = Total(ts_start) + d
    BY <2>2 DEF Total, ClockInv
  <2>4. test_of_time = timespec(d)
    BY <2>1, <2>2, <2>3, SubExact DEF test_of_time, ts_end
  <2>5. value' = d % NS
    BY <2>1, <2>4 DEF timespec
  <2>6. d % NS \in 0 .. NS - 1 /\ ((d % NS) - d) % NS = 0
    BY <2>1, Remainder
  <2>7. value' - elapsed - set = (d % NS) - d
    BY <2>5, <2>6 DEF ClockInv
  <2> QED
    BY <2>1, <2>5, <2>6, <2>7 DEF ClockInv, LoggedIsElapsed
<1>3. CASE Macro \/ LoopTest \/ Asm \/ Fault \/ Leave \/ NextEntry
  <2>1. UNCHANGED clock /\ pc' # "leave"
    BY <1>3 DEF Macro, Skip, LogZero, Enter, LoopTest, Asm, Fault, Leave, NextEntry, To, In
  <2> QED
    BY <2>1 DEF clock, ClockInv, LoggedIsElapsed
<1>4. CASE Tick \/ SetClock
  <2>1. pc' # "leave" /\ UNCHANGED ts_start
    BY <1>4 DEF Tick, SetClock, Timing
  <2>2. elapsed' \in Int /\ set' \in Int
    <3>1. elapsed \in Int /\ set \in Int
      BY DEF ClockInv
    <3>2. \/ elapsed' = elapsed + 1 /\ set' = set
          \/ elapsed' = elapsed /\ set' \in Steps
      BY <1>4 DEF Tick, SetClock
    <3>3. \A d \in Steps : d \in Int
      OBVIOUS
    <3>4. set' \in Int
      BY <3>1, <3>2, <3>3, Zenon
    <3> QED
      BY <3>1, <3>2, <3>4
  <2> QED
    BY <2>1, <2>2 DEF ClockInv, LoggedIsElapsed
<1>5. ASSUME NEW r \in Live, Interrupt(r) PROVE ClockInv'
  BY <1>5 DEF Interrupt, clock, report, ClockInv, LoggedIsElapsed
<1>6. CASE UNCHANGED vars
  BY <1>6 DEF vars, clock, report, ClockInv, LoggedIsElapsed
<1> QED
  BY <1>1, <1>2, <1>3, <1>4, <1>5, <1>6 DEF Next, Thread

LEMMA ClockInit == Init => ClockInv
<1> SUFFICES ASSUME Init PROVE ClockInv
  OBVIOUS
<1>1. ts_start = timespec(0) /\ elapsed = 0 /\ set = 0 /\ pc = "macro"
  BY DEF Init
<1>2. timespec(0) \in [tv_sec : Int, tv_nsec : Int]
  BY DivMod, WallTimerAssumption DEF timespec
<1> QED
  BY <1>1, <1>2 DEF ClockInv, LoggedIsElapsed

\* What is logged of a loop is the nanoseconds of what lies between the readings:
\* timespec_sub carries between the two fields as it should, for every clock.
THEOREM TimeLogged == Spec => []LoggedIsElapsed
<1>1. ClockInv => LoggedIsElapsed
  BY DEF ClockInv
<1> QED
  BY ClockInit, ClockStep, <1>1, PTL DEF Spec

-----------------------------------------------------------------------------
(* The rows that are logged                                                 *)

Names == {Program[cmd][k].name : k \in DOMAIN Program[cmd]}

\* An entry that a feature guards is one of the two that not every CPU has.
Guarded(e) == e.guard = "feature" <=> e.name \in {"RDRAND", "RDSEED"}

LEMMA WallNames ==
  \A k \in 1 .. 30 :
    /\ wall_timing_start[k].name =
         << "XOR", "CPUID", "RDTSC", "RDTSCP", "INVD", "CLTS", "INB", "OUTB", "INVLPG",
            "MOV_FROM_CR8", "MOV_TO_CR0", "MOV_TO_CR3", "MOV_TO_CR4", "MOV_TO_CR8",
            "MOV_DR0", "MOV_DR1", "MOV_DR2", "MOV_DR3", "MOV_DR4", "MOV_DR5",
            "MOV_DR6", "MOV_DR7", "RDMSR", "RDPMC", "RDRAND", "RDSEED", "WBINVD",
            "WRMSR", "MOVNTDQA", "MOVNTDQ" >>[k]
    /\ wall_timing_start[k].guard = "feature" <=> k \in {25, 26}
BY DEF wall_timing_start, TIMING_LOOP, TIMING_LOOP_SUSPEND_INTERRUPTS,
       TIMING_LOOP_BOOT_FEATURE_CHECK, TIMING_LOOP_CHECK_FOR_KMALLOC

\* The program's names are the rows that the script looks for but INVPCID, and no
\* two entries share one.
LEMMA WallRows ==
  /\ \A k, l \in 1 .. 30 :
       wall_timing_start[k].name = wall_timing_start[l].name => k = l
  /\ \A k \in 1 .. 30 : Guarded(wall_timing_start[k])
  /\ \A r \in standard_instructions \ {"INVPCID"} :
       \E k \in 1 .. 30 : wall_timing_start[k].name = r
  /\ \A k \in 1 .. 30 : wall_timing_start[k].name # "INVPCID"
<1>1. \A k, l \in 1 .. 30 :
        wall_timing_start[k].name = wall_timing_start[l].name => k = l
  <2>1. ASSUME NEW k \in 1 .. 10, NEW l \in 1 .. 30,
               wall_timing_start[k].name = wall_timing_start[l].name
        PROVE  k = l
    BY <2>1, WallNames, SMTT(60)
  <2>2. ASSUME NEW k \in 11 .. 20, NEW l \in 11 .. 30,
               wall_timing_start[k].name = wall_timing_start[l].name
        PROVE  k = l
    BY <2>2, WallNames, SMTT(60)
  <2>3. ASSUME NEW k \in 21 .. 30, NEW l \in 21 .. 30,
               wall_timing_start[k].name = wall_timing_start[l].name
        PROVE  k = l
    BY <2>3, WallNames, SMTT(60)
  <2>4. ASSUME NEW k \in 1 .. 30, NEW l \in 1 .. 30,
               wall_timing_start[k].name = wall_timing_start[l].name
        PROVE  k = l
    <3>1. CASE k \in 1 .. 10 \/ l \in 1 .. 10
      BY <2>1, <2>4, <3>1
    <3>2. CASE k \in 11 .. 30 /\ l \in 11 .. 30
      BY <2>2, <2>3, <2>4, <3>2
    <3> QED
      BY <2>4, <3>1, <3>2
  <2> QED
    BY <2>4
<1>2. \A k \in 1 .. 30 : Guarded(wall_timing_start[k])
  BY WallNames DEF Guarded
<1>3. \A r \in standard_instructions \ {"INVPCID"} :
        \E k \in 1 .. 30 : wall_timing_start[k].name = r
  BY WallNames DEF standard_instructions
<1>4. \A k \in 1 .. 30 : wall_timing_start[k].name # "INVPCID"
  BY WallNames
<1> QED
  BY <1>1, <1>2, <1>3, <1>4

LEMMA FlushRows ==
  /\ \A k, l \in 1 .. 3 :
       buffer_flush_start[k].name = buffer_flush_start[l].name => k = l
  /\ \A k \in 1 .. 3 : Guarded(buffer_flush_start[k])
  /\ \A r \in flush_instructions : \E k \in 1 .. 3 : buffer_flush_start[k].name = r
  /\ \A k \in 1 .. 3 : buffer_flush_start[k].name # "INVPCID"
BY DEF buffer_flush_start, TIMING_LOOP, TIMING_LOOP_CHECK_FOR_KMALLOC, Guarded,
       flush_instructions

\* The program of a call: its names are distinct, and they are its rows.
LEMMA ProgramRows ==
  ASSUME Place
  PROVE  /\ \A k, l \in DOMAIN Program[cmd] :
              Program[cmd][k].name = Program[cmd][l].name => k = l
         /\ \A k \in DOMAIN Program[cmd] :
              Guarded(Program[cmd][k]) /\ Program[cmd][k].name # "INVPCID"
         /\ \A r \in Rows[cmd] \ {"INVPCID"} :
              \E k \in DOMAIN Program[cmd] : Program[cmd][k].name = r
<1>1. CASE cmd = "WALL"
  <2>1. Program[cmd] = wall_timing_start /\ Rows[cmd] = standard_instructions
    BY <1>1 DEF Program, Rows
  <2>2. DOMAIN wall_timing_start = 1 .. 30
    BY DEF wall_timing_start
  <2> QED
    BY <2>1, <2>2, WallRows
<1>2. CASE cmd = "WALL_FL"
  <2>1. Program[cmd] = buffer_flush_start /\ Rows[cmd] = flush_instructions
    BY <1>2 DEF Program, Rows
  <2>2. DOMAIN buffer_flush_start = 1 .. 3
    BY DEF buffer_flush_start
  <2> QED
    BY <2>1, <2>2, FlushRows
<1> QED
  BY <1>1, <1>2 DEF Place, Program

\* An entry that logs its row when it runs.
Logs(e) == e.guard = "feature" => e.name \in features

\* With the types: between two loops the asm is at its start, the loop of an entry
\* that is skipped is never entered, and a call that returns is at its last entry.
Typed ==
  /\ TypeOK
  /\ pc \notin {"asm", "oops"} => op = 1
  /\ pc \in {"start", "test", "asm", "end", "leave"} => Logs(Here)
  /\ pc = "done" => entry = Len(Program[cmd])

\* The entries that the thread is through with, as far as the log is concerned.
Past == IF pc \in {"leave", "next", "done"} THEN entry ELSE entry - 1

\* No row has two lines, and those that have one are the entries of the past.
Logged ==
  pc # "oops" =>
    /\ \A a, b \in DOMAIN log : log[a] = log[b] => a = b
    /\ \A k \in DOMAIN Program[cmd] :
         (\E a \in DOMAIN log : log[a] = Program[cmd][k].name)
           <=> k <= Past /\ Logs(Program[cmd][k])

RowsInv == IInv /\ ClockInv /\ Typed /\ Logged

LEMMA FirstOp ==
  ASSUME Place
  PROVE  1 \in DOMAIN Here.call.asm
BY HereGood DEF Good, Sound

LEMMA SecondsNat ==
  ASSUME NEW t \in Nat
  PROVE  timespec(t) \in [tv_sec : Nat, tv_nsec : 0 .. NS - 1]
<1>1. NS \in Nat \ {0}
  BY WallTimerAssumption
<1>2. /\ t \div NS \in Int /\ t % NS \in 0 .. NS - 1
      /\ (t \div NS) * NS + (t % NS) = t
  BY <1>1, DivMod
<1>3. t \div NS >= 0
  BY <1>1
<1> QED
  BY <1>2, <1>3 DEF timespec

LEMMA InitRowsInv == Init => RowsInv
<1> SUFFICES ASSUME Init PROVE RowsInv
  OBVIOUS
<1>1. IInv /\ ClockInv
  BY InitIInv, ClockInit
<1>2. /\ buffer \in BOOLEAN /\ features \in SUBSET {"RDRAND", "RDSEED"}
      /\ entry = 1 /\ pc = "macro" /\ i = 0 /\ op = 1 /\ runs = 0
      /\ irqs = TRUE /\ rax = {} /\ stale = {}
      /\ ts_start = timespec(0) /\ elapsed = 0 /\ set = 0 /\ log = <<>> /\ value = 0
  BY DEF Init
<1>3. Typed
  <2>1. ts_start \in [tv_sec : Nat, tv_nsec : 0 .. NS - 1]
    BY <1>2, SecondsNat
  <2> QED
    BY <1>1, <1>2, <2>1, FirstOp, WallTimerAssumption DEF IInv, Place, Labels, Typed, TypeOK
<1>4. Logged
  <2>1. \A k \in DOMAIN Program[cmd] : ~ k <= 0
    BY <1>1, ProgramDomain DEF IInv
  <2> QED
    BY <1>2, <2>1 DEF Logged, Past
<1> QED
  BY <1>1, <1>3, <1>4 DEF RowsInv

\* A step that neither logs nor decides a line.
LEMMA NoLine ==
  ASSUME Logged, UNCHANGED <<cmd, features, log>>,
         pc' # "oops" => pc # "oops" /\ Past' = Past
  PROVE  Logged'
BY DEF Logged, Logs

\* The line of the entry the thread is at.
LEMMA NewLine ==
  ASSUME RowsInv, pc # "oops", Past = entry - 1, Past' = entry,
         UNCHANGED <<cmd, features, entry>>,
         Logs(Here), log' = Append(log, Here.name)
  PROVE  Logged' /\ log' \in Seq(Names)'
<1> DEFINE name(k) == Program[cmd][k].name
<1>1. /\ entry \in DOMAIN Program[cmd] /\ DOMAIN Program[cmd] \subseteq Nat
      /\ Here = Program[cmd][entry] /\ log \in Seq(Names)
  BY ProgramDomain DEF RowsInv, IInv, Place, Typed, TypeOK, Names, Here
<1>2. /\ Len(log) \in Nat /\ DOMAIN log = 1 .. Len(log)
      /\ DOMAIN log' = 1 .. Len(log) + 1
      /\ \A a \in DOMAIN log : log'[a] = log[a]
      /\ log'[Len(log) + 1] = name(entry)
  BY <1>1
<1>3. \A a \in DOMAIN log : log[a] # name(entry)
  BY <1>1 DEF RowsInv, Logged
<1>4. \A a, b \in DOMAIN log' : log'[a] = log'[b] => a = b
  BY <1>2, <1>3 DEF RowsInv, Logged
<1>5. ASSUME NEW k \in DOMAIN Program[cmd]
      PROVE  (\E a \in DOMAIN log' : log'[a] = name(k))
               <=> k <= entry /\ Logs(Program[cmd][k])
  <2>1. CASE k = entry
    BY <1>1, <1>2, <2>1
  <2>2. CASE k # entry
    <3>1. name(k) # name(entry)
      BY <1>1, <2>2, ProgramRows DEF RowsInv, IInv
    <3>2. (\E a \in DOMAIN log' : log'[a] = name(k)) <=> \E a \in DOMAIN log : log[a] = name(k)
      BY <1>2, <3>1
    <3>3. k <= entry <=> k <= entry - 1
      BY <1>1, <2>2
    <3> QED
      BY <3>2, <3>3 DEF RowsInv, Logged
  <2> QED
    BY <2>1, <2>2
<1>6. Logged'
  BY <1>4, <1>5 DEF Logged, Logs
<1>7. Names' = Names /\ name(entry) \in Names
  BY <1>1 DEF Names
<1> QED
  BY <1>1, <1>6, <1>7

LEMMA MacroRows == RowsInv /\ Macro => Typed' /\ Logged'
<1> SUFFICES ASSUME RowsInv, Macro PROVE Typed' /\ Logged'
  OBVIOUS
<1>1. /\ pc = "macro"
      /\ UNCHANGED <<cmd, buffer, features, entry, i, op, runs, rax, stale,
                     ts_start, elapsed, set>>
      /\ Here' = Here
  BY DEF Macro, In, call, loop, clock, Here
<1>2. TypeOK /\ op = 1 /\ entry \in Int
  BY <1>1, ProgramDomain DEF RowsInv, IInv, Place, Typed
<1>3. CASE Skip
  <2>1. pc' = "next" /\ UNCHANGED <<irqs, log, value>> /\ ~ Logs(Here)
    BY <1>3 DEF Skip, To, report, Logs
  <2>2. Typed'
    BY <1>1, <1>2, <2>1 DEF Typed, TypeOK
  <2>3. /\ Past = entry - 1 /\ Past' = entry
        /\ \A k \in DOMAIN Program[cmd] :
             k <= entry /\ Logs(Program[cmd][k]) <=> k <= entry - 1 /\ Logs(Program[cmd][k])
    BY <1>1, <1>2, <2>1, ProgramDomain DEF Past, Here, RowsInv, IInv
  <2>4. Logged'
    BY <1>1, <2>1, <2>3 DEF RowsInv, Logged, Logs
  <2> QED
    BY <2>2, <2>4
<1>4. CASE LogZero
  <2>1. /\ pc' = "next" /\ UNCHANGED irqs /\ value' = 0
        /\ log' = Append(log, Here.name) /\ Logs(Here)
    BY <1>4 DEF LogZero, To, Logs
  <2>2. Logged' /\ log' \in Seq(Names)'
    BY <1>1, <2>1, NewLine DEF Past
  <2>3. Typed'
    BY <1>1, <1>2, <2>1, <2>2 DEF Typed, TypeOK, Names
  <2> QED
    BY <2>2, <2>3
<1>5. CASE Enter
  <2>1. pc' = "start" /\ irqs' \in BOOLEAN /\ UNCHANGED <<log, value>> /\ Logs(Here)
    BY <1>2, <1>5 DEF Enter, To, report, Logs, TypeOK
  <2>2. Typed'
    BY <1>1, <1>2, <2>1 DEF Typed, TypeOK, Logs
  <2>3. Logged'
    BY <1>1, <2>1, NoLine DEF Past, RowsInv
  <2> QED
    BY <2>2, <2>3
<1> QED
  BY <1>3, <1>4, <1>5 DEF Macro

LEMMA TimingStartRows == RowsInv /\ TimingStart => Typed' /\ Logged'
<1> SUFFICES ASSUME RowsInv, TimingStart PROVE Typed' /\ Logged'
  OBVIOUS
<1>1. /\ pc = "start" /\ pc' = "test" /\ elapsed' = 0 /\ set' = 0
      /\ i' = 0 /\ op' = 1 /\ runs' = 0
      /\ UNCHANGED <<cmd, buffer, features, entry, irqs, rax, stale, log, value>>
      /\ Here' = Here
  BY DEF TimingStart, In, To, call, cpu, report, Here
<1>2. ts_start' \in [tv_sec : Nat, tv_nsec : 0 .. NS - 1]
  <2>1. PICK t \in 2 * NS .. 3 * NS - 1 : ts_start' = timespec(t)
    BY DEF TimingStart
  <2>2. t \in Nat
    BY WallTimerAssumption
  <2> QED
    BY <2>1, <2>2, SecondsNat
<1>3. 1 \in DOMAIN Here.call.asm
  BY FirstOp DEF RowsInv, IInv
<1>4. Typed'
  BY <1>1, <1>2, <1>3, WallTimerAssumption DEF RowsInv, Typed, TypeOK, Logs
<1>5. Logged'
  BY <1>1, NoLine DEF Past, RowsInv
<1> QED
  BY <1>4, <1>5

LEMMA LoopTestRows == RowsInv /\ LoopTest => Typed' /\ Logged'
<1> SUFFICES ASSUME RowsInv, LoopTest PROVE Typed' /\ Logged'
  OBVIOUS
<1>1. /\ pc = "test" /\ pc' \in {"asm", "end"}
      /\ UNCHANGED <<cmd, buffer, features, entry, i, op, runs, irqs, rax, stale,
                     ts_start, elapsed, set, log, value>>
      /\ Here' = Here
  BY DEF LoopTest, In, To, call, loop, cpu, clock, report, Here
<1>2. Typed'
  BY <1>1 DEF RowsInv, Typed, TypeOK, Logs
<1>3. Logged'
  BY <1>1, NoLine DEF Past, RowsInv
<1> QED
  BY <1>2, <1>3

LEMMA AsmRows == RowsInv /\ Asm => Typed' /\ Logged'
<1> SUFFICES ASSUME RowsInv, Asm PROVE Typed' /\ Logged'
  OBVIOUS
<1> DEFINE f == Here.call
<1>1. /\ pc = "asm" /\ Effect(f.asm[op])
      /\ UNCHANGED <<cmd, buffer, features, entry, irqs, ts_start, elapsed, set, log, value>>
      /\ Here' = Here
  BY DEF Asm, In, call, clock, report, Here
<1>2. /\ Lost(f) = {} /\ DOMAIN f.asm = 1 .. Len(f.asm) /\ Len(f.asm) \in Nat \ {0}
      /\ op \in 1 .. Len(f.asm) /\ f.asm[op].on \subseteq Register
      /\ i \in 0 .. Iterations /\ runs = i /\ i < Iterations
  BY <1>1, HereGood DEF RowsInv, IInv, Good, Sound, Keeping, Counting
<1>3. rax' \in SUBSET Register /\ stale' \in SUBSET Register
  BY <1>1, <1>2 DEF Effect, RowsInv, Typed, TypeOK
<1>4. /\ pc' \in {"asm", "test"} /\ op' \in DOMAIN f.asm /\ (pc' = "test" => op' = 1)
      /\ i' \in 0 .. Iterations /\ runs' \in 0 .. Iterations + 1
  BY <1>1, <1>2, WallTimerAssumption DEF Asm, To
<1>5. Typed'
  BY <1>1, <1>3, <1>4 DEF RowsInv, Typed, TypeOK, Logs
<1>6. Logged'
  BY <1>1, <1>4, NoLine DEF Past, RowsInv
<1> QED
  BY <1>5, <1>6

LEMMA TimingEndRows == RowsInv /\ TimingEnd => Typed' /\ Logged'
<1> SUFFICES ASSUME RowsInv, TimingEnd PROVE Typed' /\ Logged'
  OBVIOUS
<1>1. /\ pc = "end" /\ pc' = "leave"
      /\ log' = Append(log, Here.name) /\ value' = test_of_time.tv_nsec
      /\ UNCHANGED <<cmd, buffer, features, entry, i, op, runs, irqs, rax, stale,
                     ts_start, elapsed, set>>
      /\ Here' = Here
  BY DEF TimingEnd, In, To, call, loop, cpu, clock, Here
<1>2. value' \in Int
  <2>1. value' \in 0 .. NS - 1
    BY <1>1, ClockStep DEF RowsInv, Next, Thread, ClockInv, LoggedIsElapsed
  <2> QED
    BY <2>1, WallTimerAssumption
<1>3. Logs(Here)
  BY <1>1 DEF RowsInv, Typed
<1>4. Logged' /\ log' \in Seq(Names)'
  BY <1>1, <1>3, NewLine DEF Past
<1>5. Typed'
  BY <1>1, <1>2, <1>4 DEF RowsInv, Typed, TypeOK, Names, Logs
<1> QED
  BY <1>4, <1>5

LEMMA NextEntryRows == RowsInv /\ NextEntry => Typed' /\ Logged'
<1> SUFFICES ASSUME RowsInv, NextEntry PROVE Typed' /\ Logged'
  OBVIOUS
<1>1. /\ pc = "next" /\ entry \in 1 .. Len(Program[cmd]) /\ Len(Program[cmd]) \in Nat
      /\ UNCHANGED <<cmd, buffer, features, i, op, runs, irqs, rax, stale,
                     ts_start, elapsed, set, log, value>>
  BY ProgramDomain DEF NextEntry, In, call, loop, cpu, clock, report, RowsInv, IInv, Place
<1>2. /\ pc' \in {"macro", "done"} /\ Past' = Past
      /\ pc' = "done" => entry' = Len(Program[cmd])
  BY <1>1 DEF NextEntry, To, Past
<1>3. entry' \in DOMAIN Program[cmd]' /\ op \in DOMAIN Here'.call.asm
  <2>1. Place'
    BY NextIInv DEF RowsInv, IInv, Next, Thread
  <2>2. 1 \in DOMAIN Here'.call.asm
    <3>1. (Place => 1 \in DOMAIN Here.call.asm)'
      BY FirstOp, PTL
    <3> QED
      BY <2>1, <3>1
  <2>3. op = 1
    BY <1>1 DEF RowsInv, Typed
  <2> QED
    BY <2>1, <2>2, <2>3 DEF Place
<1>4. Typed'
  BY <1>1, <1>2, <1>3 DEF RowsInv, Typed, TypeOK
<1>5. Logged'
  BY <1>1, <1>2, NoLine DEF RowsInv
<1> QED
  BY <1>4, <1>5

\* The other steps change neither the log nor how far the thread is, or kill it.
LEMMA AsideRows ==
  ASSUME RowsInv,
         Fault \/ Leave \/ Tick \/ SetClock \/ (\E r \in Live : Interrupt(r)) \/ UNCHANGED vars
  PROVE  Typed' /\ Logged'
<1>1. /\ UNCHANGED <<cmd, buffer, features, entry, i, op, runs, ts_start, log, value>>
      /\ Here' = Here
  BY DEF Fault, Leave, Tick, SetClock, Interrupt, vars, call, loop, clock, report, Here
<1>2. \/ UNCHANGED pc
      \/ pc = "asm" /\ pc' = "oops"
      \/ pc = "leave" /\ pc' = "next"
  BY DEF Fault, Leave, Tick, SetClock, Interrupt, vars, In, To
<1>3. /\ irqs' \in BOOLEAN /\ rax' \in SUBSET Register /\ stale' \in SUBSET Register
  BY DEF Fault, Leave, Tick, SetClock, Interrupt, vars, cpu, RowsInv, Typed, TypeOK
<1>4. elapsed' \in Nat /\ set' \in Int
  <2>1. elapsed \in Nat /\ set \in Int /\ elapsed + 1 \in Nat
    BY DEF RowsInv, Typed, TypeOK
  <2>2. \/ UNCHANGED <<elapsed, set>>
        \/ elapsed' = elapsed + 1 /\ UNCHANGED set
        \/ set' \in Steps /\ UNCHANGED elapsed
    BY DEF Fault, Leave, Tick, SetClock, Interrupt, vars, clock
  <2>3. \A d \in Steps : d \in Int
    BY WallTimerAssumption
  <2> QED
    BY <2>1, <2>2, <2>3, Zenon
<1>5. Typed'
  BY <1>1, <1>2, <1>3, <1>4 DEF RowsInv, Typed, TypeOK, Logs
<1>6. Logged'
  BY <1>1, <1>2, NoLine DEF Past, RowsInv
<1> QED
  BY <1>5, <1>6

LEMMA NextRowsInv == RowsInv /\ [Next]_vars => RowsInv'
<1> SUFFICES ASSUME RowsInv, [Next]_vars PROVE RowsInv'
  OBVIOUS
<1>1. IInv' /\ ClockInv'
  BY NextIInv, ClockStep DEF RowsInv
<1>2. Typed' /\ Logged'
  BY MacroRows, TimingStartRows, LoopTestRows, AsmRows, TimingEndRows, NextEntryRows,
     AsideRows DEF Next, Thread
<1> QED
  BY <1>1, <1>2 DEF RowsInv

\* Every variable stays in its range, the wrappers' operations and the seconds of
\* the clock's readings among them.
THEOREM TypeCorrect == Spec => []TypeOK
<1>1. RowsInv => TypeOK
  BY DEF RowsInv, Typed
<1> QED
  BY InitRowsInv, NextRowsInv, <1>1, PTL DEF Spec

\* A call that returns has logged each row that the script looks for, once; those
\* that it skips are rows that the CPU has in no round.
THEOREM RowsLogged == Spec => []EveryRowLogged
<1>1. RowsInv => EveryRowLogged
  <2> SUFFICES ASSUME RowsInv, pc = "done", NEW r \in Rows[cmd]
               PROVE  LET lines == {k \in DOMAIN log : log[k] = r}
                      IN  IF r = "INVPCID" \/ r \in {"RDRAND", "RDSEED"} \ features
                          THEN lines = {}
                          ELSE Cardinality(lines) = 1
    BY DEF EveryRowLogged
  <2> DEFINE lines == {k \in DOMAIN log : log[k] = r}
  <2>1. Past = Len(Program[cmd]) /\ DOMAIN Program[cmd] = 1 .. Len(Program[cmd])
    BY ProgramDomain DEF Past, RowsInv, IInv, Typed
  <2>2. CASE r = "INVPCID"
    <3>1. \A a \in DOMAIN log : log[a] \in Names
      BY DEF RowsInv, Typed, TypeOK, Names
    <3>2. r \notin Names
      BY <2>2, ProgramRows DEF Names, RowsInv, IInv
    <3> QED
      BY <2>2, <3>1, <3>2
  <2>3. CASE r # "INVPCID"
    <3>1. PICK k \in DOMAIN Program[cmd] : Program[cmd][k].name = r
      BY <2>3, ProgramRows DEF RowsInv, IInv
    <3>2. Logs(Program[cmd][k]) <=> r \notin {"RDRAND", "RDSEED"} \ features
      BY <3>1, ProgramRows DEF Logs, Guarded, RowsInv, IInv
    <3>3. (\E a \in DOMAIN log : log[a] = r) <=> Logs(Program[cmd][k])
      BY <2>1, <3>1 DEF RowsInv, Logged
    <3>4. \A a, b \in lines : a = b
      BY DEF RowsInv, Logged
    <3>5. CASE Logs(Program[cmd][k])
      <4>1. PICK a \in DOMAIN log : log[a] = r
        BY <3>3, <3>5
      <4>2. lines = {a}
        BY <3>4, <4>1
      <4> QED
        BY <2>3, <3>2, <3>5, <4>2, FS_Singleton
    <3>6. CASE ~ Logs(Program[cmd][k])
      BY <3>2, <3>3, <3>6
    <3> QED
      BY <3>5, <3>6
  <2> QED
    BY <2>2, <2>3
<1> QED
  BY InitRowsInv, NextRowsInv, <1>1, PTL DEF Spec

=============================================================================
