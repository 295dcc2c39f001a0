------------------------------- MODULE Driver -------------------------------
(***************************************************************************)
(* main.c with the memory accesses of cache_timer.c, memory_timer.c and    *)
(* instructions.c: the character device, its commands, and the one buffer  *)
(* that they share.  A client opens the device, sends one command after    *)
(* another and releases it; the module is inserted and removed around it.  *)
(*                                                                         *)
(* Addresses are numbers and NULL is 0.  Of the memory, the words at vmem  *)
(* and vmem_aligned are kept, the only ones the code looks at.             *)
(***************************************************************************)
EXTENDS Integers, Sequences

CONSTANTS
  Clients,      \* processes that use the device
  Bases,        \* addresses that kmalloc may return
  Contents,     \* values of a word in memory
  Unload        \* may the module be removed while it is in use?

KMALLOC_SIZE == 8 * 64

ASSUME DriverAssumption ==
  /\ Bases \subseteq {b \in Nat \ {0} : b % 8 = 0}
  /\ Contents \subseteq Nat
  /\ Unload \in BOOLEAN

VARIABLES
  module,             \* "absent", "live", or "leaving": kfree is done
  vmem, vmem_aligned, \* the two globals
  heap,               \* the buffers kmalloc returned and nobody freed
  mem,                \* mem[a]: the word at address a
  pc,                 \* pc[c]: where client c is
  cmd, step,          \* cmd[c], step[c]: its command, and the next access of it
  local,              \* local[c]: the pointer it holds in a register, if any
  ret,                \* ret[c]: what its last command returned
  probed,             \* probed[c]: its last access
  overlapped,         \* history: two commands were under way at once
  denied              \* history: kmalloc has returned NULL

globals == <<module, vmem, vmem_aligned, heap, mem>>
client  == <<cmd, step, local, ret, probed>>
vars    == <<globals, pc, client, overlapped, denied>>

-----------------------------------------------------------------------------
\* Mutants: rounded to 8 bytes; always to the next boundary.
AlignWord(a) == ((a + 7) \div 8) * 8
AlignNext(a) == (a \div 16 + 1) * 16

\* ((uintptr_t) vmem + 15) & ~(uintptr_t) 0x0F
Align(a) == ((a + 15) \div 16) * 16

Words == Bases \cup {Align(b) : b \in Bases}

EFAULT == -14
EINVAL == -22

\* An access of a measurement: its distance in bytes from vmem_aligned, how
\* many bytes it takes, and whether it stores.
Access(offset, size, store) ==
  [offset |-> offset, size |-> size, store |-> store]

\* movntdqa_f and movntdq_f, and clflush_f: a cache line is named by a byte.
Moves == <<Access(0, 16, FALSE), Access(0, 16, TRUE)>>
Flush == <<Access(0, 1, FALSE)>>

\* vmem_aligned + offset counts in words of 8 bytes.
Cache == [i \in 1 .. 5 |-> Access(8 * <<0, 64, 128, 256, 4096>>[i], 4, FALSE)]

Memory == [i \in 1 .. 10 |-> Access(4096 * (i - 1), 4, FALSE)]

Accesses == [WALL |-> Moves, THREAD |-> Moves, WALL_FL |-> Flush,
             THREAD_FL |-> Flush, CACHE |-> Cache, MEMORY |-> Memory]

Gated   == {"WALL", "THREAD", "WALL_FL", "THREAD_FL"}
Probing == {"CACHE", "MEMORY"}
Cmd     == Gated \cup Probing \cup {"NOP", "KMALLOC", "other"}

\* In the module's code; and with the device open.
Busy   == {"kmalloc", "align", "check", "take", "gate", "access"}
InUse  == Busy \cup {"open"}
PC     == InUse \cup {"closed", "oops"}

-----------------------------------------------------------------------------
(* The device and the module                                               *)

\* A module is loaded with its globals zero.  If misc_register fails it is
\* not, and nothing changes.
timing_init_module ==
  /\ module = "absent"
  /\ module' = "live"
  /\ vmem' = 0 /\ vmem_aligned' = 0
  /\ UNCHANGED <<heap, mem, pc, client, overlapped, denied>>

\* fops has no owner: an open file does not keep the module.
Removable == Unload \/ \A c \in Clients : pc[c] \notin InUse

\* Mutant: the buffer stays.
KfreeNothing ==
  /\ module = "live" /\ Removable
  /\ module' = "leaving"
  /\ UNCHANGED <<vmem, vmem_aligned, heap, mem, pc, client, overlapped, denied>>

\* timing_cleanup_module first frees the buffer and then takes the device away.
Kfree ==
  /\ module = "live" /\ Removable
  /\ module' = "leaving"
  /\ heap' = heap \ {vmem}
  /\ UNCHANGED <<vmem, vmem_aligned, mem, pc, client, overlapped, denied>>

Deregister ==
  /\ module = "leaving"
  /\ module' = "absent"
  /\ UNCHANGED <<vmem, vmem_aligned, heap, mem, pc, client, overlapped, denied>>

\* Until it is deregistered, after the buffer is gone, the device can be opened.
Openable == module = "live" \/ (Unload /\ module = "leaving")

timing_open(c) ==
  /\ Openable
  /\ pc[c] = "closed"
  /\ pc' = [pc EXCEPT ![c] = "open"]
  /\ UNCHANGED <<globals, client, overlapped, denied>>

\* With the last close the process is gone: whoever opens next is another one.
timing_release(c) ==
  /\ pc[c] = "open"
  /\ pc' = [pc EXCEPT ![c] = "closed"]
  /\ cmd' = [cmd EXCEPT ![c] = "NOP"]
  /\ ret' = [ret EXCEPT ![c] = 0]
  /\ probed' = [probed EXCEPT ![c] = <<>>]
  /\ UNCHANGED <<globals, step, local, overlapped, denied>>

-----------------------------------------------------------------------------
(* The commands: timing_unlocked_ioctl                                     *)

Goto(c, from, to)  == pc[c] = from /\ pc' = [pc EXCEPT ![c] = to]
Return(c, from, r) == Goto(c, from, "open") /\ ret' = [ret EXCEPT ![c] = r]

\* Mutants: KMALLOC does not look for a buffer; CACHE and MEMORY do not.
TargetAfresh(k) == IF k = "KMALLOC" THEN "kmalloc"
                   ELSE IF k \in Gated THEN "gate" ELSE "access"

TargetUnguarded(k) == IF k \in Probing THEN "access"
                      ELSE IF k \in Gated THEN "gate"
                      ELSE IF vmem = 0 THEN "kmalloc" ELSE "check"

\* Where the switch goes: KMALLOC, CACHE and MEMORY ask for vmem.
Target(k) == IF k \in Gated THEN "gate"
             ELSE IF k = "KMALLOC" THEN IF vmem = 0 THEN "kmalloc" ELSE "check"
             ELSE IF vmem = 0 THEN "open"
             ELSE IF k = "MEMORY" THEN "take" ELSE "access"

Dispatch(c, k) ==
  /\ overlapped' = (overlapped \/ \E d \in Clients : pc[d] \in Busy)
  /\ cmd' = [cmd EXCEPT ![c] = k]
  /\ probed' = [probed EXCEPT ![c] = <<>>]
  /\ \/ k = "NOP" /\ Return(c, "open", 0)
     \/ k = "other" /\ Return(c, "open", EINVAL)
     \/ k \notin {"NOP", "other"} /\ Goto(c, "open", Target(k))
          /\ ret' = [ret EXCEPT ![c] = IF Target(k) = "open" THEN EFAULT ELSE @]
  /\ UNCHANGED <<globals, step, local, denied>>

\* kmalloc returns NULL, or a buffer of which nothing else is known.
Kmalloc(c) ==
  /\ Goto(c, "kmalloc", "align")
  /\ \/ vmem' = 0 /\ UNCHANGED <<heap, mem>>
     \/ \E b \in Bases \ heap :
          /\ vmem' = b
          /\ heap' = heap \cup {b}
          /\ \E v, w \in Contents : mem' = [mem EXCEPT ![Align(b)] = w, ![b] = v]
  /\ local' = [local EXCEPT ![c] = vmem']
  /\ denied' = (denied \/ vmem' = 0)
  /\ UNCHANGED <<module, vmem_aligned, cmd, step, ret, probed, overlapped>>

\* Mutant: the pointer is not aligned.
SetUnaligned(c) ==
  /\ Goto(c, "align", "check")
  /\ \E v \in {vmem, local[c]} : vmem_aligned' = v
  /\ local' = [local EXCEPT ![c] = 0]
  /\ UNCHANGED <<module, vmem, heap, mem, cmd, step, ret, probed, overlapped, denied>>

\* vmem is read again, or is still in the register: the compiler may choose.
SetAligned(c) ==
  /\ Goto(c, "align", "check")
  /\ \E v \in {vmem, local[c]} : vmem_aligned' = Align(v)
  /\ local' = [local EXCEPT ![c] = 0]
  /\ UNCHANGED <<module, vmem, heap, mem, cmd, step, ret, probed, overlapped, denied>>

\* if ( !*vmem || !*vmem_aligned ): the words pointed to, not the pointers, are
\* tested and printed.
Check(c) ==
  /\ \/ /\ vmem # 0 => (vmem_aligned = 0 /\ mem[vmem] # 0)
        /\ Goto(c, "check", "oops")
        /\ UNCHANGED ret
     \/ /\ vmem # 0
        /\ mem[vmem] # 0 => (vmem_aligned # 0 /\ mem[vmem_aligned] = 0)
        /\ Return(c, "check", EFAULT)
     \/ /\ vmem # 0 /\ vmem_aligned # 0
        /\ mem[vmem] # 0 /\ mem[vmem_aligned] # 0
        /\ Return(c, "check", 0)
  /\ UNCHANGED <<globals, cmd, step, local, probed, overlapped, denied>>

\* ptv = vmem_aligned
Take(c) ==
  /\ Goto(c, "take", "access")
  /\ local' = [local EXCEPT ![c] = vmem_aligned]
  /\ UNCHANGED <<globals, cmd, step, ret, probed, overlapped, denied>>

\* On to the next access, or back to the client.
Advance(c) ==
  LET more == step[c] < Len(Accesses[cmd[c]])
      next == IF cmd[c] \in Gated THEN "gate" ELSE "access"
  IN  /\ pc' = [pc EXCEPT ![c] = IF more THEN next ELSE "open"]
      /\ ret' = [ret EXCEPT ![c] = IF more THEN @ ELSE 0]
      /\ step' = [step EXCEPT ![c] = IF more THEN @ + 1 ELSE 1]
      /\ local' = [local EXCEPT ![c] = IF more THEN @ ELSE 0]

\* if ( vmem_aligned ), in wall_timer.h and nop_timer.h; else a zero is logged.
\* In NOP timing it is the INSTR thread that does this while the ioctl waits.
GateKmalloc(c) ==
  /\ pc[c] = "gate"
  /\ \/ vmem_aligned # 0 /\ Goto(c, "gate", "access") /\ UNCHANGED <<ret, step, local>>
     \/ vmem_aligned = 0 /\ Advance(c)
  /\ UNCHANGED <<globals, cmd, probed, overlapped, denied>>

\* The pointer is read again for each access, but for MEMORY.  movntdq stores
\* what xmm1 holds, which nothing saves: it may be anything.
Touch(c) ==
  LET a    == Accesses[cmd[c]][step[c]]
      base == IF cmd[c] = "MEMORY" THEN local[c] ELSE vmem_aligned
  IN  /\ pc[c] = "access"
      /\ probed' = [probed EXCEPT ![c] = <<base + a.offset, a.size>>]
      /\ \/ /\ base # 0
            /\ \/ ~ a.store /\ UNCHANGED mem
               \/ a.store /\ \E v \in Contents : mem' = [mem EXCEPT ![base] = v]
            /\ Advance(c)
         \/ /\ base = 0
            /\ Goto(c, "access", "oops")
            /\ UNCHANGED <<mem, ret, step, local>>
      /\ UNCHANGED <<module, vmem, vmem_aligned, heap, cmd, overlapped, denied>>

-----------------------------------------------------------------------------
Init ==
  /\ module = "absent"
  /\ vmem = 0 /\ vmem_aligned = 0
  /\ heap = {}
  /\ mem \in [Words -> Contents]
  /\ pc = [c \in Clients |-> "closed"]
  /\ cmd = [c \in Clients |-> "NOP"]
  /\ step = [c \in Clients |-> 1]
  /\ local = [c \in Clients |-> 0]
  /\ ret = [c \in Clients |-> 0]
  /\ probed = [c \in Clients |-> <<>>]
  /\ overlapped = FALSE /\ denied = FALSE

ClientStep(c) ==
  \/ timing_open(c) \/ timing_release(c) \/ \E k \in Cmd : Dispatch(c, k)
  \/ Kmalloc(c) \/ SetAligned(c) \/ Check(c)
  \/ Take(c) \/ GateKmalloc(c) \/ Touch(c)

Next ==
  \/ timing_init_module \/ Kfree \/ Deregister
  \/ \E c \in Clients : ClientStep(c)

Spec == Init /\ [][Next]_vars

-----------------------------------------------------------------------------
(* Properties                                                              *)

TypeOK ==
  /\ module \in {"absent", "live", "leaving"}
  /\ vmem \in Bases \cup {0}
  /\ vmem_aligned \in {Align(b) : b \in Bases \cup {0}}
  /\ heap \in SUBSET Bases
  /\ mem \in [Words -> Contents]
  /\ pc \in [Clients -> PC]
  /\ cmd \in [Clients -> Cmd]
  /\ step \in [Clients -> 1 .. 10]
  /\ local \in [Clients -> Nat]
  /\ ret \in [Clients -> {0, EFAULT, EINVAL}]
  /\ probed \in [Clients -> Seq(Nat)]
  /\ {overlapped, denied} \subseteq BOOLEAN

\* While commands take turns, the one buffer that is allocated is the one that
\* vmem names, so that cleanup finds it: after rmmod nothing is left.
NothingLeaks ==
  ~ overlapped => heap = IF module = "live" THEN {vmem} \ {0} ELSE {}

\* The guards of main.c ask for vmem, those of the timers for vmem_aligned, and
\* a failed kmalloc sets both: between commands they say the same thing.
GuardsAgree ==
  ~ overlapped /\ (\A c \in Clients : pc[c] \notin Busy) =>
    vmem_aligned = Align(vmem) /\ (vmem = 0 <=> vmem_aligned = 0)

\* A stretch of memory lies inside a buffer that is still allocated.
InBuffer(p) == \E b \in heap : b <= p[1] /\ p[1] + p[2] <= b + KMALLOC_SIZE

\* The non-temporal moves and the flush hit the buffer, and the moves 16-byte
\* boundaries, or they would fault: wherever kmalloc puts the buffer, and while
\* commands of other clients allocate.  The gate is passed before the pointer is
\* read: a move goes through NULL, and faults, but only where a kmalloc has failed
\* and commands have overlapped.
MovesInBuffer ==
  \A c \in Clients : cmd[c] \in Gated =>
    /\ probed[c] # <<>> /\ pc[c] \in InUse =>
         InBuffer(probed[c]) /\ probed[c][1] % 16 = 0
    /\ pc[c] = "oops" => probed[c][1] = 0 /\ denied /\ overlapped

\* As long as commands take turns, a NULL pointer is only used by KMALLOC: no
\* measurement faults, whatever was allocated, failed or removed before.
OnlyKmallocFaults ==
  ~ overlapped => \A c \in Clients : pc[c] = "oops" => cmd[c] = "KMALLOC"

\* The address on the screen of a waiting user stays good: once there is a
\* buffer, no command moves or replaces it before the module is removed, as long as
\* commands take turns.
BufferStable ==
  [][~ overlapped' /\ module = "live" /\ vmem # 0 /\ module' = "live" =>
       /\ vmem' = vmem /\ vmem \in heap'
       /\ vmem_aligned # 0 => vmem_aligned' = vmem_aligned]_vars

-----------------------------------------------------------------------------
(* What the repository says of the driver, and the code does not do        *)

\* README Note 1: "Kernel memory allocation may fail.  In this case, simply
\* rerun the module."  So a failed kmalloc is reported, not dereferenced.
FailureReported == \A c \in Clients : pc[c] # "oops"

\* main.c:32 says that the variables kmalloc() memory for cache and memory
\* timing: what is timed is in that memory.
ProbesInBuffer ==
  \A c \in Clients :
    cmd[c] \in Probing /\ probed[c] # <<>> /\ pc[c] \in InUse =>
      InBuffer(probed[c])

\* nop_timer.c:32 has module cleanup signal the NOP thread to stop: so nothing
\* runs in the module once it is gone.
NothingRunsRemoved ==
  module = "absent" => \A c \in Clients : pc[c] \notin Busy

=============================================================================
