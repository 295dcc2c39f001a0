---------------------------- MODULE Instructions ----------------------------
(***************************************************************************)
(* instructions.c: a wrapper for each instruction that is measured.  Of    *)
(* what its asm does, this keeps what the code around it depends on: the   *)
(* general registers it writes and the registers of the CPU that belong to *)
(* the kernel.  named is what the constraints tell the compiler, which     *)
(* saves and restores the callee-saved registers among them.               *)
(***************************************************************************)
EXTENDS Sequences

\* The kernel's registers; TS is a bit of CR0 that has an instruction of its own.
Register == {"CR0", "TS", "CR3", "CR4", "CR8", "DR0", "DR1", "DR2", "DR3",
             "DR6", "DR7", "TEST_CTL"}

General == {"rax", "rbx", "rcx", "rdx", "xmm1"}

\* Of the registers the wrappers write, a caller keeps values in this one only.
CalleeSaved == {"rbx"}

\* Machine instructions: those that compute in general registers, and those that
\* get kernel registers into rax, put rax there, or set one to a fixed value.
Compute(regs) == [op |-> "compute", writes |-> regs, on |-> {}]
Get(regs)     == [op |-> "get", writes |-> {"rax"}, on |-> regs]
Put(regs)     == [op |-> "put", writes |-> {}, on |-> regs]
Fix(reg)      == [op |-> "fix", writes |-> {}, on |-> {reg}]

Machine == [op : {"compute", "get", "put", "fix"}, writes : SUBSET General,
            on : SUBSET Register]

Wrapper(asm, named) == [asm |-> asm, named |-> named]

\* mov %r, %rax; mov %rax, %r
ReadAndWriteBack(regs) == Wrapper(<<Get(regs), Put(regs)>>, {})

\* The general registers whose values a caller loses.
Lost(f) == {r \in CalleeSaved \ f.named :
              \E k \in DOMAIN f.asm : r \in f.asm[k].writes}

-----------------------------------------------------------------------------
xor_f   == Wrapper(<<Compute({"rax"})>>, {"rax"})

\* Mutant: rbx is not named.
cpuid_no_rbx == Wrapper(<<Compute({"rax", "rbx", "rcx", "rdx"})>>, {"rax", "rcx", "rdx"})
cpuid_f ==
  Wrapper(<<Compute({"rax", "rbx", "rcx", "rdx"})>>, {"rax", "rbx", "rcx", "rdx"})

invd_f   == Wrapper(<<Compute({})>>, {})
clts_f   == Wrapper(<<Fix("TS")>>, {})
inb_f    == Wrapper(<<Compute({"rax"})>>, {"rax", "rdx"})
outb_f   == Wrapper(<<Compute({})>>, {"rax", "rdx"})
invlpg_f == Wrapper(<<Compute({"rbx"})>>, {"rbx"})

mov_from_cr8_f == Wrapper(<<Get({"CR8"})>>, {})
mov_to_cr0_f   == ReadAndWriteBack({"CR0", "TS"})
mov_to_cr3_f   == ReadAndWriteBack({"CR3"})
mov_to_cr4_f   == ReadAndWriteBack({"CR4"})
mov_to_cr8_f   == Wrapper(<<Compute({"rax"}), Compute({"rax"}), Put({"CR8"})>>, {})

\* While CR4.DE is 0, as Linux leaves it, DR4 and DR5 are DR6 and DR7.
mov_dr0_f == ReadAndWriteBack({"DR0"})
mov_dr1_f == ReadAndWriteBack({"DR1"})
mov_dr2_f == ReadAndWriteBack({"DR2"})
mov_dr3_f == ReadAndWriteBack({"DR3"})
mov_dr4_f == ReadAndWriteBack({"DR6"})
mov_dr5_f == ReadAndWriteBack({"DR7"})
mov_dr6_f == ReadAndWriteBack({"DR6"})
mov_dr7_f == ReadAndWriteBack({"DR7"})

rdmsr_f  == Wrapper(<<Compute({"rax", "rdx"})>>, {"rax", "rbx", "rcx", "rdx"})
rdpmc_f  == Wrapper(<<Compute({"rax", "rdx"})>>, {"rax", "rcx", "rdx"})
rdrand_f == Wrapper(<<Compute({"rax"})>>, {"rax"})
rdseed_f == Wrapper(<<Compute({"rax"})>>, {"rax"})
rdtsc_f  == Wrapper(<<Compute({"rax", "rdx"})>>, {"rax", "rdx"})
rdtscp_f == Wrapper(<<Compute({"rax", "rcx", "rdx"})>>, {"rax", "rcx", "rdx"})
wbinvd_f == Wrapper(<<Compute({})>>, {})

\* "A" holds the value in rax or in rdx: the other half of the MSR is whatever
\* that register holds.
wrmsr_f == Wrapper(<<Fix("TEST_CTL")>>, {"rax", "rcx", "rdx"})

\* The accesses to the buffer are in Driver.
movntdqa_f == Wrapper(<<Compute({"xmm1"})>>, {"rcx"})
movntdq_f  == Wrapper(<<Compute({})>>, {"rcx"})
clflush_f  == Wrapper(<<Compute({})>>, {"rcx"})
sfence_f   == Wrapper(<<Compute({})>>, {})
mfence_f   == Wrapper(<<Compute({})>>, {})

=============================================================================
