----------------------------- MODULE MCNopTimer -----------------------------
(* Small instances of NopTimer: short programs that pass every gate.        *)
EXTENDS NopTimerRefinement, TLC

E(name, gate) == [name |-> name, gate |-> gate]

MCInstr == <<E("RDMSR", "none"), E("RDRAND", "feature"), E("MOV_TO_CR0", "irqs"),
             E("MOVNTDQA", "kmalloc")>>
MCFlush == <<E("CLFLUSH", "kmalloc"), E("SFENCE", "none")>>

\* Not every CPU has the model-specific register.
MCFaulting == {"RDMSR"}

\* The shortest programs with which two calls can meet.
MCInstr1 == <<E("MOV_TO_CR0", "irqs")>>
MCFlush1 == <<E("CLFLUSH", "kmalloc")>>

\* What decides how the threads move: count, acc, dmesg and request never do.
Control == <<th, flags, ioctl, pc, stop, sig, entry, masked>>

Symmetry == Permutations(Calls)
=============================================================================
