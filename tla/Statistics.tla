----------------------------- MODULE Statistics -----------------------------
(***************************************************************************)
(* What ecr.sh computes with the values it has read.  The values are whole *)
(* and not negative, so that the division of $(( )) rounds down.           *)
(***************************************************************************)
EXTENDS Integers, SequencesExt

Sum(values) == FoldLeft(LAMBDA a, b : a + b, 0, values)

\* Mutant: count starts at one.
average_counts_one(values) == Sum(values) \div (Len(values) + 1)

\* Nothing to average is zero, as is all that was never set.
average(values) == Sum(values) \div (IF values = <<>> THEN 1 ELSE Len(values))

variance(avg, values) ==
  average([i \in DOMAIN values |-> (values[i] - avg) * (values[i] - avg)])

\* high - t is less than t - low.
Exits(t, low, high) == high - t < t - low

\* Mutant: one measurement is enough.
evaluate_either(t, XOR, CPUID) ==
  IF Exits(t.wall, XOR.wall, CPUID.wall) \/ Exits(t.nop, XOR.nop, CPUID.nop)
  THEN "X" ELSE ""

\* Times near those of CPUID, which exits to a hypervisor, and not of XOR, which
\* does not: in both measurements, or in one.
evaluate_exiting(t, XOR, CPUID) ==
  LET wall == Exits(t.wall, XOR.wall, CPUID.wall)
      nop  == Exits(t.nop, XOR.nop, CPUID.nop)
  IN  IF wall /\ nop THEN "X" ELSE IF wall \/ nop THEN "?" ELSE ""

=============================================================================
