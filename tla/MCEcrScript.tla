---------------------------- MODULE MCEcrScript ----------------------------
(* Small instances of EcrScript.  A program needs the two rows that others  *)
(* are compared with, one with a mark of its own, one that may fault, gated *)
(* ones and, in the table, one that no timer logs, as INVPCID.  Gated       *)
(* entries stand where they do in the timers.  Some rows take times near    *)
(* XOR's, some near CPUID's, and some in one measurement only.              *)
EXTENDS EcrScript, TLC

E(row, gated) == [row |-> row, gated |-> gated]

MCProgram ==
  [standard |-> <<E("XOR", FALSE), E("CPUID", FALSE), E("INB", FALSE),
                  E("RDMSR", FALSE), E("MOVNTDQA", TRUE), E("MOVNTDQ", TRUE)>>,
   flush    |-> <<E("CLFLUSH", TRUE), E("SFENCE", FALSE)>>,
   cache    |-> <<E("0x0", FALSE), E("0x40", FALSE)>>,
   memory   |-> <<E("0", FALSE)>>]

MCTable ==
  [standard |-> {"XOR", "CPUID", "INB", "INVPCID", "RDMSR", "MOVNTDQA", "MOVNTDQ"},
   flush    |-> {"CLFLUSH", "SFENCE"},
   cache    |-> {"0x0", "0x40"},
   memory   |-> {"0"}]

MCTime ==
  [wall |-> [XOR |-> <<1, 2>>, CPUID |-> <<9, 12>>, INB |-> <<20, 21>>,
             RDMSR |-> <<10, 9>>, MOVNTDQA |-> <<5, 8>>, MOVNTDQ |-> <<1, 4>>,
             CLFLUSH |-> <<3, 3>>, SFENCE |-> <<0, 1>>],
   nop  |-> [XOR |-> <<2, 3>>, CPUID |-> <<30, 31>>, INB |-> <<40, 50>>,
             RDMSR |-> <<28, 29>>, MOVNTDQA |-> <<5, 6>>, MOVNTDQ |-> <<3, 3>>,
             CLFLUSH |-> <<4, 5>>, SFENCE |-> <<2, 2>>]]

Symmetry == Permutations(Sessions)

\* Commands fail only as long as sessions take turns: once they overlap, no run
\* says anything of what is read.
Bounded == overlapped => failures = 0

\* What is still read.  Of a session that has ended only its trap's argument counts;
\* its results were checked before, at "exit".  Nothing before the last "Inserting"
\* is looked at but the lines of an allocation, nor anything once that is lost.
Kept(s) ==
  IF pc[s] = "ended" THEN <<args[s].first>>
  ELSE <<args[s], round[s], shown[s], why[s], read[s], measured[s], printed[s]>>

LogAhead ==
  LET since  == Since
      old(k) == (since = 0 \/ k < since) /\ log[k].kind \notin {"insert", "alloc", "address"}
  IN  [k \in DOMAIN log |-> IF old(k) THEN NULL ELSE log[k]]

Ahead == <<logsize, failures, loaded, vmem, LogAhead, wrapped, pc,
           [s \in Sessions |-> Kept(s)], overlapped>>
=============================================================================
