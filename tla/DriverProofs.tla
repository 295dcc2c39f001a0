---------------------------- MODULE DriverProofs ----------------------------
(***************************************************************************)
(* Theorems about Driver, for every set of clients and wherever kmalloc    *)
(* puts its buffers.                                                       *)
(***************************************************************************)
EXTENDS Driver, TLAPS

-----------------------------------------------------------------------------
(* Rounding up, and the accesses of the measurements                        *)

\* main.c:86 rounds up to the next multiple of 16, and NULL to NULL.
LEMMA AlignFacts ==
  /\ Align(0) = 0
  /\ \A a \in Nat : /\ Align(a) \in Nat /\ Align(a) % 16 = 0
                    /\ a <= Align(a) /\ Align(a) <= a + 15
BY DEF Align

\* Addresses of buffers are positive, and each leaves room behind the boundary.
LEMMA BaseFacts ==
  /\ Bases \cup {0} \subseteq Nat /\ 0 \notin Bases
  /\ \A b \in Bases \cup {0} : Align(b) \in Nat /\ (Align(b) = 0 <=> b = 0)
  /\ \A b \in Bases : b \in Words /\ Align(b) \in Words
BY DriverAssumption, AlignFacts DEF Words

\* What the accesses of a command have in common.
AccessesIn(seq, n) ==
  /\ Len(seq) \in Nat /\ 1 <= Len(seq) /\ Len(seq) <= n
  /\ \A i \in 1 .. Len(seq) : seq[i].offset \in Nat /\ seq[i].size \in Nat

AccessesAtStart(seq) ==
  \A i \in 1 .. Len(seq) : seq[i].offset = 0 /\ seq[i].size \in 1 .. 16

LEMMA MoveFacts ==
  \A k \in Gated : AccessesIn(Accesses[k], 2) /\ AccessesAtStart(Accesses[k])
<1>1. AccessesIn(Moves, 2) /\ AccessesAtStart(Moves)
  <2>1. /\ Len(Moves) = 2
        /\ Moves[1] = Access(0, 16, FALSE) /\ Moves[2] = Access(0, 16, TRUE)
    BY DEF Moves
  <2>2. \A i \in 1 .. 2 : i = 1 \/ i = 2
    OBVIOUS
  <2> QED
    BY <2>1, <2>2 DEF Access, AccessesIn, AccessesAtStart
<1>2. AccessesIn(Flush, 2) /\ AccessesAtStart(Flush)
  <2>1. Len(Flush) = 1 /\ Flush[1] = Access(0, 1, FALSE)
    BY DEF Flush
  <2>2. \A i \in 1 .. 1 : i = 1
    OBVIOUS
  <2> QED
    BY <2>1, <2>2 DEF Access, AccessesIn, AccessesAtStart
<1>3. \A k \in Gated : Accesses[k] = Moves \/ Accesses[k] = Flush
  BY DEF Gated, Accesses
<1> QED
  BY <1>1, <1>2, <1>3

LEMMA ProbeFacts ==
  \A k \in Probing : AccessesIn(Accesses[k], 10)
<1>1. Accesses["CACHE"] = Cache /\ Accesses["MEMORY"] = Memory
  BY DEF Accesses
<1>2. AccessesIn(Cache, 10)
  <2>1. Len(Cache) = 5
    BY DEF Cache
  <2>2. \A i \in 1 .. 5 : <<0, 64, 128, 256, 4096>>[i] \in Nat
    OBVIOUS
  <2>3. \A i \in 1 .. 5 : Cache[i].offset \in Nat /\ Cache[i].size \in Nat
    BY <2>2 DEF Cache, Access
  <2> QED
    BY <2>1, <2>3 DEF AccessesIn
<1>3. AccessesIn(Memory, 10)
  <2>1. Len(Memory) = 10
    BY DEF Memory
  <2>2. \A i \in 1 .. 10 : Memory[i].offset \in Nat /\ Memory[i].size \in Nat
    BY DEF Memory, Access
  <2> QED
    BY <2>1, <2>2 DEF AccessesIn
<1> QED
  BY <1>1, <1>2, <1>3 DEF Probing

-----------------------------------------------------------------------------
(* Type correctness, whatever overlaps                                      *)

\* What the program counter of a client says of its command.
CommandOK(c) ==
  /\ pc[c] = "gate" => cmd[c] \in Gated
  /\ pc[c] = "access" => cmd[c] \in Gated \cup Probing
  /\ pc[c] = "take" => cmd[c] = "MEMORY"
  /\ pc[c] \in {"kmalloc", "align", "check"} => cmd[c] = "KMALLOC"
  /\ pc[c] \in {"gate", "access"} => step[c] <= Len(Accesses[cmd[c]])
  /\ pc[c] = "align" => local[c] \in Bases \cup {0}
  /\ pc[c] \notin {"gate", "access", "oops"} => step[c] = 1

TypeInv == TypeOK /\ \A c \in Clients : CommandOK(c)

\* At most one command is under way, and none once the module is being removed.
Exclusive ==
  /\ \A c, d \in Clients : pc[c] \in Busy /\ pc[d] \in Busy => c = d
  /\ module # "live" => \A c \in Clients : pc[c] \notin InUse

\* What NothingLeaks says of commands that take turns.
Owned == heap = IF module = "live" THEN {vmem} \ {0} ELSE {}

\* The two globals, from where the client that may be changing them is.
Pointers ==
  /\ \A c \in Clients : pc[c] = "kmalloc" => vmem = 0
  /\ \A c \in Clients : pc[c] = "align" => local[c] = vmem /\ vmem_aligned = 0
  /\ (\A c \in Clients : pc[c] # "align") => vmem_aligned = Align(vmem)

\* Past the guards there is a buffer; only KMALLOC gets there without one.
Guarded(c) ==
  /\ pc[c] \in {"take", "access"} => vmem # 0
  /\ pc[c] = "access" /\ cmd[c] = "MEMORY" => local[c] = vmem_aligned
  /\ pc[c] = "oops" => cmd[c] = "KMALLOC"

SerialInv ==
  /\ TypeInv
  /\ Exclusive
  /\ Owned
  /\ Pointers
  /\ \A c \in Clients : Guarded(c)

-----------------------------------------------------------------------------
LEMMA AllAccesses ==
  \A k \in Gated \cup Probing : AccessesIn(Accesses[k], 10)
BY MoveFacts, ProbeFacts DEF AccessesIn

\* The types alone, without what is known of the heap.
LEMMA PointerTypes ==
  ASSUME TypeOK
  PROVE  vmem \in Nat /\ vmem_aligned \in Nat
BY BaseFacts DEF TypeOK

\* A step of client c leaves what is said of the other clients as it was.
Untouched(c) ==
  \A d \in Clients : d # c => /\ pc'[d] = pc[d] /\ cmd'[d] = cmd[d]
                              /\ step'[d] = step[d] /\ local'[d] = local[d]
                              /\ probed'[d] = probed[d]

LEMMA Locally ==
  ASSUME TypeInv, TypeOK', NEW c \in Clients, Untouched(c), CommandOK(c)'
  PROVE  TypeInv'
BY DEF TypeInv, CommandOK, Untouched

LEMMA TypeInit == Init => TypeInv
<1> SUFFICES ASSUME Init PROVE TypeInv
  OBVIOUS
<1>1. vmem_aligned \in {Align(b) : b \in Bases \cup {0}}
  BY AlignFacts DEF Init
<1>2. /\ pc \in [Clients -> PC] /\ cmd \in [Clients -> Cmd]
      /\ step \in [Clients -> 1 .. 10] /\ local \in [Clients -> Nat]
      /\ ret \in [Clients -> {0, EFAULT, EINVAL}]
  BY DEF Init, PC, Cmd
<1>3. probed \in [Clients -> Seq(Nat)]
  BY DEF Init
<1>4. TypeOK
  BY <1>1, <1>2, <1>3 DEF Init, TypeOK
<1>5. \A c \in Clients : CommandOK(c)
  BY DEF Init, CommandOK
<1> QED
  BY <1>4, <1>5 DEF TypeInv

LEMMA TypeDispatch ==
  ASSUME TypeInv, NEW c \in Clients, NEW k \in Cmd, Dispatch(c, k)
  PROVE  TypeInv' /\ Untouched(c)
<1> USE DEF TypeOK, globals, client
<1>0. TypeOK
  BY DEF TypeInv
<1>1. pc[c] = "open" /\ \E to \in PC : pc' = [pc EXCEPT ![c] = to]
  BY DEF Dispatch, Return, Goto, Target, PC, InUse, Busy
<1>2. \E r \in {0, EFAULT, EINVAL} : ret' = [ret EXCEPT ![c] = r]
  BY <1>0 DEF Dispatch, Return
<1>3. TypeOK'
  <2>1. overlapped' \in BOOLEAN /\ denied' = denied
    BY <1>0 DEF Dispatch
  <2> QED
    BY <1>0, <1>1, <1>2, <2>1 DEF Dispatch
<1>4. Untouched(c)
  BY <1>0, <1>1 DEF Dispatch, Untouched
<1>5. CommandOK(c)'
  <2>1. cmd'[c] = k /\ step'[c] = 1
    BY <1>0, <1>1 DEF Dispatch, TypeInv, CommandOK
  <2>2. k \in Gated \cup Probing => 1 <= Len(Accesses[k])
    BY AllAccesses DEF AccessesIn
  <2>3. \/ pc'[c] = "open"
        \/ k \notin {"NOP", "other"} /\ pc'[c] = Target(k)
    BY <1>0 DEF Dispatch, Return, Goto
  <2>4. pc'[c] # "align"
    BY <2>3 DEF Target
  <2>5. CASE pc'[c] = "open"
    BY <2>1, <2>5 DEF CommandOK
  <2>6. CASE k \notin {"NOP", "other"} /\ pc'[c] = Target(k)
    BY <2>1, <2>2, <2>4, <2>6 DEF CommandOK, Target, Cmd, Probing
  <2> QED
    BY <2>3, <2>5, <2>6
<1> QED
  BY <1>3, <1>4, <1>5, Locally

LEMMA TypeKmalloc ==
  ASSUME TypeInv, NEW c \in Clients, Kmalloc(c)
  PROVE  TypeInv' /\ Untouched(c)
<1> USE DEF TypeOK, globals, client
<1>0. TypeOK
  BY DEF TypeInv
<1>1. /\ pc[c] = "kmalloc" /\ pc' = [pc EXCEPT ![c] = "align"]
      /\ local' = [local EXCEPT ![c] = vmem']
      /\ denied' = (denied \/ vmem' = 0)
      /\ UNCHANGED <<module, vmem_aligned, cmd, step, ret, probed, overlapped>>
  BY DEF Kmalloc, Goto
<1>2. vmem' \in Bases \cup {0} /\ heap' \in SUBSET Bases
  BY <1>0 DEF Kmalloc
<1>3. mem' \in [Words -> Contents]
  <2>1. CASE UNCHANGED mem
    BY <1>0, <2>1
  <2>2. CASE \E b \in Bases, v, w \in Contents :
               mem' = [mem EXCEPT ![Align(b)] = w, ![b] = v]
    BY <1>0, <2>2
  <2> QED
    BY <2>1, <2>2 DEF Kmalloc
<1>4. vmem' \in Nat /\ "align" \in PC
  BY <1>2, BaseFacts DEF PC, InUse, Busy
<1>5. TypeOK'
  BY <1>0, <1>1, <1>2, <1>3, <1>4
<1>6. Untouched(c)
  BY <1>0, <1>1 DEF Untouched
<1>7. CommandOK(c)'
  BY <1>0, <1>1, <1>2 DEF CommandOK, TypeInv
<1> QED
  BY <1>5, <1>6, <1>7, Locally

LEMMA TypeSetAligned ==
  ASSUME TypeInv, NEW c \in Clients, SetAligned(c)
  PROVE  TypeInv' /\ Untouched(c)
<1> USE DEF TypeOK, globals, client
<1>0. TypeOK
  BY DEF TypeInv
<1>1. pc[c] = "align" /\ pc' = [pc EXCEPT ![c] = "check"]
      /\ local' = [local EXCEPT ![c] = 0]
      /\ UNCHANGED <<module, vmem, heap, mem, cmd, step, ret, probed, overlapped, denied>>
  BY DEF SetAligned, Goto
<1>2. local[c] \in Bases \cup {0}
  BY <1>1 DEF TypeInv, CommandOK
<1>3. vmem_aligned' \in {Align(b) : b \in Bases \cup {0}}
  BY <1>0, <1>2 DEF SetAligned
<1>4. TypeOK'
  BY <1>0, <1>1, <1>3 DEF PC, InUse, Busy
<1>5. Untouched(c)
  BY <1>0, <1>1 DEF Untouched
<1>6. CommandOK(c)'
  BY <1>0, <1>1 DEF CommandOK, TypeInv
<1> QED
  BY <1>4, <1>5, <1>6, Locally

LEMMA TypeCheck ==
  ASSUME TypeInv, NEW c \in Clients, Check(c)
  PROVE  TypeInv' /\ Untouched(c)
<1> USE DEF TypeOK, globals, client
<1>0. TypeOK
  BY DEF TypeInv
<1>1. /\ pc[c] = "check"
      /\ UNCHANGED <<module, vmem, vmem_aligned, heap, mem, cmd, step, local, probed,
                    overlapped, denied>>
      /\ \E to \in {"oops", "open"} : pc' = [pc EXCEPT ![c] = to]
  BY DEF Check, Goto, Return
<1>2. ret' \in [Clients -> {0, EFAULT, EINVAL}]
  BY <1>0 DEF Check, Return
<1>4. TypeOK'
  BY <1>0, <1>1, <1>2 DEF PC, InUse
<1>5. Untouched(c)
  BY <1>0, <1>1 DEF Untouched
<1>6. CommandOK(c)'
  BY <1>0, <1>1 DEF CommandOK, TypeInv
<1> QED
  BY <1>4, <1>5, <1>6, Locally

LEMMA TypeTake ==
  ASSUME TypeInv, NEW c \in Clients, Take(c)
  PROVE  TypeInv' /\ Untouched(c)
<1> USE DEF TypeOK, globals, client
<1>0. TypeOK
  BY DEF TypeInv
<1>1. /\ pc[c] = "take" /\ pc' = [pc EXCEPT ![c] = "access"]
      /\ local' = [local EXCEPT ![c] = vmem_aligned]
      /\ UNCHANGED <<module, vmem, vmem_aligned, heap, mem, cmd, step, ret, probed,
                    overlapped, denied>>
  BY DEF Take, Goto
<1>2. TypeOK'
  BY <1>0, <1>1, PointerTypes DEF PC, InUse, Busy
<1>3. Untouched(c)
  BY <1>0, <1>1 DEF Untouched
<1>4. CommandOK(c)'
  <2>1. cmd[c] = "MEMORY" /\ step[c] = 1
    BY <1>1 DEF TypeInv, CommandOK
  <2>2. 1 <= Len(Accesses["MEMORY"])
    BY ProbeFacts DEF Probing, AccessesIn
  <2> QED
    BY <1>0, <1>1, <2>1, <2>2 DEF CommandOK, Probing
<1> QED
  BY <1>2, <1>3, <1>4, Locally

\* Where GateKmalloc and Touch go on: to the next access, or back.
LEMMA TypeAdvance ==
  ASSUME TypeInv, NEW c \in Clients, pc[c] \in {"gate", "access"}, Advance(c)
  PROVE  /\ pc' \in [Clients -> PC] /\ step' \in [Clients -> 1 .. 10]
         /\ ret' \in [Clients -> {0, EFAULT, EINVAL}]
         /\ local' \in [Clients -> Nat]
         /\ \A d \in Clients : d # c => /\ pc'[d] = pc[d] /\ step'[d] = step[d]
                                        /\ local'[d] = local[d]
         /\ pc'[c] \in {"gate", "access", "open"}
         /\ cmd' = cmd => CommandOK(c)'
<1>0. TypeOK
  BY DEF TypeInv
<1>1. cmd[c] \in Gated \cup Probing /\ step[c] <= Len(Accesses[cmd[c]])
  BY DEF TypeInv, CommandOK
<1>2. Len(Accesses[cmd[c]]) \in Nat /\ Len(Accesses[cmd[c]]) <= 10
  BY <1>1, AllAccesses DEF AccessesIn
<1>3. step[c] \in 1 .. 10
  BY <1>0, <1>1, <1>2 DEF TypeOK
<1>4. pc'[c] = IF step[c] < Len(Accesses[cmd[c]])
               THEN IF cmd[c] \in Gated THEN "gate" ELSE "access" ELSE "open"
  BY <1>0 DEF TypeOK, Advance
<1>5. step'[c] = IF step[c] < Len(Accesses[cmd[c]]) THEN step[c] + 1 ELSE 1
  BY <1>0 DEF TypeOK, Advance
<1>6. pc' \in [Clients -> PC]
  BY <1>0 DEF TypeOK, Advance, PC, InUse, Busy
<1>7. step' \in [Clients -> 1 .. 10]
  <2>1. /\ step \in [Clients -> 1 .. 10]
        /\ step' = [step EXCEPT ![c] = IF step[c] < Len(Accesses[cmd[c]])
                                       THEN step[c] + 1 ELSE 1]
    BY <1>0 DEF TypeOK, Advance
  <2>2. step[c] < Len(Accesses[cmd[c]]) => step[c] + 1 \in 1 .. 10
    BY <1>2, <1>3
  <2> QED
    BY <2>1, <2>2
<1>8. ret' \in [Clients -> {0, EFAULT, EINVAL}]
  BY <1>0 DEF TypeOK, Advance
<1>9. /\ local' \in [Clients -> Nat]
      /\ \A d \in Clients : d # c => /\ pc'[d] = pc[d] /\ step'[d] = step[d]
                                     /\ local'[d] = local[d]
  BY <1>0 DEF TypeOK, Advance
<1>10. cmd' = cmd => CommandOK(c)'
  BY <1>1, <1>2, <1>3, <1>4, <1>5 DEF CommandOK
<1> QED
  BY <1>4, <1>6, <1>7, <1>8, <1>9, <1>10

LEMMA TypeGate ==
  ASSUME TypeInv, NEW c \in Clients, GateKmalloc(c)
  PROVE  TypeInv' /\ Untouched(c)
<1> USE DEF globals, client
<1>0. TypeOK
  BY DEF TypeInv
<1>1. /\ pc[c] = "gate"
      /\ UNCHANGED <<module, vmem, vmem_aligned, heap, mem, cmd, probed, overlapped, denied>>
  BY DEF GateKmalloc, Goto
<1>2. CASE Goto(c, "gate", "access") /\ UNCHANGED <<ret, step, local>>
  <2>1. TypeOK'
    BY <1>0, <1>1, <1>2 DEF TypeOK, Goto, PC, InUse, Busy
  <2>2. Untouched(c)
    BY <1>0, <1>1, <1>2 DEF TypeOK, Goto, Untouched
  <2>3. CommandOK(c)'
    BY <1>0, <1>1, <1>2 DEF TypeOK, TypeInv, Goto, CommandOK
  <2> QED
    BY <2>1, <2>2, <2>3, Locally
<1>3. CASE Advance(c)
  <2>1. TypeOK'
    BY <1>0, <1>1, <1>3, TypeAdvance DEF TypeOK
  <2>2. Untouched(c)
    BY <1>1, <1>3, TypeAdvance DEF Untouched
  <2> QED
    BY <1>1, <1>3, <2>1, <2>2, TypeAdvance, Locally
<1> QED
  BY <1>2, <1>3 DEF GateKmalloc

\* The address and the size of an access are natural numbers.
LEMMA TouchType ==
  ASSUME TypeInv, NEW c \in Clients, pc[c] = "access"
  PROVE  LET a == Accesses[cmd[c]][step[c]]
         IN  /\ <<local[c] + a.offset, a.size>> \in Seq(Nat)
             /\ <<vmem_aligned + a.offset, a.size>> \in Seq(Nat)
<1> DEFINE a == Accesses[cmd[c]][step[c]]
<1>1. cmd[c] \in Gated \cup Probing /\ step[c] <= Len(Accesses[cmd[c]])
  BY DEF TypeInv, CommandOK
<1>2. AccessesIn(Accesses[cmd[c]], 10) /\ step[c] \in 1 .. 10
  BY <1>1, AllAccesses DEF TypeInv, TypeOK
<1>3. step[c] \in 1 .. Len(Accesses[cmd[c]])
  BY <1>1, <1>2 DEF AccessesIn
<1>4. a.offset \in Nat /\ a.size \in Nat
  BY <1>2, <1>3 DEF AccessesIn
<1>5. local[c] \in Nat /\ vmem_aligned \in Nat
  BY PointerTypes DEF TypeInv, TypeOK
<1> HIDE DEF a
<1>6. local[c] + a.offset \in Nat /\ vmem_aligned + a.offset \in Nat
  BY <1>4, <1>5
<1> QED
  BY <1>4, <1>6 DEF a

LEMMA TypeTouch ==
  ASSUME TypeInv, NEW c \in Clients, Touch(c)
  PROVE  TypeInv' /\ Untouched(c)
<1> USE DEF globals, client
<1> DEFINE a    == Accesses[cmd[c]][step[c]]
           base == IF cmd[c] = "MEMORY" THEN local[c] ELSE vmem_aligned
<1>0. TypeOK
  BY DEF TypeInv
<1>1. /\ pc[c] = "access"
      /\ probed' = [probed EXCEPT ![c] = <<base + a.offset, a.size>>]
      /\ UNCHANGED <<module, vmem, vmem_aligned, heap, cmd, overlapped, denied>>
  BY DEF Touch
<1>4. /\ probed' \in [Clients -> Seq(Nat)]
      /\ \A d \in Clients : d # c => probed'[d] = probed[d]
  <2>1. <<base + a.offset, a.size>> \in Seq(Nat)
    BY <1>1, TouchType
  <2> HIDE DEF a, base
  <2> QED
    BY <1>0, <1>1, <2>1 DEF TypeOK
<1>2. CASE /\ base = 0 /\ Goto(c, "access", "oops")
           /\ UNCHANGED <<mem, ret, step, local>>
  <2>1. TypeOK'
    BY <1>0, <1>1, <1>2, <1>4 DEF TypeOK, Goto, PC
  <2>2. Untouched(c)
    BY <1>0, <1>1, <1>2, <1>4 DEF TypeOK, Goto, Untouched
  <2>3. CommandOK(c)'
    BY <1>0, <1>2 DEF TypeOK, Goto, CommandOK
  <2> QED
    BY <2>1, <2>2, <2>3, Locally
<1>3. CASE /\ base # 0
           /\ \/ ~ a.store /\ UNCHANGED mem
              \/ a.store /\ \E v \in Contents : mem' = [mem EXCEPT ![base] = v]
           /\ Advance(c)
  <2>1. mem' \in [Words -> Contents]
    BY <1>0, <1>3 DEF TypeOK
  <2>2. TypeOK'
    BY <1>0, <1>1, <1>3, <1>4, <2>1, TypeAdvance DEF TypeOK
  <2>3. Untouched(c)
    BY <1>1, <1>3, <1>4, TypeAdvance DEF Untouched
  <2> QED
    BY <1>1, <1>3, <2>2, <2>3, TypeAdvance, Locally
<1> QED
  BY <1>2, <1>3 DEF Touch

LEMMA TypeStep == TypeInv /\ [Next]_vars => TypeInv'
<1> SUFFICES ASSUME TypeInv, [Next]_vars PROVE TypeInv'
  OBVIOUS
<1> USE DEF globals, client
<1>0. TypeOK
  BY DEF TypeInv
<1>1. CASE timing_init_module
  BY <1>0, <1>1, AlignFacts DEF timing_init_module, TypeInv, TypeOK, CommandOK
<1>2. CASE Kfree
  BY <1>0, <1>2 DEF Kfree, TypeInv, TypeOK, CommandOK
<1>3. CASE Deregister
  BY <1>0, <1>3 DEF Deregister, TypeInv, TypeOK, CommandOK
<1>4. ASSUME NEW c \in Clients, ClientStep(c) PROVE TypeInv'
  <2>1. CASE timing_open(c) \/ timing_release(c)
    <3>1. TypeOK'
      <4>1. CASE timing_open(c)
        BY <1>0, <4>1 DEF timing_open, TypeOK, PC, InUse
      <4>2. CASE timing_release(c)
        <5>1. probed' \in [Clients -> Seq(Nat)]
          BY <1>0, <4>2 DEF timing_release, TypeOK
        <5> QED
          BY <1>0, <4>2, <5>1 DEF timing_release, TypeOK, PC, Cmd
      <4> QED
        BY <2>1, <4>1, <4>2
    <3>2. Untouched(c)
      BY <1>0, <2>1 DEF timing_open, timing_release, TypeOK, Untouched
    <3>3. /\ pc[c] \in {"open", "closed"} /\ pc'[c] \in {"open", "closed"}
          /\ step' = step
      BY <1>0, <2>1 DEF timing_open, timing_release, TypeOK
    <3>4. CommandOK(c)'
      BY <3>3 DEF TypeInv, CommandOK
    <3> QED
      BY <3>1, <3>2, <3>4, Locally
  <2> QED
    BY <1>4, <2>1, TypeDispatch, TypeKmalloc, TypeSetAligned, TypeCheck,
       TypeTake, TypeGate, TypeTouch DEF ClientStep
<1>5. CASE UNCHANGED vars
  BY <1>5 DEF vars, TypeInv, TypeOK, CommandOK
<1> QED
  BY <1>1, <1>2, <1>3, <1>4, <1>5 DEF Next

\* The driver's variables keep their types, whatever overlaps: in particular
\* no measurement goes past its last access.
THEOREM TypeCorrect == Spec => []TypeOK
<1>1. TypeInv => TypeOK
  BY DEF TypeInv
<1> QED
  BY TypeInit, TypeStep, <1>1, PTL DEF Spec

-----------------------------------------------------------------------------
(* The life of the buffer, while clients take turns                         *)

LEMMA SerialLocally ==
  ASSUME SerialInv, TypeInv', NEW c \in Clients, Untouched(c),
         pc[c] \in InUse, \A d \in Clients : d # c => pc[d] \notin Busy,
         UNCHANGED module,
         Owned', Pointers', Guarded(c)'
  PROVE  SerialInv'
<1>1. module = "live"
  BY DEF SerialInv, Exclusive
<1>2. Exclusive'
  BY <1>1 DEF Exclusive, Untouched
<1>3. ASSUME NEW d \in Clients, d # c
      PROVE  Guarded(d)'
  <2>1. pc'[d] = pc[d] /\ cmd'[d] = cmd[d] /\ pc[d] \notin Busy
    BY <1>3 DEF Untouched
  <2>2. Guarded(d)
    BY DEF SerialInv
  <2> QED
    BY <2>1, <2>2 DEF Guarded, Busy
<1> QED
  BY <1>2, <1>3 DEF SerialInv

\* What a client that is in the module's code may rely on.
LEMMA AloneBusy ==
  ASSUME SerialInv, NEW c \in Clients, pc[c] \in Busy
  PROVE  /\ TypeOK /\ TypeInv /\ CommandOK(c) /\ Guarded(c)
         /\ \A d \in Clients : d # c => pc[d] \notin Busy
         /\ module = "live" /\ heap = {vmem} \ {0} /\ pc[c] \in InUse
         /\ pc[c] # "align" => vmem_aligned = Align(vmem)
<1>1. module = "live" /\ pc[c] \in InUse
  BY DEF SerialInv, Exclusive, InUse
<1>2. \A d \in Clients : d # c => pc[d] \notin Busy
  BY DEF SerialInv, Exclusive
<1>3. pc[c] # "align" => \A d \in Clients : pc[d] # "align"
  BY <1>2 DEF Busy
<1> QED
  BY <1>1, <1>2, <1>3 DEF SerialInv, TypeInv, Owned, Pointers

LEMMA SerialInit == Init => SerialInv
<1> SUFFICES ASSUME Init PROVE SerialInv
  OBVIOUS
<1>1. \A c \in Clients : pc[c] = "closed"
  BY DEF Init
<1>2. Exclusive
  BY <1>1 DEF Exclusive, InUse, Busy
<1>3. Owned /\ Pointers
  BY <1>1, AlignFacts DEF Init, Owned, Pointers
<1>4. \A c \in Clients : Guarded(c)
  BY <1>1 DEF Guarded
<1> QED
  BY <1>2, <1>3, <1>4, TypeInit DEF SerialInv

LEMMA SerialDispatch ==
  ASSUME ~ overlapped', SerialInv, NEW c \in Clients, NEW k \in Cmd, Dispatch(c, k)
  PROVE  SerialInv'
<1>0. TypeInv' /\ Untouched(c)
  BY TypeDispatch DEF SerialInv
<1>1. TypeOK /\ \A d \in Clients : pc[d] \notin Busy
  BY DEF SerialInv, TypeInv, Dispatch
<1>2. /\ pc[c] = "open" /\ cmd'[c] = k
      /\ UNCHANGED <<module, vmem, vmem_aligned, heap, local>>
  BY <1>1 DEF Dispatch, Return, Goto, TypeOK, globals
<1>3. \/ pc'[c] = "open"
      \/ k \notin {"NOP", "other"} /\ pc'[c] = Target(k)
  BY <1>1 DEF Dispatch, Return, Goto, TypeOK
<1>4. vmem_aligned = Align(vmem)
  BY <1>1 DEF SerialInv, Pointers, Busy
<1>5. Pointers'
  <2>1. \A d \in Clients : d # c => pc'[d] \notin Busy
    BY <1>0, <1>1 DEF Untouched
  <2>2. pc'[c] # "align" /\ (pc'[c] = "kmalloc" => vmem = 0)
    BY <1>3 DEF Target
  <2> QED
    BY <1>2, <1>4, <2>1, <2>2 DEF Pointers, Busy
<1>6. Guarded(c)'
  <2>1. pc'[c] \in {"take", "access"} => vmem # 0
    BY <1>3 DEF Target
  <2>2. ~ (pc'[c] = "access" /\ k = "MEMORY") /\ pc'[c] # "oops"
    BY <1>3 DEF Target, Gated
  <2> QED
    BY <1>2, <2>1, <2>2 DEF Guarded
<1>7. Owned'
  BY <1>2 DEF SerialInv, Owned
<1> QED
  BY <1>0, <1>1, <1>2, <1>5, <1>6, <1>7, SerialLocally DEF InUse

LEMMA SerialKmalloc ==
  ASSUME SerialInv, NEW c \in Clients, Kmalloc(c)
  PROVE  SerialInv'
<1>0. TypeInv' /\ Untouched(c)
  BY TypeKmalloc DEF SerialInv
<1>1. pc[c] = "kmalloc" /\ pc[c] \in Busy
  BY DEF Kmalloc, Goto, Busy
<1>2. /\ TypeOK /\ module = "live" /\ heap = {vmem} \ {0} /\ pc[c] \in InUse
      /\ \A d \in Clients : d # c => pc[d] \notin Busy
      /\ cmd[c] = "KMALLOC"
  BY <1>1, AloneBusy DEF CommandOK
<1>3. vmem = 0 /\ vmem_aligned = 0
  BY <1>1, AloneBusy, AlignFacts DEF SerialInv, Pointers
<1>4. /\ pc'[c] = "align" /\ cmd'[c] = cmd[c] /\ local'[c] = vmem'
      /\ module' = module /\ vmem_aligned' = 0
  BY <1>2, <1>3 DEF Kmalloc, Goto, TypeOK
<1>5. heap' = {vmem'} \ {0}
  BY <1>2, <1>3, BaseFacts DEF Kmalloc
<1>6. Owned'
  BY <1>2, <1>4, <1>5 DEF Owned
<1>7. Pointers'
  BY <1>0, <1>2, <1>4 DEF Pointers, Untouched, Busy
<1>8. Guarded(c)'
  BY <1>2, <1>4 DEF Guarded
<1> QED
  BY <1>0, <1>2, <1>4, <1>6, <1>7, <1>8, SerialLocally

LEMMA SerialSetAligned ==
  ASSUME SerialInv, NEW c \in Clients, SetAligned(c)
  PROVE  SerialInv'
<1>0. TypeInv' /\ Untouched(c)
  BY TypeSetAligned DEF SerialInv
<1>1. pc[c] = "align" /\ pc[c] \in Busy
  BY DEF SetAligned, Goto, Busy
<1>2. /\ TypeOK /\ module = "live" /\ heap = {vmem} \ {0} /\ pc[c] \in InUse
      /\ \A d \in Clients : d # c => pc[d] \notin Busy
      /\ cmd[c] = "KMALLOC"
  BY <1>1, AloneBusy DEF CommandOK
<1>3. local[c] = vmem
  BY <1>1 DEF SerialInv, Pointers
<1>4. /\ pc'[c] = "check" /\ vmem_aligned' = Align(vmem)
      /\ UNCHANGED <<module, vmem, heap, cmd>>
  BY <1>2, <1>3 DEF SetAligned, Goto, TypeOK, client
<1>5. Owned' /\ Guarded(c)'
  BY <1>2, <1>4 DEF Owned, Guarded
<1>6. Pointers'
  BY <1>0, <1>2, <1>4 DEF Pointers, Untouched, Busy
<1> QED
  BY <1>0, <1>2, <1>4, <1>5, <1>6, SerialLocally

\* A step of c that leaves the globals alone and does not enter KMALLOC's code.
LEMMA SerialGlobals ==
  ASSUME SerialInv, TypeInv', NEW c \in Clients, Untouched(c), pc[c] \in Busy,
         pc[c] # "align", pc'[c] \notin {"kmalloc", "align"},
         UNCHANGED <<module, vmem, vmem_aligned, heap>>,
         Guarded(c)'
  PROVE  SerialInv'
<1>1. /\ \A d \in Clients : d # c => pc[d] \notin Busy
      /\ pc[c] \in InUse /\ vmem_aligned = Align(vmem)
  BY AloneBusy
<1>2. Pointers'
  BY <1>1 DEF Pointers, Untouched, Busy
<1>3. Owned'
  BY DEF SerialInv, Owned
<1> QED
  BY <1>1, <1>2, <1>3, SerialLocally

LEMMA SerialCheck ==
  ASSUME SerialInv, NEW c \in Clients, Check(c)
  PROVE  SerialInv'
<1>0. TypeInv' /\ Untouched(c)
  BY TypeCheck DEF SerialInv
<1>1. pc[c] = "check" /\ pc[c] \in Busy
  BY DEF Check, Goto, Return, Busy
<1>2. TypeOK /\ cmd[c] = "KMALLOC"
  BY <1>1, AloneBusy DEF CommandOK
<1>3. /\ pc'[c] \in {"oops", "open"}
      /\ UNCHANGED <<module, vmem, vmem_aligned, heap, cmd>>
  BY <1>2 DEF Check, Goto, Return, TypeOK, globals
<1>4. Guarded(c)'
  BY <1>2, <1>3 DEF Guarded, Gated
<1> QED
  BY <1>0, <1>1, <1>3, <1>4, SerialGlobals

LEMMA SerialTake ==
  ASSUME SerialInv, NEW c \in Clients, Take(c)
  PROVE  SerialInv'
<1>0. TypeInv' /\ Untouched(c)
  BY TypeTake DEF SerialInv
<1>1. pc[c] = "take" /\ pc[c] \in Busy
  BY DEF Take, Goto, Busy
<1>2. TypeOK /\ cmd[c] = "MEMORY" /\ vmem # 0
  BY <1>1, AloneBusy DEF CommandOK, Guarded
<1>3. /\ pc'[c] = "access" /\ local'[c] = vmem_aligned
      /\ UNCHANGED <<module, vmem, vmem_aligned, heap, cmd>>
  BY <1>2 DEF Take, Goto, TypeOK, globals
<1>4. Guarded(c)'
  BY <1>2, <1>3 DEF Guarded, Gated
<1> QED
  BY <1>0, <1>1, <1>3, <1>4, SerialGlobals

LEMMA SerialGate ==
  ASSUME SerialInv, NEW c \in Clients, GateKmalloc(c)
  PROVE  SerialInv'
<1>0. TypeInv' /\ Untouched(c)
  BY TypeGate DEF SerialInv
<1>1. /\ pc[c] = "gate" /\ pc[c] \in Busy
      /\ UNCHANGED <<module, vmem, vmem_aligned, heap, cmd>>
  BY DEF GateKmalloc, Goto, Busy, globals
<1>2. TypeOK /\ TypeInv /\ cmd[c] \in Gated /\ vmem_aligned = Align(vmem)
  BY <1>1, AloneBusy DEF CommandOK
<1>3. /\ pc'[c] \in {"gate", "access", "open"}
      /\ pc'[c] = "access" => vmem_aligned # 0
  <2>1. CASE vmem_aligned # 0 /\ Goto(c, "gate", "access")
    BY <1>2, <2>1 DEF Goto, TypeOK
  <2>2. CASE Advance(c)
    BY <1>2, <2>2 DEF Advance, TypeOK
  <2> QED
    BY <2>1, <2>2 DEF GateKmalloc
<1>4. Guarded(c)'
  BY <1>1, <1>2, <1>3, AlignFacts DEF Guarded, Gated
<1> QED
  BY <1>0, <1>1, <1>3, <1>4, SerialGlobals

LEMMA SerialTouch ==
  ASSUME SerialInv, NEW c \in Clients, Touch(c)
  PROVE  SerialInv'
<1>0. TypeInv' /\ Untouched(c)
  BY TypeTouch DEF SerialInv
<1>1. /\ pc[c] = "access" /\ pc[c] \in Busy
      /\ UNCHANGED <<module, vmem, vmem_aligned, heap, cmd>>
  BY DEF Touch, Busy
<1>2. /\ TypeOK /\ TypeInv /\ CommandOK(c) /\ vmem_aligned = Align(vmem)
      /\ vmem # 0 /\ (cmd[c] = "MEMORY" => local[c] = vmem_aligned)
  BY <1>1, AloneBusy DEF Guarded
<1>3. vmem \in Bases /\ vmem_aligned # 0
  BY <1>2, BaseFacts DEF TypeOK
<1>4. Advance(c)
  BY <1>2, <1>3 DEF Touch
<1>5. /\ pc'[c] \in {"gate", "access", "open"}
      /\ pc'[c] = "access" => cmd[c] \notin Gated /\ local'[c] = local[c]
  BY <1>2, <1>4 DEF Advance, TypeOK
<1>6. Guarded(c)'
  BY <1>1, <1>2, <1>5 DEF Guarded
<1> QED
  BY <1>0, <1>1, <1>5, <1>6, SerialGlobals

LEMMA SerialStep ==
  ASSUME ~ overlapped', ~ Unload, SerialInv, [Next]_vars
  PROVE  SerialInv'
<1> USE DEF globals, client
<1>0. TypeInv' /\ TypeOK
  BY TypeStep DEF SerialInv, TypeInv
<1>1. CASE timing_init_module
  <2>1. \A c \in Clients : pc[c] \notin InUse
    BY <1>1 DEF SerialInv, Exclusive, timing_init_module
  <2>2. Exclusive'
    BY <1>1, <2>1 DEF timing_init_module, Exclusive, InUse
  <2>3. Owned'
    BY <1>1 DEF SerialInv, timing_init_module, Owned
  <2>4. Pointers' /\ \A c \in Clients : Guarded(c)'
    BY <1>1, <2>1, AlignFacts
    DEF SerialInv, timing_init_module, Pointers, Guarded, InUse, Busy
  <2> QED
    BY <1>0, <2>2, <2>3, <2>4 DEF SerialInv
<1>2. CASE Kfree
  <2>1. \A c \in Clients : pc[c] \notin InUse
    BY <1>2 DEF Kfree, Removable
  <2>2. Exclusive'
    BY <1>2, <2>1 DEF Kfree, Exclusive, InUse
  <2>3. Owned'
    BY <1>2 DEF SerialInv, Kfree, Owned
  <2>4. Pointers' /\ \A c \in Clients : Guarded(c)'
    BY <1>2 DEF SerialInv, Kfree, Pointers, Guarded
  <2> QED
    BY <1>0, <2>2, <2>3, <2>4 DEF SerialInv
<1>3. CASE Deregister
  <2>1. \A c \in Clients : pc[c] \notin InUse
    BY <1>3 DEF SerialInv, Exclusive, Deregister
  <2>2. Exclusive'
    BY <1>3, <2>1 DEF Deregister, Exclusive, InUse
  <2>3. Owned'
    BY <1>3 DEF SerialInv, Deregister, Owned
  <2>4. Pointers' /\ \A c \in Clients : Guarded(c)'
    BY <1>3 DEF SerialInv, Deregister, Pointers, Guarded
  <2> QED
    BY <1>0, <2>2, <2>3, <2>4 DEF SerialInv
<1>4. ASSUME NEW c \in Clients, timing_open(c) \/ timing_release(c)
      PROVE  SerialInv'
  <2>1. /\ pc'[c] \in {"open", "closed"} /\ \A d \in Clients : d # c => pc'[d] = pc[d]
        /\ module = "live"
        /\ UNCHANGED <<module, vmem, vmem_aligned, heap, local>>
    BY <1>0, <1>4 DEF timing_open, timing_release, Openable, TypeOK, SerialInv,
       Exclusive, InUse
  <2>2. pc[c] \in {"open", "closed"}
    BY <1>4 DEF timing_open, timing_release
  <2>3. Exclusive'
    BY <2>1 DEF SerialInv, Exclusive, Busy
  <2>4. Owned'
    BY <2>1 DEF SerialInv, Owned
  <2>5. Pointers'
    BY <2>1, <2>2 DEF SerialInv, Pointers
  <2>6. \A d \in Clients : d # c => cmd'[d] = cmd[d]
    BY <1>0, <1>4 DEF timing_open, timing_release, TypeOK
  <2>7. \A d \in Clients : Guarded(d)'
    BY <2>1, <2>6 DEF SerialInv, Guarded
  <2> QED
    BY <1>0, <2>3, <2>4, <2>5, <2>7 DEF SerialInv
<1>5. ASSUME NEW c \in Clients, ClientStep(c) PROVE SerialInv'
  BY <1>4, <1>5, SerialDispatch, SerialKmalloc, SerialSetAligned, SerialCheck,
     SerialTake, SerialGate, SerialTouch DEF ClientStep
<1>6. CASE UNCHANGED vars
  BY <1>0, <1>6 DEF vars, SerialInv, Exclusive, Owned, Pointers, Guarded
<1> QED
  BY <1>1, <1>2, <1>3, <1>5, <1>6 DEF Next

\* Commands that have overlapped once have for ever.
LEMMA OverlapStays == [Next]_vars /\ ~ overlapped' => ~ overlapped
BY DEF Next, vars, timing_init_module, Kfree, Deregister, ClientStep, timing_open,
       timing_release, Dispatch, Kmalloc, SetAligned, Check, Take, GateKmalloc, Touch

TurnsInv == TypeInv /\ (~ overlapped => SerialInv)

-----------------------------------------------------------------------------
LEMMA TurnsAlways ==
  ASSUME ~ Unload
  PROVE  Spec => []TurnsInv
<1>1. Init => TurnsInv
  BY SerialInit, TypeInit DEF TurnsInv
<1>2. TurnsInv /\ [Next]_vars => TurnsInv'
  BY SerialStep, TypeStep, OverlapStays DEF TurnsInv
<1> QED
  BY <1>1, <1>2, PTL DEF Spec

\* While clients take turns, kfree at cleanup frees all that was ever allocated.
THEOREM BufferOwned ==
  ASSUME ~ Unload
  PROVE  Spec => []NothingLeaks
<1>1. TurnsInv => NothingLeaks
  BY DEF TurnsInv, SerialInv, Owned, NothingLeaks
<1> QED
  BY TurnsAlways, <1>1, PTL

\* ... the tests of vmem and those of vmem_aligned say the same.
THEOREM GuardsConsistent ==
  ASSUME ~ Unload
  PROVE  Spec => []GuardsAgree
<1>1. TurnsInv => GuardsAgree
  BY BaseFacts DEF TurnsInv, SerialInv, TypeInv, TypeOK, Pointers, GuardsAgree, Busy
<1> QED
  BY TurnsAlways, <1>1, PTL

\* ... and no command but KMALLOC can use a NULL pointer.
THEOREM MeasurementsNeverFault ==
  ASSUME ~ Unload
  PROVE  Spec => []OnlyKmallocFaults
<1>1. TurnsInv => OnlyKmallocFaults
  BY DEF TurnsInv, SerialInv, Guarded, OnlyKmallocFaults
<1> QED
  BY TurnsAlways, <1>1, PTL

\* ... and the buffer stays where it is until the module goes.
THEOREM BufferStays ==
  ASSUME ~ Unload
  PROVE  Spec => BufferStable
<1> DEFINE Stable == ~ overlapped' /\ module = "live" /\ vmem # 0 /\ module' = "live" =>
                       /\ vmem' = vmem /\ vmem \in heap'
                       /\ vmem_aligned # 0 => vmem_aligned' = vmem_aligned
<1>1. ASSUME TurnsInv, [Next]_vars PROVE Stable
  <2> SUFFICES ASSUME ~ overlapped', module = "live", vmem # 0, module' = "live"
               PROVE  /\ vmem' = vmem /\ vmem \in heap'
                      /\ vmem_aligned # 0 => vmem_aligned' = vmem_aligned
    OBVIOUS
  <2>0. SerialInv
    BY <1>1, OverlapStays DEF TurnsInv
  <2>1. vmem \in heap /\ vmem \in Bases /\ Align(vmem) # 0
    BY <2>0, BaseFacts DEF SerialInv, Owned, TypeInv, TypeOK
  <2>2. CASE UNCHANGED <<vmem, vmem_aligned, heap>>
    BY <2>1, <2>2
  <2>3. ASSUME NEW c \in Clients, SetAligned(c)
        PROVE  vmem' = vmem /\ heap' = heap /\ vmem_aligned = 0
    BY <2>0, <2>3 DEF SerialInv, Pointers, SetAligned, Goto
  <2>4. ASSUME NEW c \in Clients, Kmalloc(c)
        PROVE  FALSE
    BY <2>0, <2>4 DEF SerialInv, Pointers, Kmalloc, Goto
  <2>5. ~ timing_init_module /\ ~ Kfree
    BY DEF timing_init_module, Kfree
  <2>6. ASSUME NEW c \in Clients, ClientStep(c), ~ SetAligned(c), ~ Kmalloc(c)
        PROVE  UNCHANGED <<vmem, vmem_aligned, heap>>
    BY <2>6 DEF ClientStep, timing_open, timing_release, Dispatch, Check, Take,
       GateKmalloc, Touch, globals
  <2>7. CASE Deregister \/ UNCHANGED vars
    BY <2>2, <2>7 DEF Deregister, vars, globals
  <2> QED
    BY <1>1, <2>1, <2>2, <2>3, <2>4, <2>5, <2>6, <2>7 DEF Next
<1>2. TurnsInv /\ [Next]_vars => [Stable]_vars
  BY <1>1
<1> QED
  BY TurnsAlways, <1>2, PTL DEF Spec, BufferStable

-----------------------------------------------------------------------------
(* The moves, whatever overlaps                                             *)

\* The address is that of a buffer, or NULL.
Allocated(a) == a = 0 \/ \E b \in heap : a = Align(b)

MoveInBuffer(c) ==
  cmd[c] \in Gated /\ probed[c] # <<>> /\ pc[c] \in InUse =>
    InBuffer(probed[c]) /\ probed[c][1] % 16 = 0

\* What makes the moves safe even while others allocate: a pointer names NULL or a
\* buffer that stays until the device is closed.
MovesInv ==
  /\ TypeInv
  /\ module # "live" => \A c \in Clients : pc[c] \notin InUse
  /\ module = "live" => vmem \in heap \cup {0} /\ Allocated(vmem_aligned)
  /\ \A c \in Clients : pc[c] = "align" => local[c] \in heap \cup {0}
  /\ \A c \in Clients : MoveInBuffer(c) /\ (pc[c] = "closed" => probed[c] = <<>>)

\* Wherever the buffer begins, 16 bytes from the boundary still lie in it.
LEMMA MoveFits ==
  ASSUME NEW v \in heap, v \in Bases, NEW n \in 1 .. 16
  PROVE  InBuffer(<<Align(v), n>>) /\ Align(v) % 16 = 0
<1>1. v \in Nat
  BY BaseFacts
<1>2. Align(v) \in Nat /\ Align(v) % 16 = 0 /\ v <= Align(v) /\ Align(v) <= v + 15
  BY <1>1, AlignFacts
<1> DEFINE p == <<Align(v), n>>
<1>3. p[1] = Align(v) /\ p[2] = n
  OBVIOUS
<1>4. v <= Align(v) /\ Align(v) + n <= v + KMALLOC_SIZE
  BY <1>1, <1>2 DEF KMALLOC_SIZE
<1> HIDE DEF p
<1>5. InBuffer(p)
  BY <1>3, <1>4 DEF InBuffer
<1> QED
  BY <1>2, <1>5 DEF p

\* Buffers that are there stay good when more are allocated.
LEMMA MovesLocally ==
  ASSUME MovesInv, TypeInv', NEW c \in Clients, Untouched(c), UNCHANGED module,
         pc[c] \in InUse, heap \subseteq heap',
         vmem' \in heap' \cup {0}, Allocated(vmem_aligned)',
         pc'[c] = "align" => local'[c] \in heap' \cup {0}, MoveInBuffer(c)',
         pc'[c] # "closed"
  PROVE  MovesInv'
<1>1. module = "live" /\ module' = "live"
  BY DEF MovesInv
<1>2. ASSUME NEW d \in Clients, d # c
      PROVE  /\ pc'[d] = "align" => local'[d] \in heap' \cup {0}
             /\ MoveInBuffer(d)' /\ (pc'[d] = "closed" => probed'[d] = <<>>)
  <2>1. /\ pc'[d] = pc[d] /\ cmd'[d] = cmd[d] /\ local'[d] = local[d]
        /\ probed'[d] = probed[d]
    BY <1>2 DEF Untouched
  <2>2. /\ MoveInBuffer(d) /\ (pc[d] = "closed" => probed[d] = <<>>)
        /\ pc[d] = "align" => local[d] \in heap \cup {0}
    BY DEF MovesInv
  <2>3. InBuffer(probed[d]) => InBuffer(probed[d])'
    BY <2>1 DEF InBuffer
  <2>4. MoveInBuffer(d)'
    BY <2>1, <2>2, <2>3 DEF MoveInBuffer
  <2> QED
    BY <2>1, <2>2, <2>4
<1>3. \A d \in Clients : /\ pc'[d] = "align" => local'[d] \in heap' \cup {0}
                        /\ MoveInBuffer(d)' /\ (pc'[d] = "closed" => probed'[d] = <<>>)
  BY <1>2
<1> QED
  BY <1>1, <1>3 DEF MovesInv

\* A step of c that leaves the pointers alone.
LEMMA MovesGlobals ==
  ASSUME MovesInv, TypeInv', NEW c \in Clients, Untouched(c), pc[c] \in InUse,
         UNCHANGED <<module, vmem, vmem_aligned, heap>>, pc'[c] \notin {"align", "closed"},
         MoveInBuffer(c)'
  PROVE  MovesInv'
<1>1. vmem \in heap \cup {0} /\ Allocated(vmem_aligned)
  BY DEF MovesInv
<1>2. Allocated(vmem_aligned)'
  BY <1>1 DEF Allocated
<1> QED
  BY <1>1, <1>2, MovesLocally

LEMMA MovesTouch ==
  ASSUME MovesInv, NEW c \in Clients, Touch(c)
  PROVE  MovesInv'
<1> DEFINE a    == Accesses[cmd[c]][step[c]]
           base == IF cmd[c] = "MEMORY" THEN local[c] ELSE vmem_aligned
<1>0. TypeInv' /\ Untouched(c) /\ TypeInv /\ TypeOK
  BY TypeTouch DEF MovesInv, TypeInv
<1>1. /\ pc[c] = "access" /\ pc[c] \in InUse /\ module = "live"
      /\ UNCHANGED <<module, vmem, vmem_aligned, heap, cmd>>
      /\ pc'[c] \notin {"align", "closed"}
  BY <1>0 DEF Touch, InUse, Busy, MovesInv, TypeOK, Goto, Advance
<1>2. CASE base = 0
  <2>1. pc'[c] = "oops"
    BY <1>0, <1>2 DEF Touch, Goto, TypeOK
  <2>2. MoveInBuffer(c)'
    BY <2>1 DEF MoveInBuffer, InUse, Busy
  <2> QED
    BY <1>0, <1>1, <2>2, MovesGlobals
<1>3. CASE base # 0 /\ cmd[c] \in Gated
  <2>1. PICK b \in heap : vmem_aligned = Align(b)
    BY <1>1, <1>3 DEF MovesInv, Allocated, Gated
  <2>2. step[c] \in 1 .. Len(Accesses[cmd[c]])
    <3>1. step[c] \in 1 .. 10 /\ step[c] <= Len(Accesses[cmd[c]])
      BY <1>0, <1>1 DEF TypeInv, CommandOK, TypeOK
    <3>2. Len(Accesses[cmd[c]]) \in Nat
      BY <1>3, MoveFacts DEF AccessesIn
    <3> QED
      BY <3>1, <3>2
  <2>3. a.offset = 0 /\ a.size \in 1 .. 16
    BY <1>3, <2>2, MoveFacts DEF AccessesAtStart
  <2>4. b \in Bases /\ Align(b) \in Nat
    BY <1>0, BaseFacts DEF TypeOK
  <2>5. probed'[c] = <<Align(b), a.size>>
    <3>1. probed' = [probed EXCEPT ![c] = <<base + a.offset, a.size>>]
      BY <1>3 DEF Touch
    <3>2. base = Align(b)
      BY <1>3, <2>1 DEF Gated
    <3> HIDE DEF a, base
    <3> QED
      BY <1>0, <2>3, <2>4, <3>1, <3>2 DEF TypeOK
  <2> HIDE DEF a
  <2>6. InBuffer(<<Align(b), a.size>>) /\ Align(b) % 16 = 0
    BY <2>3, <2>4, MoveFits
  <2>7. MoveInBuffer(c)'
    BY <1>1, <2>5, <2>6 DEF MoveInBuffer, InBuffer
  <2> QED
    BY <1>0, <1>1, <2>7, MovesGlobals
<1>4. CASE cmd[c] \notin Gated
  <2>1. MoveInBuffer(c)'
    BY <1>1, <1>4 DEF MoveInBuffer
  <2> QED
    BY <1>0, <1>1, <2>1, MovesGlobals
<1> QED
  BY <1>2, <1>3, <1>4

LEMMA MovesClient ==
  ASSUME MovesInv, NEW c \in Clients, ClientStep(c),
         ~ timing_open(c), ~ timing_release(c)
  PROVE  MovesInv'
<1> USE DEF globals, client
<1>0. TypeInv /\ TypeOK
  BY DEF MovesInv, TypeInv
<1>1. ASSUME NEW k \in Cmd, Dispatch(c, k) PROVE MovesInv'
  <2>1. TypeInv' /\ Untouched(c)
    BY <1>0, <1>1, TypeDispatch
  <2>2. pc[c] = "open" /\ probed'[c] = <<>> /\ UNCHANGED <<module, vmem, vmem_aligned, heap>>
    BY <1>0, <1>1 DEF Dispatch, Return, Goto, TypeOK
  <2>3. pc'[c] = "open" \/ pc'[c] = Target(k)
    BY <1>0, <1>1 DEF Dispatch, Return, Goto, TypeOK
  <2>4. pc'[c] \notin {"align", "closed"} /\ MoveInBuffer(c)'
    BY <2>2, <2>3 DEF Target, MoveInBuffer
  <2> QED
    BY <2>1, <2>2, <2>4, MovesGlobals DEF InUse
<1>2. CASE Kmalloc(c)
  <2>1. TypeInv' /\ Untouched(c)
    BY <1>0, <1>2, TypeKmalloc
  <2>2. /\ pc[c] = "kmalloc" /\ pc'[c] = "align" /\ local'[c] = vmem'
        /\ cmd'[c] = "KMALLOC" /\ UNCHANGED <<module, vmem_aligned>>
    BY <1>0, <1>2 DEF Kmalloc, Goto, TypeOK, TypeInv, CommandOK
  <2>3. heap \subseteq heap' /\ vmem' \in heap' \cup {0}
    BY <1>2 DEF Kmalloc
  <2>4. pc[c] \in InUse /\ Allocated(vmem_aligned)'
    BY <2>2, <2>3 DEF MovesInv, InUse, Busy, Allocated
  <2>5. MoveInBuffer(c)'
    BY <2>2 DEF MoveInBuffer, Gated
  <2> QED
    BY <2>1, <2>2, <2>3, <2>4, <2>5, MovesLocally
<1>3. CASE SetAligned(c)
  <2>1. TypeInv' /\ Untouched(c)
    BY <1>0, <1>3, TypeSetAligned
  <2>2. /\ pc[c] = "align" /\ pc'[c] = "check" /\ cmd'[c] = "KMALLOC"
        /\ UNCHANGED <<module, vmem, heap>>
    BY <1>0, <1>3 DEF SetAligned, Goto, TypeOK, TypeInv, CommandOK
  <2>3. pc[c] \in InUse /\ vmem \in heap \cup {0} /\ local[c] \in heap \cup {0}
    BY <2>2 DEF MovesInv, InUse, Busy
  <2>4. \E v \in heap \cup {0} : vmem_aligned' = Align(v)
    BY <1>3, <2>3 DEF SetAligned
  <2>5. Allocated(vmem_aligned)'
    BY <2>2, <2>4, AlignFacts DEF Allocated
  <2>6. MoveInBuffer(c)'
    BY <2>2 DEF MoveInBuffer, Gated
  <2> QED
    BY <2>1, <2>2, <2>3, <2>5, <2>6, MovesLocally
<1>4. CASE Check(c)
  <2>1. TypeInv' /\ Untouched(c)
    BY <1>0, <1>4, TypeCheck
  <2>2. /\ pc[c] = "check" /\ pc'[c] \in {"oops", "open"} /\ cmd'[c] = "KMALLOC"
        /\ UNCHANGED <<module, vmem, vmem_aligned, heap>>
    BY <1>0, <1>4 DEF Check, Return, Goto, TypeOK, TypeInv, CommandOK
  <2>3. MoveInBuffer(c)'
    BY <2>2 DEF MoveInBuffer, Gated
  <2> QED
    BY <2>1, <2>2, <2>3, MovesGlobals DEF InUse, Busy
<1>5. CASE Take(c)
  <2>1. TypeInv' /\ Untouched(c)
    BY <1>0, <1>5, TypeTake
  <2>2. /\ pc[c] = "take" /\ pc'[c] = "access" /\ cmd'[c] = "MEMORY"
        /\ UNCHANGED <<module, vmem, vmem_aligned, heap>>
    BY <1>0, <1>5 DEF Take, Goto, TypeOK, TypeInv, CommandOK
  <2>3. MoveInBuffer(c)'
    BY <2>2 DEF MoveInBuffer, Gated
  <2> QED
    BY <2>1, <2>2, <2>3, MovesGlobals DEF InUse, Busy
<1>6. CASE GateKmalloc(c)
  <2>1. TypeInv' /\ Untouched(c)
    BY <1>0, <1>6, TypeGate
  <2>2. /\ pc[c] = "gate" /\ pc'[c] \notin {"align", "closed"}
        /\ UNCHANGED <<module, vmem, vmem_aligned, heap, cmd, probed>>
    BY <1>0, <1>6 DEF GateKmalloc, Goto, Advance, TypeOK
  <2>3. pc[c] \in InUse /\ MoveInBuffer(c)
    BY <2>2 DEF MovesInv, InUse, Busy
  <2>4. MoveInBuffer(c)'
    BY <2>2, <2>3 DEF MoveInBuffer, InBuffer
  <2> QED
    BY <2>1, <2>2, <2>3, <2>4, MovesGlobals
<1> QED
  BY <1>1, <1>2, <1>3, <1>4, <1>5, <1>6, MovesTouch DEF ClientStep

LEMMA MovesStep ==
  ASSUME ~ Unload, MovesInv, [Next]_vars
  PROVE  MovesInv'
<1> USE DEF globals, client
<1>0. TypeInv' /\ TypeInv /\ TypeOK
  BY TypeStep DEF MovesInv, TypeInv
<1>1. CASE timing_init_module \/ Kfree \/ Deregister
  <2>1. \A c \in Clients : pc[c] \notin InUse
    BY <1>1 DEF MovesInv, timing_init_module, Kfree, Deregister, Removable
  <2>2. pc' = pc
    BY <1>1 DEF timing_init_module, Kfree, Deregister
  <2>3. module' = "live" => vmem' = 0 /\ vmem_aligned' = 0
    BY <1>1 DEF timing_init_module, Kfree, Deregister
  <2>4. probed' = probed
    BY <1>1 DEF timing_init_module, Kfree, Deregister
  <2>5. \A c \in Clients : MoveInBuffer(c)' /\ (pc'[c] = "closed" => probed'[c] = <<>>)
    BY <2>1, <2>2, <2>4 DEF MovesInv, MoveInBuffer
  <2>6. \A c \in Clients : pc'[c] # "align" /\ pc'[c] \notin InUse
    BY <2>1, <2>2 DEF InUse, Busy
  <2> QED
    BY <1>0, <2>3, <2>5, <2>6 DEF MovesInv, Allocated
<1>2. ASSUME NEW c \in Clients, timing_open(c) PROVE MovesInv'
  <2>1. /\ module = "live" /\ pc' = [pc EXCEPT ![c] = "open"] /\ pc[c] = "closed"
        /\ UNCHANGED <<module, vmem, vmem_aligned, heap, cmd, local, probed>>
    BY <1>2 DEF timing_open, Openable
  <2>2. probed[c] = <<>>
    BY <2>1 DEF MovesInv
  <2> QED
    BY <1>0, <2>1, <2>2 DEF MovesInv, MoveInBuffer, InBuffer, Allocated, TypeOK
<1>3. ASSUME NEW c \in Clients, timing_release(c) PROVE MovesInv'
  <2>1. /\ module = "live" /\ pc' = [pc EXCEPT ![c] = "closed"] /\ pc[c] = "open"
        /\ UNCHANGED <<module, vmem, vmem_aligned, heap, local>>
        /\ \A d \in Clients : d # c => cmd'[d] = cmd[d] /\ probed'[d] = probed[d]
    BY <1>0, <1>3 DEF timing_release, MovesInv, InUse, TypeOK
  <2>2. \A d \in Clients : MoveInBuffer(d)'
    BY <1>0, <2>1 DEF MovesInv, MoveInBuffer, InBuffer, TypeOK, InUse, Busy
  <2>3. probed'[c] = <<>>
    BY <1>0, <1>3 DEF timing_release, TypeOK
  <2> QED
    BY <1>0, <2>1, <2>2, <2>3 DEF MovesInv, Allocated, TypeOK
<1>4. CASE UNCHANGED vars
  BY <1>0, <1>4 DEF vars, MovesInv, MoveInBuffer, InBuffer, Allocated
<1> QED
  BY <1>1, <1>2, <1>3, <1>4, MovesClient DEF Next

\* Until a kmalloc fails, no pointer that a measurement is about to use is NULL ...
Supplied(c) ==
  ~ denied => /\ pc[c] = "align" => local[c] # 0 /\ vmem # 0
              /\ pc[c] = "access" /\ cmd[c] \in Gated => vmem_aligned # 0

\* ... so that a move or a flush that faulted went through NULL after a failure.
Sunk(c) == cmd[c] \in Gated /\ pc[c] = "oops" => probed[c][1] = 0 /\ denied

SuppliedInv == MovesInv /\ \A c \in Clients : Supplied(c) /\ Sunk(c)

LEMMA SuppliedTouch ==
  ASSUME SuppliedInv, NEW c \in Clients, Touch(c)
  PROVE  /\ denied' = denied /\ vmem' = vmem /\ vmem_aligned' = vmem_aligned
         /\ Supplied(c)' /\ Sunk(c)'
<1> DEFINE a    == Accesses[cmd[c]][step[c]]
           base == IF cmd[c] = "MEMORY" THEN local[c] ELSE vmem_aligned
<1>0. TypeInv /\ TypeOK /\ Supplied(c)
  BY DEF SuppliedInv, MovesInv, TypeInv
<1>1. /\ pc[c] = "access"
      /\ UNCHANGED <<vmem, vmem_aligned, cmd, denied>>
      /\ probed' = [probed EXCEPT ![c] = <<base + a.offset, a.size>>]
  BY DEF Touch
<1>2. Supplied(c)'
  <2>1. pc'[c] = "access" => pc[c] = "access"
    BY <1>1
  <2>2. pc'[c] # "align"
    BY <1>0, <1>1 DEF Touch, Goto, Advance, TypeOK
  <2> QED
    BY <1>0, <1>1, <2>1, <2>2 DEF Supplied
<1>3. Sunk(c)'
  <2> SUFFICES ASSUME cmd[c] \in Gated, pc'[c] = "oops"
               PROVE  probed'[c][1] = 0 /\ denied
    BY <1>1 DEF Sunk
  <2>1. base = 0
    BY <1>0, <1>1 DEF Touch, Advance, TypeOK
  <2>2. vmem_aligned = 0
    BY <2>1 DEF Gated
  <2>3. denied
    BY <1>0, <1>1, <2>2 DEF Supplied
  <2>4. step[c] \in 1 .. Len(Accesses[cmd[c]])
    <3>1. step[c] \in 1 .. 10 /\ step[c] <= Len(Accesses[cmd[c]])
      BY <1>0, <1>1 DEF TypeInv, CommandOK, TypeOK
    <3>2. Len(Accesses[cmd[c]]) \in Nat
      BY MoveFacts DEF AccessesIn
    <3> QED
      BY <3>1, <3>2
  <2>5. a.offset = 0
    BY <2>4, MoveFacts DEF AccessesAtStart
  <2> HIDE DEF a, base
  <2>6. probed'[c] = <<0, a.size>>
    BY <1>0, <1>1, <2>1, <2>5 DEF TypeOK
  <2> QED
    BY <2>3, <2>6
<1> QED
  BY <1>1, <1>2, <1>3

\* The steps that leave the pointers alone and do not touch memory.
LEMMA SuppliedElsewhere ==
  ASSUME SuppliedInv, NEW c \in Clients, ClientStep(c), ~ Kmalloc(c), ~ SetAligned(c),
         ~ Touch(c)
  PROVE  /\ denied' = denied /\ vmem' = vmem /\ vmem_aligned' = vmem_aligned
         /\ Supplied(c)' /\ Sunk(c)'
<1> USE DEF globals, client
<1>0. TypeInv /\ TypeOK /\ CommandOK(c) /\ Supplied(c)
  BY DEF SuppliedInv, MovesInv, TypeInv
<1>1. CASE timing_open(c) \/ timing_release(c)
  <2>1. pc'[c] \in {"open", "closed"} /\ UNCHANGED <<denied, vmem, vmem_aligned>>
    BY <1>0, <1>1 DEF timing_open, timing_release, TypeOK
  <2> QED
    BY <2>1 DEF Supplied, Sunk
<1>2. ASSUME NEW k \in Cmd, Dispatch(c, k)
      PROVE  /\ UNCHANGED <<denied, vmem, vmem_aligned>>
             /\ Supplied(c)' /\ Sunk(c)'
  <2>1. cmd'[c] = k /\ UNCHANGED <<denied, vmem, vmem_aligned>>
    BY <1>0, <1>2 DEF Dispatch, TypeOK
  <2>2. pc'[c] = "open" \/ pc'[c] = Target(k)
    BY <1>0, <1>2 DEF Dispatch, Return, Goto, TypeOK
  <2>3. pc'[c] \notin {"align", "oops"} /\ (pc'[c] = "access" => k \notin Gated)
    BY <2>2 DEF Target
  <2> QED
    BY <2>1, <2>3 DEF Supplied, Sunk
<1>3. CASE Check(c) \/ Take(c)
  <2>1. /\ cmd[c] \in {"KMALLOC", "MEMORY"} /\ pc'[c] \in {"oops", "open", "access"}
        /\ UNCHANGED <<denied, vmem, vmem_aligned, cmd>>
    BY <1>0, <1>3 DEF Check, Take, Goto, Return, TypeOK, CommandOK
  <2> QED
    BY <2>1 DEF Supplied, Sunk, Gated
<1>4. CASE GateKmalloc(c)
  <2>1. UNCHANGED <<denied, vmem, vmem_aligned, cmd>>
    BY <1>4 DEF GateKmalloc, Goto
  <2>2. /\ pc'[c] \in {"gate", "access", "open"}
        /\ pc'[c] = "access" /\ cmd[c] \in Gated => vmem_aligned # 0
    <3>1. CASE vmem_aligned # 0 /\ Goto(c, "gate", "access")
      BY <1>0, <3>1 DEF Goto, TypeOK
    <3>2. CASE Advance(c)
      BY <1>0, <3>2 DEF Advance, TypeOK
    <3> QED
      BY <1>4, <3>1, <3>2 DEF GateKmalloc
  <2> QED
    BY <2>1, <2>2 DEF Supplied, Sunk
<1> QED
  BY <1>1, <1>2, <1>3, <1>4 DEF ClientStep

LEMMA SuppliedStep ==
  ASSUME ~ Unload, SuppliedInv, [Next]_vars
  PROVE  SuppliedInv'
<1> USE DEF globals, client
<1>0. MovesInv' /\ MovesInv /\ TypeInv /\ TypeOK
  BY MovesStep DEF SuppliedInv, MovesInv, TypeInv
<1>1. CASE timing_init_module \/ Kfree \/ Deregister
  <2>1. \A c \in Clients : pc[c] \notin InUse
    BY <1>0, <1>1 DEF MovesInv, timing_init_module, Kfree, Deregister, Removable
  <2>2. UNCHANGED <<pc, cmd, probed, denied>>
    BY <1>1 DEF timing_init_module, Kfree, Deregister
  <2>3. \A c \in Clients : Supplied(c)' /\ Sunk(c)'
    BY <2>1, <2>2 DEF SuppliedInv, Supplied, Sunk, InUse, Busy
  <2> QED
    BY <1>0, <2>3 DEF SuppliedInv
<1>2. ASSUME NEW c \in Clients, ClientStep(c) PROVE SuppliedInv'
  <2>0. Untouched(c)
    <3>1. CASE timing_open(c) \/ timing_release(c)
      BY <1>0, <3>1 DEF timing_open, timing_release, TypeOK, Untouched
    <3> QED
      BY <1>0, <1>2, <3>1, TypeDispatch, TypeKmalloc, TypeSetAligned, TypeCheck,
         TypeTake, TypeGate, TypeTouch DEF ClientStep
  <2>1. ASSUME NEW d \in Clients, d # c
        PROVE  Supplied(d) /\ Sunk(d) /\ pc'[d] = pc[d] /\ cmd'[d] = cmd[d]
               /\ local'[d] = local[d] /\ probed'[d] = probed[d]
    BY <2>0, <2>1 DEF SuppliedInv, Untouched
  <2>2. CASE Kmalloc(c)
    <3>1. /\ denied' = (denied \/ vmem' = 0) /\ vmem_aligned' = vmem_aligned
          /\ pc'[c] = "align" /\ local'[c] = vmem'
      BY <1>0, <2>2 DEF Kmalloc, Goto, TypeOK
    <3>2. \A d \in Clients : Supplied(d)' /\ Sunk(d)'
      BY <2>1, <3>1 DEF Supplied, Sunk
    <3> QED
      BY <1>0, <3>2 DEF SuppliedInv
  <2>3. CASE SetAligned(c)
    <3>1. /\ pc[c] = "align" /\ pc'[c] = "check" /\ UNCHANGED <<vmem, denied>>
          /\ vmem_aligned' = Align(vmem) \/ vmem_aligned' = Align(local[c])
      BY <1>0, <2>3 DEF SetAligned, Goto, TypeOK
    <3>2. vmem \in Bases \cup {0} /\ local[c] \in Bases \cup {0}
      BY <1>0, <3>1 DEF TypeInv, TypeOK, CommandOK
    <3>3. ~ denied => vmem_aligned' # 0
      BY <3>1, <3>2, BaseFacts DEF SuppliedInv, Supplied
    <3>4. \A d \in Clients : Supplied(d)' /\ Sunk(d)'
      BY <2>1, <3>1, <3>3 DEF Supplied, Sunk
    <3> QED
      BY <1>0, <3>4 DEF SuppliedInv
  <2>4. CASE ~ Kmalloc(c) /\ ~ SetAligned(c)
    <3>1. /\ denied' = denied /\ vmem' = vmem /\ vmem_aligned' = vmem_aligned
          /\ Supplied(c)' /\ Sunk(c)'
      BY <1>2, <2>4, SuppliedTouch, SuppliedElsewhere
    <3>2. \A d \in Clients : Supplied(d)' /\ Sunk(d)'
      BY <2>1, <3>1 DEF Supplied, Sunk
    <3> QED
      BY <1>0, <3>2 DEF SuppliedInv
  <2> QED
    BY <2>2, <2>3, <2>4
<1>3. CASE UNCHANGED vars
  BY <1>0, <1>3 DEF vars, SuppliedInv, Supplied, Sunk
<1> QED
  BY <1>1, <1>2, <1>3 DEF Next

\* The moves and the flush reach an allocated buffer at a 16-byte boundary, or they
\* go through NULL, and that only where a kmalloc has failed and commands have
\* overlapped: for every address kmalloc may return.
THEOREM MovesSafe ==
  ASSUME ~ Unload
  PROVE  Spec => []MovesInBuffer
<1>1. Init => SuppliedInv
  <2> SUFFICES ASSUME Init PROVE SuppliedInv
    OBVIOUS
  <2>1. /\ module = "absent"
        /\ \A c \in Clients : pc[c] = "closed" /\ probed[c] = <<>>
    BY DEF Init
  <2>2. \A c \in Clients : MoveInBuffer(c)
    BY <2>1 DEF MoveInBuffer
  <2>3. MovesInv
    BY TypeInit, <2>1, <2>2 DEF MovesInv, InUse, Busy
  <2> QED
    BY <2>1, <2>3 DEF SuppliedInv, Supplied, Sunk
<1>2. SuppliedInv /\ [Next]_vars => SuppliedInv'
  BY SuppliedStep
<1>3. SuppliedInv /\ TurnsInv => MovesInBuffer
  <2> SUFFICES ASSUME SuppliedInv, TurnsInv, NEW c \in Clients, cmd[c] \in Gated
               PROVE  /\ probed[c] # <<>> /\ pc[c] \in InUse =>
                           InBuffer(probed[c]) /\ probed[c][1] % 16 = 0
                      /\ pc[c] = "oops" => probed[c][1] = 0 /\ denied /\ overlapped
    BY DEF MovesInBuffer
  <2>1. MoveInBuffer(c) /\ Sunk(c)
    BY DEF SuppliedInv, MovesInv
  <2>2. pc[c] = "oops" => overlapped
    BY DEF TurnsInv, SerialInv, Guarded, Gated
  <2> QED
    BY <2>1, <2>2 DEF MoveInBuffer, Sunk
<1> QED
  BY <1>1, <1>2, <1>3, TurnsAlways, PTL DEF Spec

=============================================================================
