--------------------------- MODULE NopTimerProofs ---------------------------
(* Theorems about NopTimer, for every set of calls and every program.       *)
EXTENDS NopTimer, TLAPS

-----------------------------------------------------------------------------
(* Type correctness                                                         *)

LEMMA LineType ==
  ASSUME NEW w \in Window \cup {Started}, NEW k \in {"zero", "label", "count"}
  PROVE  Line(k, w) \in Lines
BY DEF Line, Lines

LEMMA TypeInit == Init => TypeOK
<1> SUFFICES ASSUME Init PROVE TypeOK
  OBVIOUS
<1>1. /\ joined \in [Calls -> (Kind \X Calls) \cup {NULL}]
      /\ action \in [Calls -> BOOLEAN]
      /\ sig \in [Calls -> BOOLEAN]
  BY DEF Init
<1>2. pc \in [Kind -> [Calls -> ThreadPC]]
  BY DEF Init, ThreadPC
<1>3. call \in [Calls -> CallPC]
  BY DEF Init, CallPC
<1>4. th \in [Kind -> Calls \cup {NULL, ERR}] /\ masked \in SUBSET Calls
  BY DEF Init
<1>5. stop \in [Kind -> [Calls -> BOOLEAN]]
  BY DEF Init
<1>6. dmesg \in Seq(Lines) /\ entry \in [Calls -> Nat \ {0}]
  BY DEF Init
<1>7. acc \in [Calls -> Window \cup {Started}]
  BY DEF Init
<1>8. /\ count \in Window \cup {Started} /\ request \in Window \cup {Started}
      /\ reset_count \in BOOLEAN /\ print_count \in BOOLEAN /\ finish \in BOOLEAN
  BY DEF Init
<1> QED
  BY <1>1, <1>2, <1>3, <1>4, <1>5, <1>6, <1>7, <1>8 DEF TypeOK

\* One lemma per operation of the ioctl that both kinds of thread share.
LEMMA TypeCreate ==
  ASSUME TypeOK, NEW c \in Calls, NEW k \in Kind, NEW from, NEW to \in CallPC,
         Create(c, k, from, to)
  PROVE  TypeOK'
<1> USE DEF Create, Goto, TypeOK, flags, own, logs
<1>1. CASE /\ th' = [th EXCEPT ![k] = c]
           /\ pc' = [pc EXCEPT ![k][c] = "created"]
  BY <1>1 DEF ThreadPC
<1>2. CASE th' = [th EXCEPT ![k] = ERR] /\ UNCHANGED pc
  BY <1>2
<1> QED
  BY <1>1, <1>2

LEMMA TypeWake ==
  ASSUME TypeOK, NEW c \in Calls, NEW k \in Kind, NEW first \in ThreadPC,
         NEW from, NEW to \in CallPC, Wake(c, k, first, from, to)
  PROVE  TypeOK'
<1> USE DEF Wake, Goto, TypeOK, flags, own, logs
<1>1. CASE ~ Valid(k) /\ Goto(c, from, "oops") /\ UNCHANGED pc
  BY <1>1 DEF CallPC
<1>2. CASE /\ MayPass(k) /\ Goto(c, from, to)
           /\ pc' = [pc EXCEPT ![k][th[k]] = IF @ = "created" THEN first ELSE @]
  BY <1>2 DEF MayPass
<1> QED
  BY <1>1, <1>2

LEMMA TypeStop ==
  ASSUME TypeOK, NEW c \in Calls, NEW k \in Kind, NEW from, NEW join \in CallPC,
         NEW next \in CallPC, Stop(c, k, from, join, next)
  PROVE  TypeOK'
<1>1. CASE ~ Valid(k)
  <2>1. call' \in [Calls -> CallPC]
    BY <1>1 DEF Stop, Goto, CallPC, TypeOK
  <2>2. UNCHANGED <<stop, pc, joined, th, count, flags, action, sig, own, logs>>
    BY <1>1 DEF Stop
  <2> QED
    BY <2>1, <2>2 DEF TypeOK, flags, own, logs
<1>2. CASE Valid(k)
  <2>1. th[k] \in Calls
    BY <1>2 DEF Valid, TypeOK
  <2>2. joined' \in [Calls -> (Kind \X Calls) \cup {NULL}]
    <3>1. joined' = [joined EXCEPT ![c] = <<k, th[k]>>]
      BY <1>2 DEF Stop
    <3> QED
      BY <2>1, <3>1 DEF TypeOK
  <2>3. /\ stop' = [stop EXCEPT ![k][th[k]] = TRUE]
        /\ pc' = [pc EXCEPT ![k][th[k]] = IF @ = "created" THEN "exited" ELSE @]
    BY <1>2 DEF Stop
  <2>4. stop' \in [Kind -> [Calls -> BOOLEAN]]
    BY <2>1, <2>3 DEF TypeOK
  <2>5. pc' \in [Kind -> [Calls -> ThreadPC]]
    <3>1. "exited" \in ThreadPC
      BY DEF ThreadPC, Ended
    <3>2. pc \in [Kind -> [Calls -> ThreadPC]]
      BY DEF TypeOK
    <3> QED
      BY <2>1, <2>3, <3>1, <3>2
  <2>6. call' \in [Calls -> CallPC]
    BY <1>2 DEF Stop, Goto, TypeOK
  <2> QED
    BY <1>2, <2>2, <2>4, <2>5, <2>6 DEF Stop, TypeOK, flags, own, logs
<1> QED
  BY <1>1, <1>2

LEMMA TypeCall ==
  ASSUME TypeOK, NEW c \in Calls, CallStep(c)
  PROVE  TypeOK'
<1>1. CASE \/ Create(c, "nop", "create_nop", "create_instr")
           \/ Create(c, "instr", "create_instr", "bind")
  BY <1>1, TypeCreate DEF Kind, CallPC
<1>2. CASE BindThreads(c)
  BY <1>2 DEF BindThreads, Goto, CallPC, TypeOK, flags, own, logs
<1>3. CASE \/ Wake(c, "nop", "head", "wake_nop", "wake_instr")
           \/ Wake(c, "instr", "entry", "wake_instr", "wait")
  BY <1>3, TypeWake DEF Kind, CallPC, ThreadPC, NopPC, InstrPC
<1>4. CASE WaitFinish(c)
  BY <1>4 DEF WaitFinish, Goto, CallPC, TypeOK, flags, own, logs
<1>5. CASE \/ Stop(c, "nop", "stop_nop", "join_nop", "stop_instr")
           \/ Stop(c, "instr", "stop_instr", "join_instr", "done")
  BY <1>5, TypeStop DEF Kind, CallPC
<1>6. CASE Join(c, "join_nop", "stop_instr") \/ Join(c, "join_instr", "done")
  BY <1>6 DEF Join, Goto, CallPC, TypeOK, flags, own, logs
<1> QED
  BY <1>1, <1>2, <1>3, <1>4, <1>5, <1>6 DEF CallStep

LEMMA TypeNop ==
  ASSUME TypeOK, NEW c \in Calls, NopStep(c)
  PROVE  TypeOK'
<1> USE DEF TypeOK, At, nopRest, ioctl, Kind, ThreadPC, NopPC
<1>1. CASE NopHead(c)
  <2>1. CASE At("nop", c, "head", "exited")
    BY <1>1, <2>1 DEF NopHead, Ended
  <2>2. CASE At("nop", c, "head", "check_reset")
    BY <1>1, <2>2 DEF NopHead
  <2>3. CASE At("nop", c, "head", "oops")
    BY <1>1, <2>3 DEF NopHead, Ended
  <2> QED
    BY <1>1, <2>1, <2>2, <2>3 DEF NopHead
<1>2. CASE NopCheckReset(c)
  BY <1>2 DEF NopCheckReset
<1>3. CASE NopAckReset(c)
  BY <1>3 DEF NopAckReset
<1>4. CASE NopCheckPrint(c)
  BY <1>4, LineType DEF NopCheckPrint
<1>5. CASE NopAckPrint(c)
  BY <1>5 DEF NopAckPrint
<1>6. CASE NopLoad(c)
  BY <1>6 DEF NopLoad
<1>7. CASE NopStore(c)
  BY <1>7 DEF NopStore
<1> QED
  BY <1>1, <1>2, <1>3, <1>4, <1>5, <1>6, <1>7 DEF NopStep

LEMMA TypeInstr ==
  ASSUME TypeOK, NEW c \in Calls, InstrStep(c)
  PROVE  TypeOK'
<1> Here(c) \in Window
  BY DEF TypeOK, Here, Window
<1> USE DEF TypeOK, At, instrRest, flags, logs, ioctl, Kind, ThreadPC, InstrPC
<1>1. CASE InstrPass(c)
  BY <1>1, LineType DEF InstrPass
<1>2. CASE InstrRequestReset(c)
  BY <1>2 DEF InstrRequestReset
<1>3. CASE InstrAwaitReset(c)
  BY <1>3 DEF InstrAwaitReset
<1>4. CASE InstrLoop(c)
  BY <1>4, LineType DEF InstrLoop
<1>5. CASE InstrAskPrint(c)
  BY <1>5 DEF InstrAskPrint
<1>6. CASE InstrAwaitPrint(c)
  BY <1>6 DEF InstrAwaitPrint
<1>7. CASE InstrFinish(c)
  BY <1>7 DEF InstrFinish
<1>8. CASE InstrExit(c)
  BY <1>8 DEF InstrExit, Ended
<1>9. CASE InstrFault(c)
  BY <1>9 DEF InstrFault, Ended
<1> QED
  BY <1>1, <1>2, <1>3, <1>4, <1>5, <1>6, <1>7, <1>8, <1>9 DEF InstrStep

LEMMA TypeStep == TypeOK /\ [Next]_vars => TypeOK'
<1> SUFFICES ASSUME TypeOK, [Next]_vars PROVE TypeOK'
  OBVIOUS
<1>1. ASSUME NEW c \in Calls, Start(c) PROVE TypeOK'
  BY <1>1 DEF Start, Goto, Started, CallPC, own, logs, TypeOK
<1>2. ASSUME NEW c \in Calls, Kill(c) PROVE TypeOK'
  BY <1>2 DEF Kill, flags, ioctl, own, logs, TypeOK
<1>3. ASSUME NEW c \in Calls, NEW k \in Kind, Reap(k, c) PROVE TypeOK'
  BY <1>3 DEF Reap, At, ThreadPC, Ended, flags, ioctl, own, logs, TypeOK
<1>4. CASE UNCHANGED vars
  BY <1>4 DEF vars, flags, ioctl, own, logs, TypeOK
<1> QED
  BY <1>1, <1>2, <1>3, <1>4, TypeCall, TypeNop, TypeInstr DEF Next

\* Every variable keeps its type: in particular the threads only ever point to
\* calls, and a counter that was reset counts for a real entry of a real call.
THEOREM TypeCorrect == Spec => []TypeOK
BY TypeInit, TypeStep, PTL DEF Spec
-----------------------------------------------------------------------------
(* Interrupts, with any number of calls in the driver at once               *)

\* A call has no INSTR thread before it creates one, so that neither its
\* program nor its entry changes while the thread has interrupts off.
InstrComesLater ==
  \A c \in Calls :
    call[c] \in {"idle", "create_nop", "create_instr"} => pc["instr"][c] = "none"

MaskInv == TypeOK /\ InstrComesLater /\ InterruptsRestored

\* What every step but those of INSTR itself does to an INSTR thread.
InstrLeftAlone ==
  /\ UNCHANGED <<masked, entry>>
  /\ \A c \in Calls :
       /\ pc'["instr"][c] # pc["instr"][c] =>
            pc["instr"][c] \in {"none", "created", "exited"}
       /\ action'[c] # action[c] => call[c] = "idle"
       /\ pc'["instr"][c] # pc["instr"][c] /\ pc["instr"][c] = "none" =>
            call'[c] \notin {"idle", "create_nop", "create_instr"}
       /\ call'[c] \in {"idle", "create_nop", "create_instr"} =>
            call[c] \in {"idle", "create_nop", "create_instr"}

LEMMA LeftAlone ==
  ASSUME MaskInv, TypeOK', InstrLeftAlone
  PROVE  MaskInv'
BY DEF MaskInv, InstrComesLater, InterruptsRestored, InstrLeftAlone, TypeOK,
       Current, Program, Kind

LEMMA CallLeavesInstr ==
  ASSUME TypeOK, InstrComesLater, NEW c \in Calls, CallStep(c)
  PROVE  InstrLeftAlone
<1> USE DEF InstrLeftAlone, Goto, own
<1> call \in [Calls -> CallPC] /\ th \in [Kind -> Calls \cup {NULL, ERR}]
      /\ pc \in [Kind -> [Calls -> ThreadPC]]
  BY DEF TypeOK
<1>1. CASE Create(c, "nop", "create_nop", "create_instr")
  <2>1. CASE pc' = [pc EXCEPT !["nop"][c] = "created"]
    BY <1>1, <2>1 DEF Create, Kind
  <2>2. CASE UNCHANGED pc
    BY <1>1, <2>2 DEF Create
  <2> QED
    BY <1>1, <2>1, <2>2 DEF Create
<1>2. CASE Create(c, "instr", "create_instr", "bind")
  <2>1. CASE pc' = [pc EXCEPT !["instr"][c] = "created"]
    <3>1. call' = [call EXCEPT ![c] = "bind"] /\ UNCHANGED <<masked, entry, action>>
      BY <1>2 DEF Create
    <3>2. pc["instr"][c] = "none"
      BY <1>2 DEF Create, InstrComesLater
    <3> QED
      BY <2>1, <3>1, <3>2 DEF Kind
  <2>2. CASE UNCHANGED pc
    BY <1>2, <2>2 DEF Create
  <2> QED
    BY <1>2, <2>1, <2>2 DEF Create
<1>3. CASE BindThreads(c)
  BY <1>3 DEF BindThreads
<1>4. ASSUME NEW k \in Kind, NEW first,
             NEW from \in {"wake_nop", "wake_instr"},
             NEW to \in {"wake_instr", "wait"}, Wake(c, k, first, from, to)
      PROVE  InstrLeftAlone
  <2>1. CASE UNCHANGED pc
    BY <1>4, <2>1 DEF Wake
  <2>2. CASE MayPass(k) /\ pc' = [pc EXCEPT ![k][th[k]] = IF @ = "created" THEN first ELSE @]
    BY <1>4, <2>2 DEF Wake, MayPass, Kind
  <2> QED
    BY <1>4, <2>1, <2>2 DEF Wake
<1>5. CASE WaitFinish(c)
  BY <1>5 DEF WaitFinish
<1>6. ASSUME NEW k \in Kind, NEW from \in {"stop_nop", "stop_instr"},
             NEW join \in {"join_nop", "join_instr"},
             NEW next \in {"stop_instr", "done"}, Stop(c, k, from, join, next)
      PROVE  InstrLeftAlone
  <2>1. CASE ~ Valid(k)
    <3>1. UNCHANGED <<pc, masked, entry, action>>
      BY <1>6, <2>1 DEF Stop
    <3>2. call' = [call EXCEPT ![c] = "oops"] \/ call' = [call EXCEPT ![c] = next]
      BY <1>6, <2>1 DEF Stop
    <3> QED
      BY <3>1, <3>2
  <2>2. CASE Valid(k)
    <3>1. th[k] \in Calls
      BY <2>2 DEF Valid
    <3>2. /\ pc' = [pc EXCEPT ![k][th[k]] = IF @ = "created" THEN "exited" ELSE @]
          /\ call' = [call EXCEPT ![c] = join]
          /\ UNCHANGED <<masked, entry, action>>
      BY <1>6, <2>2 DEF Stop
    <3> QED
      BY <3>1, <3>2 DEF Kind
  <2> QED
    BY <2>1, <2>2
<1>7. ASSUME NEW from, NEW to \in {"stop_instr", "done"}, Join(c, from, to)
      PROVE  InstrLeftAlone
  BY <1>7 DEF Join
<1> QED
  BY <1>1, <1>2, <1>3, <1>4, <1>5, <1>6, <1>7 DEF CallStep, Kind

LEMMA NopLeavesInstr ==
  ASSUME TypeOK, NEW c \in Calls, NopStep(c)
  PROVE  InstrLeftAlone
<1>1. UNCHANGED <<masked, entry, ioctl>>
  BY DEF NopStep, NopHead, NopCheckReset, NopAckReset, NopCheckPrint,
         NopAckPrint, NopLoad, NopStore, nopRest
<1>2. \E from, to : At("nop", c, from, to)
  BY DEF NopStep, NopHead, NopCheckReset, NopAckReset, NopCheckPrint,
         NopAckPrint, NopLoad, NopStore
<1>3. pc'["instr"] = pc["instr"]
  BY <1>2 DEF At, TypeOK, Kind
<1> QED
  BY <1>1, <1>3 DEF InstrLeftAlone, ioctl

LEMMA InstrKeepsMask ==
  ASSUME MaskInv, TypeOK', NEW c \in Calls, InstrStep(c)
  PROVE  MaskInv'
<1>1. /\ UNCHANGED <<call, action>>
      /\ pc["instr"][c] \in InstrPC
      /\ \A d \in Calls : d # c => /\ pc'["instr"][d] = pc["instr"][d]
                                   /\ entry'[d] = entry[d]
                                   /\ d \in masked' <=> d \in masked
  BY DEF InstrStep, InstrPass, InstrRequestReset, InstrAwaitReset, InstrLoop,
         InstrAskPrint, InstrAwaitPrint, InstrFinish, InstrExit, InstrFault, At, InstrPC,
         instrRest, ioctl, MaskInv, TypeOK, Kind
<1>2. InstrComesLater'
  <2>1. call[c] \notin {"idle", "create_nop", "create_instr"}
    BY <1>1 DEF InstrComesLater, MaskInv, InstrPC
  <2> QED
    BY <1>1, <2>1 DEF InstrComesLater, MaskInv
<1>3. ASSUME c \in masked'
      PROVE  /\ pc'["instr"][c] \in {"wait_reset", "loop", "ask_print", "wait_print"}
             /\ Current(c)'.gate = "irqs"
  <2> USE <1>1, <1>3 DEF MaskInv, InterruptsRestored, Current, Program, At, TypeOK, Kind
  <2>1. CASE InstrPass(c)
    BY <2>1 DEF InstrPass
  <2>2. CASE InstrRequestReset(c)
    BY <2>2 DEF InstrRequestReset
  <2>3. CASE InstrAwaitReset(c) \/ InstrLoop(c) \/ InstrAskPrint(c)
    BY <2>3 DEF InstrAwaitReset, InstrLoop, InstrAskPrint
  <2>4. CASE InstrAwaitPrint(c)
    BY <2>4 DEF InstrAwaitPrint
  <2>5. CASE InstrFinish(c) \/ InstrExit(c)
    BY <2>5 DEF InstrFinish, InstrExit
  <2>6. CASE InstrFault(c)
    BY <2>6 DEF InstrFault
  <2> QED
    BY <2>1, <2>2, <2>3, <2>4, <2>5, <2>6 DEF InstrStep
<1>4. InterruptsRestored'
  <2> SUFFICES ASSUME NEW d \in masked'
               PROVE  /\ pc'["instr"][d] \in {"wait_reset", "loop", "ask_print", "wait_print"}
                      /\ Current(d)'.gate = "irqs"
    BY DEF InterruptsRestored
  <2>1. CASE d = c
    BY <1>3, <2>1
  <2>2. CASE d # c
    <3>1. d \in Calls /\ d \in masked
      BY <1>1, <2>2 DEF TypeOK
    <3> QED
      BY <1>1, <2>2, <3>1 DEF InterruptsRestored, MaskInv, Current, Program
  <2> QED
    BY <2>1, <2>2
<1> QED
  BY <1>2, <1>4 DEF MaskInv

\* Interrupts that an entry turned off are on again before INSTR leaves it,
\* whatever other calls do to the flags, the signals and the threads meanwhile.
THEOREM InterruptsAreRestored == Spec => []InterruptsRestored
<1>1. Init => MaskInv
  BY TypeInit DEF Init, MaskInv, InstrComesLater, InterruptsRestored, Kind
<1>2. MaskInv /\ [Next]_vars => MaskInv'
  <2> SUFFICES ASSUME MaskInv, [Next]_vars PROVE MaskInv'
    OBVIOUS
  <2> TypeOK /\ TypeOK' /\ InstrComesLater
    BY TypeStep DEF MaskInv
  <2>1. ASSUME NEW c \in Calls, Start(c) PROVE InstrLeftAlone
    BY <2>1 DEF Start, Goto, InstrLeftAlone, own, TypeOK
  <2>2. ASSUME NEW c \in Calls, Kill(c) PROVE InstrLeftAlone
    BY <2>2 DEF Kill, ioctl, own, InstrLeftAlone
  <2>3. ASSUME NEW c \in Calls, NEW k \in Kind, Reap(k, c) PROVE InstrLeftAlone
    BY <2>3 DEF Reap, At, ioctl, own, InstrLeftAlone, TypeOK, Kind
  <2>4. CASE UNCHANGED vars
    BY <2>4, LeftAlone DEF vars, ioctl, own, InstrLeftAlone
  <2> QED
    BY <2>1, <2>2, <2>3, <2>4, LeftAlone, CallLeavesInstr, NopLeavesInstr,
       InstrKeepsMask DEF Next
<1>3. MaskInv => InterruptsRestored
  BY DEF MaskInv
<1> QED
  BY <1>1, <1>2, <1>3, PTL DEF Spec
=============================================================================
