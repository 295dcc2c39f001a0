-------------------------- MODULE HandshakeProofs --------------------------
(***************************************************************************)
(* What holds of NopTimer as long as clients take turns, as ecr.sh does,   *)
(* for every set of calls and every program.                               *)
(***************************************************************************)
EXTENDS NopTimerProofs

\* At most one call is in the driver.
Exclusive == \A c, d \in Calls : InDriver(c) /\ InDriver(d) => c = d

Gone    == {"exited", "freed"}
Through == {"exit"} \cup Gone

\* kthread_create gave call c a thread of kind k, or an ERR_PTR.
Made(k, c) ==
  \/ th[k] = c /\ pc[k][c] = "created"
  \/ th[k] = ERR /\ pc[k][c] = "none"

\* Where the threads of call c are, from where nop_timing_start is.
Phase(c) ==
  /\ call[c] \in {"idle", "create_nop"} => \A k \in Kind : pc[k][c] = "none"
  /\ call[c] = "create_instr" => Made("nop", c) /\ pc["instr"][c] = "none"
  /\ call[c] = "bind" => \A k \in Kind : Made(k, c)
  /\ call[c] \in {"wake_nop", "wake_instr", "wait", "stop_nop", "join_nop",
                  "stop_instr", "join_instr"} => \A k \in Kind : th[k] = c
  /\ call[c] = "wake_nop" => pc["nop"][c] = "created"
  /\ call[c] \in {"wake_nop", "wake_instr"} => pc["instr"][c] = "created"
  /\ call[c] \in {"wake_instr", "wait", "stop_nop", "join_nop"} =>
       pc["nop"][c] \in NopPC \cup Gone
  /\ call[c] = "wait" => pc["instr"][c] \in InstrPC \cup Gone \cup {"oops"}
  /\ call[c] \in {"stop_nop", "join_nop", "stop_instr", "join_instr"} =>
       pc["instr"][c] \in Through
  /\ call[c] = "join_nop" => joined[c] = <<"nop", c>>
  /\ call[c] = "join_instr" => joined[c] = <<"instr", c>>
  /\ call[c] \in {"stop_instr", "join_instr", "done"} => pc["nop"][c] \in Gone
  /\ call[c] = "done" => pc["instr"][c] \in Gone
  /\ call[c] = "oops" =>
       \/ /\ \A k \in Kind : pc[k][c] \in {"none", "created"}
          /\ \E k \in Kind : pc[k][c] = "none"
       \/ /\ pc["nop"][c] \in Gone /\ pc["instr"][c] \in Through
          /\ pc["instr"][c] = "freed" \/ (pc["nop"][c] = "freed" /\ sig[c])

\* Why a thread was told to stop, or ended.
Stopping(c) ==
  /\ \A k \in Kind : stop[k][c] =>
       call[c] \in {"join_nop", "stop_instr", "join_instr", "done", "oops"}
  /\ pc["nop"][c] \in Gone => stop["nop"][c] \/ sig[c]

\* The counter has been reset for the entry; its label is printed, its count not.
Counting(c) ==
  \/ pc["instr"][c] = "wait_reset" /\ ~ reset_count
  \/ pc["instr"][c] \in {"loop", "ask_print", "wait_print"}

Labelled(c) ==
  \/ pc["instr"][c] = "ask_print"
  \/ pc["instr"][c] = "wait_print" /\ print_count /\ pc["nop"][c] # "ack_print"

\* The handshake: each flag is only up while INSTR waits for it to go down, and
\* from then on the counter, also as loaded, is what INSTR asked for.
Handshake(c) ==
  InDriver(c) =>
    /\ reset_count => pc["instr"][c] = "wait_reset"
    /\ print_count => pc["instr"][c] = "wait_print"
    /\ finish <=> pc["instr"][c] \in Through
    /\ pc["nop"][c] = "ack_reset" => reset_count
    /\ pc["nop"][c] = "ack_print" => print_count
    /\ pc["instr"][c] = "wait_reset" => request = Here(c)
    /\ pc["nop"][c] = "ack_reset" => count = Here(c)
    /\ Counting(c) =>
         count = Here(c) /\ (pc["nop"][c] = "store" => acc[c] = Here(c))
    /\ Labelled(c) => dmesg # <<>> /\ dmesg[Len(dmesg)] = Line("label", Here(c))

SerialInv ==
  /\ TypeOK
  /\ Exclusive
  /\ \A c \in Calls : Phase(c) /\ Stopping(c) /\ Handshake(c)
  /\ CountFollowsLabel

-----------------------------------------------------------------------------
(* Steps of the one call that is in the driver, or of its threads           *)

\* Nothing that belongs to another call changes, and none is in the driver.
OnlyMatters(c) ==
  \A d \in Calls : d # c =>
    /\ ~ InDriver(d)
    /\ call'[d] = call[d]
    /\ sig'[d] = sig[d]
    /\ \A k \in Kind : pc'[k][d] = pc[k][d] /\ stop'[k][d] = stop[k][d]

LEMMA Locally ==
  ASSUME SerialInv, TypeOK', NEW c \in Calls, OnlyMatters(c),
         Phase(c)', Stopping(c)', Handshake(c)', CountFollowsLabel'
  PROVE  SerialInv'
<1>1. ASSUME NEW d \in Calls, d # c
      PROVE  Phase(d)' /\ Stopping(d)' /\ Handshake(d)'
  <2>1. ~ InDriver(d) /\ ~ InDriver(d)'
    BY <1>1 DEF OnlyMatters, InDriver
  <2>2. Phase(d)'
    BY <1>1, <2>1 DEF OnlyMatters, SerialInv, Phase, InDriver, Kind
  <2>3. Stopping(d)'
    BY <1>1 DEF OnlyMatters, SerialInv, Stopping, Kind
  <2> QED
    BY <2>1, <2>2, <2>3 DEF Handshake
<1>2. Exclusive'
  BY DEF OnlyMatters, Exclusive, InDriver
<1> QED
  BY <1>1, <1>2 DEF SerialInv

LEMMA AloneInDriver ==
  ASSUME SerialInv, NEW c \in Calls, InDriver(c)
  PROVE  \A d \in Calls : d # c => ~ InDriver(d)
BY DEF SerialInv, Exclusive

\* The types that the steps below need, and which SerialInv keeps.
Shapes ==
  /\ th \in [Kind -> Calls \cup {NULL, ERR}]
  /\ call \in [Calls -> CallPC]
  /\ pc \in [Kind -> [Calls -> ThreadPC]]
  /\ stop \in [Kind -> [Calls -> BOOLEAN]]

LEMMA ShapesHold == ASSUME SerialInv PROVE Shapes
BY DEF SerialInv, TypeOK, Shapes

LEMMA SerialStart ==
  ASSUME ~ Concurrent, SerialInv, TypeOK', NEW c \in Calls, Start(c)
  PROVE  SerialInv'
<1>1. /\ call[c] = "idle" /\ call' = [call EXCEPT ![c] = "create_nop"]
      /\ ~ reset_count' /\ ~ print_count' /\ ~ finish'
      /\ UNCHANGED <<th, joined, pc, stop, sig, acc, entry, dmesg, request>>
      /\ \A d \in Calls : ~ InDriver(d)
  BY DEF Start, Goto, own, logs
<1>2. OnlyMatters(c)
  BY <1>1, ShapesHold DEF OnlyMatters, Shapes
<1>3. call'[c] = "create_nop" /\ \A k \in Kind : pc'[k][c] = "none"
  BY <1>1, ShapesHold DEF SerialInv, Phase, Shapes
<1>4. Phase(c)'
  BY <1>3 DEF Phase
<1>5. Stopping(c)'
  BY <1>1, <1>3, ShapesHold DEF SerialInv, Stopping, Gone, Kind
<1>6. Handshake(c)'
  BY <1>1, <1>3 DEF Handshake, Through, Gone, Counting, Labelled, Kind
<1>7. CountFollowsLabel'
  BY <1>1 DEF SerialInv, CountFollowsLabel
<1> QED
  BY <1>2, <1>4, <1>5, <1>6, <1>7, Locally

\* Until the threads run, the flags stay as Start left them.
LEMMA SerialCreate ==
  ASSUME SerialInv, TypeOK', NEW c \in Calls,
         NEW k \in Kind, NEW from, NEW to, Create(c, k, from, to),
         \/ k = "nop" /\ from = "create_nop" /\ to = "create_instr"
         \/ k = "instr" /\ from = "create_instr" /\ to = "bind"
  PROVE  SerialInv'
<1>1. /\ call[c] = from /\ call' = [call EXCEPT ![c] = to]
      /\ UNCHANGED <<count, flags, joined, stop, sig, own, logs>>
  BY DEF Create, Goto
<1>2. \/ th' = [th EXCEPT ![k] = c] /\ pc' = [pc EXCEPT ![k][c] = "created"]
      \/ th' = [th EXCEPT ![k] = ERR] /\ pc' = pc
  BY DEF Create
<1>3. OnlyMatters(c)
  <2>1. \A d \in Calls : d # c => ~ InDriver(d)
    BY <1>1, AloneInDriver DEF InDriver
  <2>2. \A d \in Calls, j \in Kind : d # c => pc'[j][d] = pc[j][d]
    BY <1>2, ShapesHold DEF Shapes
  <2> QED
    BY <1>1, <2>1, <2>2, ShapesHold DEF OnlyMatters, Shapes
<1>4. pc[k][c] = "none"
  BY <1>1 DEF SerialInv, Phase, Kind
<1>5. Made(k, c)'
  BY <1>2, <1>4, ShapesHold DEF Shapes, Made
<1>6. \A j \in Kind : j # k => th'[j] = th[j] /\ pc'[j][c] = pc[j][c]
  BY <1>2, ShapesHold DEF Shapes
<1>7. call'[c] = to
  BY <1>1, ShapesHold DEF Shapes
<1>8. Phase(c)'
  BY <1>1, <1>5, <1>6, <1>7 DEF SerialInv, Phase, Made, Kind
<1>9. \A j \in Kind : pc[j][c] \in {"none", "created"} /\ pc'[j][c] \in {"none", "created"}
  BY <1>1, <1>4, <1>5, <1>6 DEF SerialInv, Phase, Made, Kind
<1>10. Stopping(c)'
  <2>1. \A j \in Kind : ~ stop[j][c]
    BY <1>1 DEF SerialInv, Stopping
  <2> QED
    BY <1>1, <1>9, <2>1 DEF Stopping, Gone, Kind
<1>11. Handshake(c)'
  <2>1. ~ reset_count /\ ~ print_count /\ ~ finish
    BY <1>1, <1>9 DEF SerialInv, Handshake, InDriver, Through, Gone, Kind
  <2> QED
    BY <1>1, <1>9, <2>1 DEF flags, Handshake, Through, Gone, Counting, Labelled, Kind
<1>12. CountFollowsLabel'
  BY <1>1 DEF SerialInv, CountFollowsLabel, logs
<1> QED
  BY <1>3, <1>8, <1>10, <1>11, <1>12, Locally

LEMMA SerialBind ==
  ASSUME SerialInv, TypeOK', NEW c \in Calls, BindThreads(c)
  PROVE  SerialInv'
<1>1. /\ call[c] = "bind"
      /\ UNCHANGED <<th, count, flags, joined, pc, stop, sig, own, logs>>
  BY DEF BindThreads, Goto
<1>2. \A k \in Kind : Made(k, c)
  BY <1>1 DEF SerialInv, Phase
<1>3. \/ call' = [call EXCEPT ![c] = "wake_nop"] /\ \A k \in Kind : th[k] = c /\ pc[k][c] = "created"
      \/ call' = [call EXCEPT ![c] = "oops"] /\ \E k \in Kind : pc[k][c] = "none"
  <2>1. \A k \in Kind : th[k] # NULL
    BY <1>2, NopTimerAssumption DEF Made
  <2>2. \A k \in Kind : (th[k] = c /\ pc[k][c] = "created") \/ (~ MayPass(k) /\ pc[k][c] = "none")
    BY <1>2, NopTimerAssumption DEF Made, MayPass
  <2>3. \A k \in Kind : th[k] = c /\ pc[k][c] = "created" => Valid(k)
    BY DEF Valid
  <2> QED
    BY <2>1, <2>2, <2>3 DEF BindThreads, Goto
<1>4. OnlyMatters(c)
  <2>1. \A d \in Calls : d # c => ~ InDriver(d)
    BY <1>1, AloneInDriver DEF InDriver
  <2> QED
    BY <1>1, <1>3, <2>1, ShapesHold DEF OnlyMatters, Shapes
<1>5. call'[c] \in {"wake_nop", "oops"}
  BY <1>3, ShapesHold DEF Shapes
<1>6. Phase(c)'
  BY <1>1, <1>2, <1>3, ShapesHold DEF Phase, Made, Shapes, Kind
<1>7. Stopping(c)'
  BY <1>1, <1>5 DEF SerialInv, Stopping
<1>8. Handshake(c)'
  <2>1. Handshake(c)
    BY DEF SerialInv
  <2> QED
    BY <1>1, <1>5, <2>1 DEF Handshake, InDriver, flags, own, logs, Counting, Labelled, Here
<1>9. CountFollowsLabel'
  BY <1>1 DEF SerialInv, CountFollowsLabel, logs
<1> QED
  BY <1>4, <1>6, <1>7, <1>8, <1>9, Locally

\* th[k] is the thread that c has just created, so waking it starts that one.
LEMMA SerialWake ==
  ASSUME SerialInv, TypeOK', NEW c \in Calls,
         NEW k \in Kind, NEW first, NEW from, NEW to, Wake(c, k, first, from, to),
         \/ k = "nop" /\ first = "head" /\ from = "wake_nop" /\ to = "wake_instr"
         \/ k = "instr" /\ first = "entry" /\ from = "wake_instr" /\ to = "wait"
  PROVE  SerialInv'
<1>1. call[c] = from /\ UNCHANGED <<th, count, flags, joined, stop, sig, own, logs>>
  BY DEF Wake, Goto
<1>2. (\A j \in Kind : th[j] = c) /\ pc[k][c] = "created"
  BY <1>1 DEF SerialInv, Phase, Kind
<1>3. /\ call' = [call EXCEPT ![c] = to]
      /\ pc' = [pc EXCEPT ![k][c] = first]
  <2>1. Valid(k)
    BY <1>2 DEF Valid
  <2>2. pc' = [pc EXCEPT ![k][th[k]] = IF @ = "created" THEN first ELSE @]
    BY <2>1 DEF Wake
  <2> QED
    BY <1>2, <2>1, <2>2 DEF Wake, Goto
<1>4. /\ call'[c] = to /\ pc'[k][c] = first
      /\ \A j \in Kind : j # k => pc'[j][c] = pc[j][c]
      /\ \A j \in Kind, d \in Calls : d # c => pc'[j][d] = pc[j][d]
  BY <1>3, ShapesHold DEF Shapes
<1>5. OnlyMatters(c)
  <2>1. \A d \in Calls : d # c => ~ InDriver(d)
    BY <1>1, AloneInDriver DEF InDriver
  <2> QED
    BY <1>1, <1>3, <1>4, <2>1, ShapesHold DEF OnlyMatters, Shapes
<1>6. Phase(c)'
  BY <1>1, <1>2, <1>4 DEF SerialInv, Phase, Kind, NopPC, InstrPC
<1>7. Stopping(c)'
  <2>1. \A j \in Kind : ~ stop[j][c]
    BY <1>1 DEF SerialInv, Stopping
  <2>2. pc["nop"][c] \in Gone => sig[c]
    BY <2>1 DEF SerialInv, Stopping, Kind
  <2> QED
    BY <1>1, <1>4, <2>1, <2>2 DEF Stopping, Gone, Kind
<1>8. Handshake(c)'
  <2>1. pc["instr"][c] = "created"
    BY <1>1, <1>2 DEF SerialInv, Phase, Kind
  <2>2. /\ ~ reset_count /\ ~ print_count /\ ~ finish
        /\ pc["nop"][c] \notin {"ack_reset", "ack_print"}
    BY <1>1, <2>1 DEF SerialInv, Handshake, InDriver, Through, Gone
  <2>3. pc'["instr"][c] \in {"created", "entry"} /\ pc'["nop"][c] \notin {"ack_reset", "ack_print"}
    BY <1>4, <2>1, <2>2 DEF Kind
  <2> QED
    BY <1>1, <2>2, <2>3 DEF flags, Handshake, Through, Gone, Counting, Labelled
<1>9. CountFollowsLabel'
  BY <1>1 DEF SerialInv, CountFollowsLabel, logs
<1> QED
  BY <1>5, <1>6, <1>7, <1>8, <1>9, Locally

LEMMA SerialWait ==
  ASSUME SerialInv, TypeOK', NEW c \in Calls, WaitFinish(c)
  PROVE  SerialInv'
<1>1. /\ call[c] = "wait" /\ finish /\ call' = [call EXCEPT ![c] = "stop_nop"]
      /\ UNCHANGED <<th, count, flags, joined, pc, stop, sig, own, logs>>
  BY DEF WaitFinish, Goto
<1>2. call'[c] = "stop_nop"
  BY <1>1, ShapesHold DEF Shapes
<1>3. pc["instr"][c] \in Through
  BY <1>1 DEF SerialInv, Handshake, InDriver
<1>4. OnlyMatters(c)
  <2>1. \A d \in Calls : d # c => ~ InDriver(d)
    BY <1>1, AloneInDriver DEF InDriver
  <2> QED
    BY <1>1, <2>1, ShapesHold DEF OnlyMatters, Shapes
<1>5. Phase(c)'
  BY <1>1, <1>2, <1>3 DEF SerialInv, Phase
<1>6. Stopping(c)'
  BY <1>1, <1>2 DEF SerialInv, Stopping
<1>7. Handshake(c)'
  <2>1. Handshake(c)
    BY DEF SerialInv
  <2> QED
    BY <1>1, <1>2, <2>1 DEF Handshake, InDriver, flags, own, logs, Counting, Labelled, Here
<1>8. CountFollowsLabel'
  BY <1>1 DEF SerialInv, CountFollowsLabel, logs
<1> QED
  BY <1>4, <1>5, <1>6, <1>7, <1>8, Locally

\* By then INSTR is through, and the NOP thread only counts or is gone.
LEMMA SerialStop ==
  ASSUME SerialInv, TypeOK', NEW c \in Calls,
         NEW k \in Kind, NEW from, NEW join, NEW next, Stop(c, k, from, join, next),
         \/ /\ k = "nop" /\ from = "stop_nop" /\ join = "join_nop"
            /\ next = "stop_instr"
         \/ /\ k = "instr" /\ from = "stop_instr" /\ join = "join_instr"
            /\ next = "done"
  PROVE  SerialInv'
<1>1. call[c] = from /\ UNCHANGED <<th, count, flags, sig, own, logs>>
  BY DEF Stop, Goto
<1>2. /\ \A j \in Kind : th[j] = c
      /\ pc["instr"][c] \in Through
      /\ pc["nop"][c] \in NopPC \cup Gone
      /\ k = "instr" => pc["nop"][c] \in Gone
  BY <1>1 DEF SerialInv, Phase
<1>3. pc[k][c] # "created"
  BY <1>2 DEF Through, Gone, NopPC, Kind
<1>4. \A d \in Calls : d # c => ~ InDriver(d)
  BY <1>1, AloneInDriver DEF InDriver
<1>5. Handshake(c) /\ Stopping(c) /\ InDriver(c)
  BY <1>1 DEF SerialInv, InDriver
<1>6. CountFollowsLabel'
  BY <1>1 DEF SerialInv, CountFollowsLabel, logs
<1>7. CASE Valid(k)
  <2>1. /\ call' = [call EXCEPT ![c] = join] /\ pc' = pc
        /\ stop' = [stop EXCEPT ![k][c] = TRUE]
        /\ joined' = [joined EXCEPT ![c] = <<k, c>>]
    <3>1. pc' = [pc EXCEPT ![k][th[k]] = IF @ = "created" THEN "exited" ELSE @]
      BY <1>7 DEF Stop
    <3>2. pc' = pc
      BY <1>2, <1>3, <3>1, ShapesHold DEF Shapes
    <3> QED
      BY <1>2, <1>7, <3>2 DEF Stop, Goto
  <2>2. call'[c] = join /\ joined'[c] = <<k, c>>
    BY <2>1 DEF SerialInv, TypeOK
  <2>3. OnlyMatters(c)
    BY <1>1, <1>4, <2>1, ShapesHold DEF OnlyMatters, Shapes
  <2>4. Phase(c)'
    BY <1>1, <1>2, <2>1, <2>2 DEF Phase
  <2>5. Stopping(c)'
    BY <1>1, <1>5, <2>1, <2>2, ShapesHold DEF Stopping, Shapes, Kind
  <2>6. Handshake(c)'
    BY <1>1, <1>5, <2>1 DEF Handshake, flags, own, logs, Counting, Labelled, Here
  <2> QED
    BY <1>6, <2>3, <2>4, <2>5, <2>6, Locally
<1>8. CASE ~ Valid(k)
  <2>1. /\ pc[k][c] = "freed"
        /\ call' = [call EXCEPT ![c] = "oops"] \/ call' = [call EXCEPT ![c] = next]
        /\ UNCHANGED <<pc, stop, joined>>
    BY <1>2, <1>8 DEF Stop, Goto, Valid
  <2>2. call'[c] \in {"oops", next}
    BY <2>1, ShapesHold DEF Shapes
  <2>3. OnlyMatters(c)
    BY <1>1, <1>4, <2>1, ShapesHold DEF OnlyMatters, Shapes
  <2>4. k = "nop" => sig[c]
    BY <1>1, <1>5, <2>1 DEF Stopping, Gone, Kind
  <2>5. Phase(c)'
    BY <1>1, <1>2, <2>1, <2>2, <2>4 DEF Phase, Gone, Through
  <2>6. Stopping(c)'
    BY <1>1, <1>5, <2>1, <2>2 DEF Stopping
  <2>7. Handshake(c)'
    BY <1>1, <1>5, <2>1 DEF Handshake, flags, own, logs, Counting, Labelled, Here
  <2> QED
    BY <1>6, <2>3, <2>5, <2>6, <2>7, Locally
<1> QED
  BY <1>7, <1>8

LEMMA SerialJoin ==
  ASSUME SerialInv, TypeOK', NEW c \in Calls,
         NEW from, NEW to, Join(c, from, to),
         \/ from = "join_nop" /\ to = "stop_instr"
         \/ from = "join_instr" /\ to = "done"
  PROVE  SerialInv'
<1>1. /\ call[c] = from /\ call' = [call EXCEPT ![c] = to]
      /\ joined' = [joined EXCEPT ![c] = NULL]
      /\ pc[joined[c][1]][joined[c][2]] \in Ended
      /\ UNCHANGED <<th, count, flags, pc, stop, sig, own, logs>>
  BY DEF Join, Goto
<1>2. call'[c] = to
  BY <1>1, ShapesHold DEF Shapes
<1>3. /\ from = "join_nop" => pc["nop"][c] \in Ended
      /\ from = "join_instr" => pc["instr"][c] \in Ended
  BY <1>1 DEF SerialInv, Phase
<1>4. OnlyMatters(c)
  <2>1. \A d \in Calls : d # c => ~ InDriver(d)
    BY <1>1, AloneInDriver DEF InDriver
  <2> QED
    BY <1>1, <2>1, ShapesHold DEF OnlyMatters, Shapes
<1>5. Phase(c)'
  BY <1>1, <1>2, <1>3 DEF SerialInv, Phase, Ended, Gone, Through, NopPC
<1>6. Stopping(c)'
  BY <1>1, <1>2 DEF SerialInv, Stopping
<1>7. Handshake(c)'
  <2>1. Handshake(c) /\ InDriver(c)
    BY <1>1 DEF SerialInv, InDriver
  <2> QED
    BY <1>1, <2>1 DEF Handshake, flags, own, logs, Counting, Labelled, Here
<1>8. CountFollowsLabel'
  BY <1>1 DEF SerialInv, CountFollowsLabel, logs
<1> QED
  BY <1>4, <1>5, <1>6, <1>7, <1>8, Locally

-----------------------------------------------------------------------------
(* Steps of the threads                                                     *)

\* A NOP thread that runs is the one nop_th points to.
LEMMA NopRuns ==
  ASSUME SerialInv, NEW c \in Calls, pc["nop"][c] \in NopPC
  PROVE  /\ call[c] \in {"wake_instr", "wait", "stop_nop", "join_nop"}
         /\ InDriver(c)
         /\ th["nop"] = c
<1>1. Phase(c)
  BY DEF SerialInv
<1>2. call[c] \in CallPC
  BY DEF SerialInv, TypeOK
<1>3. call[c] \in {"wake_instr", "wait", "stop_nop", "join_nop"}
  BY <1>1, <1>2 DEF Phase, Made, CallPC, NopPC, Gone, Kind
<1> QED
  BY <1>1, <1>3 DEF Phase, InDriver, Kind

\* What it leaves alone, and why a step of it preserves all but the handshake.
LEMMA NopElsewhere ==
  ASSUME SerialInv, TypeOK', NEW c \in Calls, NEW from, NEW to,
         from \in NopPC, to \in NopPC \cup {"exited"},
         to = "exited" => stop["nop"][c] \/ sig[c],
         At("nop", c, from, to), UNCHANGED nopRest,
         Handshake(c)', CountFollowsLabel'
  PROVE  SerialInv'
<1>1. /\ pc["nop"][c] \in NopPC /\ pc' = [pc EXCEPT !["nop"][c] = to]
      /\ UNCHANGED <<th, call, joined, stop, sig>>
  BY DEF At, nopRest, ioctl
<1>2. /\ pc'["nop"][c] = to /\ pc'["instr"][c] = pc["instr"][c]
      /\ \A j \in Kind, d \in Calls : d # c => pc'[j][d] = pc[j][d]
  BY <1>1, ShapesHold DEF Shapes, Kind
<1>3. OnlyMatters(c)
  <2>1. \A d \in Calls : d # c => ~ InDriver(d)
    BY <1>1, NopRuns, AloneInDriver
  <2> QED
    BY <1>1, <1>2, <2>1 DEF OnlyMatters
<1>4. Phase(c)'
  <2>1. Phase(c) /\ call[c] \in {"wake_instr", "wait", "stop_nop", "join_nop"}
    BY <1>1, NopRuns DEF SerialInv
  <2> QED
    BY <1>1, <1>2, <2>1 DEF Phase, Gone
<1>5. Stopping(c)'
  BY <1>1, <1>2 DEF SerialInv, Stopping, Gone, NopPC
<1> QED
  BY <1>3, <1>4, <1>5, Locally

LEMMA SerialNop ==
  ASSUME SerialInv, TypeOK', NEW c \in Calls, NopStep(c)
  PROVE  SerialInv'
<1> USE DEF nopRest, ioctl
<1>1. pc["nop"][c] \in NopPC
  BY DEF NopStep, NopHead, NopCheckReset, NopAckReset, NopCheckPrint,
         NopAckPrint, NopLoad, NopStore, At, NopPC
<1>2. InDriver(c) /\ th["nop"] = c /\ Valid("nop") /\ Handshake(c)
  BY <1>1, NopRuns DEF Valid, NopPC, SerialInv
<1>3. ASSUME NEW from \in NopPC, NEW to \in ThreadPC, At("nop", c, from, to)
      PROVE  /\ pc["nop"][c] = from /\ pc'["nop"][c] = to
             /\ pc'["instr"][c] = pc["instr"][c]
  BY <1>3, ShapesHold DEF At, Shapes, Kind
<1>4. pc["instr"][c] \in Through => pc["instr"][c] \notin {"wait_reset", "loop", "ask_print", "wait_print"}
  BY DEF Through, Gone
<1>5. UNCHANGED dmesg => CountFollowsLabel'
  BY DEF SerialInv, CountFollowsLabel
<1>6. CASE NopHead(c)
  <2> DEFINE to == IF stop["nop"][c] \/ sig[c] THEN "exited" ELSE "check_reset"
  <2>1. /\ At("nop", c, "head", to)
        /\ UNCHANGED <<count, reset_count, print_count, acc, dmesg, nopRest>>
    BY <1>2, <1>6 DEF NopHead, MayPass
  <2>2. /\ pc["nop"][c] = "head" /\ pc'["nop"][c] = to
        /\ pc'["instr"][c] = pc["instr"][c]
    BY <1>3, <2>1 DEF ThreadPC, Ended, NopPC
  <2>3. Handshake(c)'
    BY <1>2, <2>1, <2>2 DEF Handshake, Counting, Labelled, Here, InDriver
  <2> QED
    BY <1>5, <2>1, <2>3, NopElsewhere DEF NopPC
<1>7. CASE NopCheckReset(c)
  <2> DEFINE to == IF reset_count THEN "ack_reset" ELSE "check_print"
  <2>1. /\ At("nop", c, "check_reset", to)
        /\ count' = IF reset_count THEN request ELSE count
        /\ UNCHANGED <<reset_count, print_count, acc, dmesg, nopRest>>
    BY <1>7 DEF NopCheckReset
  <2>2. /\ pc["nop"][c] = "check_reset" /\ pc'["nop"][c] = to
        /\ pc'["instr"][c] = pc["instr"][c]
    BY <1>3, <2>1 DEF ThreadPC, NopPC
  <2>3. Handshake(c)'
    BY <1>2, <2>1, <2>2 DEF Handshake, Counting, Labelled, Here, InDriver
  <2> QED
    BY <1>5, <2>1, <2>3, NopElsewhere DEF NopPC
<1>8. CASE NopAckReset(c)
  <2>1. /\ At("nop", c, "ack_reset", "check_print")
        /\ ~ reset_count'
        /\ UNCHANGED <<count, print_count, acc, dmesg, nopRest>>
    BY <1>8 DEF NopAckReset
  <2>2. /\ pc["nop"][c] = "ack_reset" /\ pc'["nop"][c] = "check_print"
        /\ pc'["instr"][c] = pc["instr"][c]
    BY <1>3, <2>1 DEF ThreadPC, NopPC
  <2>3. Handshake(c)'
    BY <1>2, <2>1, <2>2 DEF Handshake, Counting, Labelled, Here, InDriver
  <2> QED
    BY <1>5, <2>1, <2>3, NopElsewhere DEF NopPC
<1>9. CASE NopCheckPrint(c)
  <2> DEFINE to == IF print_count THEN "ack_print" ELSE "load"
  <2>1. /\ At("nop", c, "check_print", to)
        /\ dmesg' = IF print_count THEN Append(dmesg, Line("count", count)) ELSE dmesg
        /\ UNCHANGED <<count, reset_count, print_count, acc, nopRest>>
    BY <1>9 DEF NopCheckPrint
  <2>2. /\ pc["nop"][c] = "check_print" /\ pc'["nop"][c] = to
        /\ pc'["instr"][c] = pc["instr"][c]
    BY <1>3, <2>1 DEF ThreadPC, NopPC
  <2>3. print_count =>
          dmesg # <<>> /\ dmesg[Len(dmesg)] = Line("label", count)
    BY <1>2, <2>2 DEF Handshake, Counting, Labelled
  <2>4. Handshake(c)'
    BY <1>2, <2>1, <2>2 DEF Handshake, Counting, Labelled, Here, InDriver
  <2>5. CountFollowsLabel'
    BY <2>1, <2>3 DEF CountFollowsLabel, Line, SerialInv, TypeOK
  <2> QED
    BY <2>1, <2>4, <2>5, NopElsewhere DEF NopPC
<1>10. CASE NopAckPrint(c)
  <2>1. /\ At("nop", c, "ack_print", "load")
        /\ ~ print_count'
        /\ UNCHANGED <<count, reset_count, acc, dmesg, nopRest>>
    BY <1>10 DEF NopAckPrint
  <2>2. /\ pc["nop"][c] = "ack_print" /\ pc'["nop"][c] = "load"
        /\ pc'["instr"][c] = pc["instr"][c]
    BY <1>3, <2>1 DEF ThreadPC, NopPC
  <2>3. Handshake(c)'
    BY <1>2, <2>1, <2>2 DEF Handshake, Counting, Labelled, Here, InDriver
  <2> QED
    BY <1>5, <2>1, <2>3, NopElsewhere DEF NopPC
<1>11. CASE NopLoad(c)
  <2>1. /\ At("nop", c, "load", "store")
        /\ acc' = [acc EXCEPT ![c] = count]
        /\ UNCHANGED <<count, reset_count, print_count, dmesg, nopRest>>
    BY <1>11 DEF NopLoad
  <2>2. /\ pc["nop"][c] = "load" /\ pc'["nop"][c] = "store"
        /\ pc'["instr"][c] = pc["instr"][c]
    BY <1>3, <2>1 DEF ThreadPC, NopPC
  <2>3. acc'[c] = count
    BY <2>1 DEF SerialInv, TypeOK
  <2>4. Handshake(c)'
    BY <1>2, <2>1, <2>2, <2>3 DEF Handshake, Counting, Labelled, Here, InDriver
  <2> QED
    BY <1>5, <2>1, <2>4, NopElsewhere DEF NopPC
<1>12. CASE NopStore(c)
  <2>1. /\ At("nop", c, "store", "head")
        /\ count' = acc[c]
        /\ UNCHANGED <<reset_count, print_count, acc, dmesg, nopRest>>
    BY <1>12 DEF NopStore
  <2>2. /\ pc["nop"][c] = "store" /\ pc'["nop"][c] = "head"
        /\ pc'["instr"][c] = pc["instr"][c]
    BY <1>3, <2>1 DEF ThreadPC, NopPC
  <2>3. Handshake(c)'
    BY <1>2, <2>1, <2>2 DEF Handshake, Counting, Labelled, Here, InDriver
  <2> QED
    BY <1>5, <2>1, <2>3, NopElsewhere DEF NopPC
<1> QED
  BY <1>6, <1>7, <1>8, <1>9, <1>10, <1>11, <1>12 DEF NopStep

\* An INSTR thread that measures is the one its call waits for.
LEMMA InstrRuns ==
  ASSUME SerialInv, NEW c \in Calls, pc["instr"][c] \in InstrPC \ {"exit"}
  PROVE  /\ call[c] = "wait"
         /\ \A k \in Kind : ~ stop[k][c]
<1>1. Phase(c) /\ Stopping(c)
  BY DEF SerialInv
<1>2. call[c] \in CallPC
  BY DEF SerialInv, TypeOK
<1>3. call[c] = "wait"
  BY <1>1, <1>2 DEF Phase, Made, CallPC, InstrPC, Through, Gone, Kind
<1> QED
  BY <1>1, <1>3 DEF Stopping

LEMMA InstrElsewhere ==
  ASSUME SerialInv, TypeOK', NEW c \in Calls, NEW to \in InstrPC \cup {"oops"},
         pc["instr"][c] \in InstrPC \ {"exit"}, pc'["instr"][c] = to,
         pc'["nop"][c] = pc["nop"][c],
         \A k \in Kind, d \in Calls : d # c => pc'[k][d] = pc[k][d],
         UNCHANGED instrRest, Handshake(c)', CountFollowsLabel'
  PROVE  SerialInv'
<1>1. UNCHANGED <<th, call, joined, stop, sig>>
  BY DEF instrRest, ioctl
<1>2. call[c] = "wait" /\ InDriver(c)
  BY InstrRuns DEF InDriver
<1>3. OnlyMatters(c)
  BY <1>1, <1>2, AloneInDriver DEF OnlyMatters
<1>4. Phase(c)'
  BY <1>1, <1>2 DEF SerialInv, Phase
<1>5. Stopping(c)'
  BY <1>1 DEF SerialInv, Stopping
<1> QED
  BY <1>3, <1>4, <1>5, Locally

LEMMA SerialMeasure ==
  ASSUME SerialInv, TypeOK', NEW c \in Calls, InstrStep(c), ~ InstrExit(c)
  PROVE  SerialInv'
<1> USE DEF instrRest, flags, logs, ioctl
<1>1. pc["instr"][c] \in InstrPC \ {"exit"}
  BY DEF InstrStep, InstrPass, InstrRequestReset, InstrAwaitReset, InstrLoop,
         InstrAskPrint, InstrAwaitPrint, InstrFinish, InstrFault, At, InstrPC
<1>2. call[c] = "wait" /\ ~ stop["instr"][c] /\ InDriver(c) /\ Handshake(c)
  BY <1>1, InstrRuns DEF InDriver, SerialInv, Kind
<1>3. ASSUME NEW from \in InstrPC, NEW to \in InstrPC \cup {"oops"},
             At("instr", c, from, to)
      PROVE  /\ pc["instr"][c] = from /\ pc'["instr"][c] = to
             /\ pc'["nop"][c] = pc["nop"][c]
             /\ \A k \in Kind, d \in Calls : d # c => pc'[k][d] = pc[k][d]
  BY <1>3, ShapesHold DEF At, Shapes, Kind
<1>4. UNCHANGED dmesg => CountFollowsLabel'
  BY DEF SerialInv, CountFollowsLabel
<1>5. ASSUME NEW l \in Lines, dmesg' = Append(dmesg, l), l.kind # "count"
      PROVE  CountFollowsLabel' /\ dmesg' # <<>> /\ dmesg'[Len(dmesg')] = l
  <2>1. dmesg \in Seq(Lines) /\ CountFollowsLabel
    BY DEF SerialInv, TypeOK
  <2>2. /\ Len(dmesg') = Len(dmesg) + 1 /\ dmesg'[Len(dmesg')] = l
        /\ \A i \in 1 .. Len(dmesg) : dmesg'[i] = dmesg[i]
        /\ dmesg' # <<>>
    BY <1>5, <2>1
  <2>3. DOMAIN dmesg = 1 .. Len(dmesg) /\ DOMAIN dmesg' = 1 .. Len(dmesg')
    BY <1>5, <2>1
  <2>4. CountFollowsLabel'
    BY <1>5, <2>1, <2>2, <2>3 DEF CountFollowsLabel
  <2> QED
    BY <2>2, <2>4
<1>6. \A k \in {"zero", "label"} : Line(k, Here(c)) \in Lines /\ Line(k, Here(c)).kind = k
  BY DEF Line, Lines, Here, Window, SerialInv, TypeOK
<1>7. CASE InstrPass(c)
  <2>1. /\ pc["instr"][c] = "entry"
        /\ UNCHANGED <<pc, flags, request, instrRest>>
        /\ dmesg' = dmesg \/ dmesg' = Append(dmesg, Line("zero", Here(c)))
    BY <1>7 DEF InstrPass
  <2>2. CountFollowsLabel'
    BY <1>4, <1>5, <1>6, <2>1
  <2>3. Handshake(c)'
    BY <1>2, <2>1 DEF Handshake, Counting, Labelled, InDriver
  <2> QED
    BY <1>1, <2>1, <2>2, <2>3, InstrElsewhere DEF InstrPC
<1>8. CASE InstrRequestReset(c)
  <2>1. /\ At("instr", c, "entry", "wait_reset")
        /\ reset_count' /\ request' = Here(c)
        /\ UNCHANGED <<print_count, finish, entry, dmesg, instrRest>>
    BY <1>8 DEF InstrRequestReset
  <2>2. /\ pc["instr"][c] = "entry" /\ pc'["instr"][c] = "wait_reset"
        /\ pc'["nop"][c] = pc["nop"][c]
        /\ \A k \in Kind, d \in Calls : d # c => pc'[k][d] = pc[k][d]
    BY <1>3, <2>1 DEF InstrPC
  <2>3. Handshake(c)'
    BY <1>2, <2>1, <2>2 DEF Handshake, Counting, Labelled, Here, InDriver, Through, Gone
  <2> QED
    BY <1>1, <1>4, <2>1, <2>2, <2>3, InstrElsewhere DEF InstrPC
<1>9. CASE InstrAwaitReset(c)
  <2>1. /\ At("instr", c, "wait_reset", "loop") /\ ~ reset_count
        /\ UNCHANGED <<flags, entry, logs, instrRest>>
    BY <1>2, <1>9 DEF InstrAwaitReset
  <2>2. /\ pc["instr"][c] = "wait_reset" /\ pc'["instr"][c] = "loop"
        /\ pc'["nop"][c] = pc["nop"][c]
        /\ \A k \in Kind, d \in Calls : d # c => pc'[k][d] = pc[k][d]
    BY <1>3, <2>1 DEF InstrPC
  <2>3. Handshake(c)'
    BY <1>2, <2>1, <2>2 DEF Handshake, Counting, Labelled, Here, InDriver, Through, Gone
  <2> QED
    BY <1>1, <1>4, <2>1, <2>2, <2>3, InstrElsewhere DEF InstrPC
<1>10. CASE InstrLoop(c)
  <2>1. /\ At("instr", c, "loop", "ask_print")
        /\ dmesg' = Append(dmesg, Line("label", Here(c)))
        /\ UNCHANGED <<flags, entry, request, instrRest>>
    BY <1>10 DEF InstrLoop
  <2>2. /\ pc["instr"][c] = "loop" /\ pc'["instr"][c] = "ask_print"
        /\ pc'["nop"][c] = pc["nop"][c]
        /\ \A k \in Kind, d \in Calls : d # c => pc'[k][d] = pc[k][d]
    BY <1>3, <2>1 DEF InstrPC
  <2>3. /\ CountFollowsLabel'
        /\ dmesg' # <<>> /\ dmesg'[Len(dmesg')] = Line("label", Here(c))
    BY <1>5, <1>6, <2>1
  <2>4. Handshake(c)'
    BY <1>2, <2>1, <2>2, <2>3 DEF Handshake, Counting, Labelled, Here, InDriver, Through, Gone
  <2> QED
    BY <1>1, <2>1, <2>2, <2>3, <2>4, InstrElsewhere DEF InstrPC
<1>11. CASE InstrAskPrint(c)
  <2>1. /\ At("instr", c, "ask_print", "wait_print") /\ print_count'
        /\ UNCHANGED <<reset_count, finish, entry, logs, instrRest>>
    BY <1>11 DEF InstrAskPrint
  <2>2. /\ pc["instr"][c] = "ask_print" /\ pc'["instr"][c] = "wait_print"
        /\ pc'["nop"][c] = pc["nop"][c]
        /\ \A k \in Kind, d \in Calls : d # c => pc'[k][d] = pc[k][d]
    BY <1>3, <2>1 DEF InstrPC
  <2>3. Handshake(c)'
    BY <1>2, <2>1, <2>2 DEF Handshake, Counting, Labelled, Here, InDriver, Through, Gone
  <2> QED
    BY <1>1, <1>4, <2>1, <2>2, <2>3, InstrElsewhere DEF InstrPC
<1>12. CASE InstrAwaitPrint(c)
  <2>1. /\ At("instr", c, "wait_print", "entry") /\ ~ print_count
        /\ UNCHANGED <<flags, logs, instrRest>>
    BY <1>2, <1>12 DEF InstrAwaitPrint
  <2>2. /\ pc["instr"][c] = "wait_print" /\ pc'["instr"][c] = "entry"
        /\ pc'["nop"][c] = pc["nop"][c]
        /\ \A k \in Kind, d \in Calls : d # c => pc'[k][d] = pc[k][d]
    BY <1>3, <2>1 DEF InstrPC
  <2>3. Handshake(c)'
    BY <1>2, <2>1, <2>2 DEF Handshake, Counting, Labelled, InDriver, Through, Gone
  <2> QED
    BY <1>1, <1>4, <2>1, <2>2, <2>3, InstrElsewhere DEF InstrPC
<1>13. CASE InstrFinish(c)
  <2>1. /\ At("instr", c, "entry", "exit") /\ finish'
        /\ UNCHANGED <<reset_count, print_count, entry, logs, instrRest>>
    BY <1>13 DEF InstrFinish
  <2>2. /\ pc["instr"][c] = "entry" /\ pc'["instr"][c] = "exit"
        /\ pc'["nop"][c] = pc["nop"][c]
        /\ \A k \in Kind, d \in Calls : d # c => pc'[k][d] = pc[k][d]
    BY <1>3, <2>1 DEF InstrPC
  <2>3. Handshake(c)'
    BY <1>2, <2>1, <2>2 DEF Handshake, Counting, Labelled, InDriver, Through, Gone
  <2> QED
    BY <1>1, <1>4, <2>1, <2>2, <2>3, InstrElsewhere DEF InstrPC
<1>14. CASE InstrFault(c)
  <2>1. /\ At("instr", c, "loop", "oops")
        /\ UNCHANGED <<flags, entry, logs, instrRest>>
    BY <1>14 DEF InstrFault
  <2>2. /\ pc["instr"][c] = "loop" /\ pc'["instr"][c] = "oops"
        /\ pc'["nop"][c] = pc["nop"][c]
        /\ \A k \in Kind, d \in Calls : d # c => pc'[k][d] = pc[k][d]
    BY <1>3, <2>1 DEF InstrPC
  <2>3. Handshake(c)'
    BY <1>2, <2>1, <2>2 DEF Handshake, Counting, Labelled, InDriver, Through, Gone
  <2> QED
    BY <1>1, <1>4, <2>1, <2>2, <2>3, InstrElsewhere
<1> QED
  BY <1>7, <1>8, <1>9, <1>10, <1>11, <1>12, <1>13, <1>14 DEF InstrStep

-----------------------------------------------------------------------------
(* Steps that may belong to a call which is no longer in the driver         *)

\* A thread that is through ends or is reaped, or a NOP thread is sent SIGKILL.
LEMMA SerialAside ==
  ASSUME SerialInv, TypeOK',
         UNCHANGED <<th, count, flags, ioctl, stop, acc, entry, logs>>,
         \A k \in Kind, d \in Calls :
           \/ pc'[k][d] = pc[k][d]
           \/ k = "instr" /\ pc[k][d] = "exit" /\ pc'[k][d] = "exited"
           \/ pc[k][d] = "exited" /\ pc'[k][d] = "freed",
         \A d \in Calls : sig[d] => sig'[d]
  PROVE  SerialInv'
<1> USE DEF flags, ioctl, logs
<1>1. CountFollowsLabel' /\ Exclusive'
  BY DEF SerialInv, CountFollowsLabel, Exclusive, InDriver
<1>2. ASSUME NEW d \in Calls PROVE Phase(d)' /\ Stopping(d)' /\ Handshake(d)'
  <2>1. /\ Phase(d) /\ Stopping(d) /\ Handshake(d)
        /\ sig[d] => sig'[d]
        /\ \/ pc'["nop"][d] = pc["nop"][d]
           \/ pc["nop"][d] = "exited" /\ pc'["nop"][d] = "freed"
        /\ \/ pc'["instr"][d] = pc["instr"][d]
           \/ pc["instr"][d] = "exit" /\ pc'["instr"][d] = "exited"
           \/ pc["instr"][d] = "exited" /\ pc'["instr"][d] = "freed"
    BY DEF SerialInv, Kind
  <2>2. Phase(d)'
    BY <2>1 DEF Phase, Made, Through, Gone, NopPC, InstrPC, Kind
  <2>3. Stopping(d)'
    BY <2>1 DEF Stopping, Gone
  <2>4. Handshake(d)'
    BY <2>1 DEF Handshake, Counting, Labelled, Here, InDriver, Through, Gone
  <2> QED
    BY <2>2, <2>3, <2>4
<1> QED
  BY <1>1, <1>2 DEF SerialInv

LEMMA SerialStep ==
  ASSUME ~ Concurrent
  PROVE  SerialInv /\ [Next]_vars => SerialInv'
<1> SUFFICES ASSUME SerialInv, [Next]_vars PROVE SerialInv'
  OBVIOUS
<1>1. TypeOK'
  BY TypeStep DEF SerialInv
<1>2. ASSUME NEW c \in Calls, CallStep(c) PROVE SerialInv'
  BY <1>1, <1>2, SerialCreate, SerialBind, SerialWake, SerialWait, SerialStop,
     SerialJoin DEF CallStep, Kind
<1>3. ASSUME NEW c \in Calls, InstrExit(c) PROVE SerialInv'
  <2>1. /\ UNCHANGED <<th, count, flags, ioctl, stop, sig, acc, entry, logs>>
        /\ pc["instr"][c] = "exit" /\ pc' = [pc EXCEPT !["instr"][c] = "exited"]
    BY <1>3 DEF InstrExit, At, instrRest
  <2>2. \A k \in Kind, d \in Calls :
          \/ pc'[k][d] = pc[k][d]
          \/ k = "instr" /\ pc[k][d] = "exit" /\ pc'[k][d] = "exited"
    BY <2>1, ShapesHold DEF Shapes, Kind
  <2> QED
    BY <1>1, <2>1, <2>2, SerialAside
<1>4. ASSUME NEW c \in Calls, Kill(c) PROVE SerialInv'
  <2>1. /\ UNCHANGED <<th, count, flags, ioctl, pc, stop, acc, entry, logs>>
        /\ \A d \in Calls : sig[d] => sig'[d]
    BY <1>4 DEF Kill, own, SerialInv, TypeOK
  <2> QED
    BY <1>1, <2>1, SerialAside
<1>5. ASSUME NEW c \in Calls, NEW k \in Kind, Reap(k, c) PROVE SerialInv'
  <2>1. /\ UNCHANGED <<th, count, flags, ioctl, stop, sig, acc, entry, logs>>
        /\ pc[k][c] = "exited" /\ pc' = [pc EXCEPT ![k][c] = "freed"]
    BY <1>5 DEF Reap, At, own
  <2>2. \A j \in Kind, d \in Calls :
          \/ pc'[j][d] = pc[j][d]
          \/ pc[j][d] = "exited" /\ pc'[j][d] = "freed"
    BY <2>1, ShapesHold DEF Shapes
  <2> QED
    BY <1>1, <2>1, <2>2, SerialAside
<1>6. CASE UNCHANGED vars
  BY <1>1, <1>6, SerialAside DEF vars, own
<1> QED
  BY <1>1, <1>2, <1>3, <1>4, <1>5, <1>6, SerialStart, SerialNop, SerialMeasure
     DEF Next

LEMMA SerialInit == Init => SerialInv
<1> SUFFICES ASSUME Init PROVE SerialInv
  OBVIOUS
<1>1. /\ TypeOK
      /\ \A c \in Calls : call[c] = "idle" /\ ~ InDriver(c)
      /\ \A k \in Kind, c \in Calls : pc[k][c] = "none" /\ ~ stop[k][c]
      /\ dmesg = <<>>
  BY TypeInit DEF Init, InDriver
<1> QED
  BY <1>1 DEF SerialInv, Exclusive, Phase, Stopping, Handshake, Gone, Kind,
              CountFollowsLabel

-----------------------------------------------------------------------------
(* The theorems                                                             *)

LEMMA SerialAlways ==
  ASSUME ~ Concurrent
  PROVE  Spec => []SerialInv
<1>1. Init => SerialInv
  BY SerialInit
<1>2. SerialInv /\ [Next]_vars => SerialInv'
  BY SerialStep
<1> QED
  BY <1>1, <1>2, PTL DEF Spec

\* The counter that INSTR's label announces counted from this entry's request
\* on, before the first run of the instruction, and through all of them.
THEOREM CounterCoversLoop ==
  ASSUME ~ Concurrent
  PROVE  Spec => []WindowCoversLoop
<1>1. SerialInv => WindowCoversLoop
  <2> SUFFICES ASSUME SerialInv, NEW c \in Calls,
                      pc["instr"][c] \in {"loop", "ask_print", "wait_print"}
               PROVE  count = Here(c)
    BY DEF WindowCoversLoop
  <2>1. InDriver(c)
    BY InstrRuns DEF InstrPC, InDriver
  <2> QED
    BY <2>1 DEF SerialInv, Handshake, Counting
<1> QED
  BY <1>1, SerialAlways, PTL

\* Every count that the NOP thread prints stands right after the label of the
\* entry it was counted for, where nop_parse looks for it.
THEOREM CountsStandBelowLabels ==
  ASSUME ~ Concurrent
  PROVE  Spec => []CountFollowsLabel
<1>1. SerialInv => CountFollowsLabel
  BY DEF SerialInv
<1> QED
  BY <1>1, SerialAlways, PTL

\* The threads of a call live as the call needs them: both start or neither
\* does, neither is stopped early, and none outlives the call.
THEOREM ThreadLifetimes ==
  ASSUME ~ Concurrent
  PROVE  Spec => [](StartTogether /\ NotStoppedWhileMeasuring
                    /\ NoThreadOutlivesCall)
<1>1. SerialInv => StartTogether /\ NotStoppedWhileMeasuring /\ NoThreadOutlivesCall
  <2> SUFFICES ASSUME SerialInv
               PROVE  StartTogether /\ NotStoppedWhileMeasuring /\ NoThreadOutlivesCall
    OBVIOUS
  <2>1. ASSUME NEW c \in Calls, NEW k \in Kind, pc[k][c] = "none"
        PROVE  \A j \in Kind : pc[j][c] \in {"none", "created"}
    <3>1. Phase(c) /\ call[c] \in CallPC
      BY DEF SerialInv, TypeOK
    <3> QED
      BY <2>1, <3>1 DEF Phase, Made, CallPC, NopPC, InstrPC, Through, Gone, Kind
  <2>2. ASSUME NEW c \in Calls, pc["instr"][c] \in InstrPC \ {"exit"}
        PROVE  /\ \A k \in Kind : ~ stop[k][c]
               /\ pc["nop"][c] \in NopPC \/ sig[c]
    <3>1. call[c] = "wait" /\ \A k \in Kind : ~ stop[k][c]
      BY <2>2, InstrRuns
    <3> QED
      BY <3>1 DEF SerialInv, Phase, Stopping, Kind
  <2>3. NoThreadOutlivesCall
    BY DEF SerialInv, Phase, NoThreadOutlivesCall, Gone, Ended, Kind
  <2> QED
    BY <2>1, <2>2, <2>3 DEF StartTogether, NotStoppedWhileMeasuring
<1> QED
  BY <1>1, SerialAlways, PTL

\* An ioctl faults in no other way than the two that FaultsKnown lists.
THEOREM NoOtherFault ==
  ASSUME ~ Concurrent
  PROVE  Spec => []FaultsKnown
<1>1. SerialInv => FaultsKnown
  <2> SUFFICES ASSUME SerialInv, NEW c \in Calls
               PROVE  /\ pc["nop"][c] # "oops"
                      /\ call[c] = "oops" =>
                           \/ \E k \in Kind : pc[k][c] = "none"
                           \/ pc["instr"][c] = "freed"
                           \/ pc["nop"][c] = "freed" /\ sig[c]
    BY DEF FaultsKnown
  <2>1. Phase(c) /\ call[c] \in CallPC
    BY DEF SerialInv, TypeOK
  <2>2. pc["nop"][c] # "oops"
    BY <2>1 DEF Phase, Made, CallPC, NopPC, Gone, Kind
  <2> QED
    BY <2>1, <2>2 DEF Phase
<1> QED
  BY <1>1, SerialAlways, PTL
=============================================================================
