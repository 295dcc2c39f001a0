-------------------------- MODULE RefinementProofs --------------------------
(***************************************************************************)
(* NopTimer implements SessionReport as long as clients take turns, for    *)
(* every set of calls and every program.  Every step is either quiet, one  *)
(* that SessionReport does not see or sees as the end of a report, or it   *)
(* logs a line or leaves an entry.  From the same steps follows what has   *)
(* been written when a call is past its wait.                              *)
(***************************************************************************)
EXTENDS HandshakeProofs, NopTimerRefinement

Measuring == {"wait_reset", "loop", "ask_print", "wait_print"}

\* The count of the entry that INSTR waits for is in the log.
Counted(c) == InDriver(c) /\ pc["instr"][c] = "wait_print" /\ ~ Labelled(c)

\* What the log and entry[c] owe to where the INSTR thread of c is.
Reporting(c) ==
  /\ pc["instr"][c] \in {"none", "created"} =>
       entry[c] = 1 /\ \A i \in DOMAIN dmesg : dmesg[i].window[1] # c
  /\ pc["instr"][c] \in Through => ~ Todo(c)
  /\ pc["instr"][c] \in Measuring => Todo(c) /\ Measured(Current(c))
  /\ Counted(c) => dmesg # <<>> /\ dmesg[Len(dmesg)].kind = "count"

ReportInv ==
  /\ SerialInv
  /\ \A c \in Calls : Reporting(c)
  /\ \A i \in DOMAIN dmesg : dmesg[i].window \in Window


-----------------------------------------------------------------------------
(* What SessionReport sees of a call                                        *)

LEMMA OwnerIs ==
  ASSUME SerialInv, NEW c \in Calls, InDriver(c)
  PROVE  Owner = c /\ Owner # NULL
<1>1. \A d \in Calls : InDriver(d) => d = c
  BY DEF SerialInv, Exclusive
<1> QED
  BY <1>1, NopTimerAssumption DEF Owner

LEMMA OwnerIsThen ==
  ASSUME SerialInv', NEW c \in Calls, InDriver(c)'
  PROVE  Owner' = c /\ Owner' # NULL
<1>1. \A d \in Calls : InDriver(d)' => d = c
  BY DEF SerialInv, Exclusive
<1> QED
  BY <1>1, NopTimerAssumption DEF Owner

LEMMA PlanFacts ==
  ASSUME TypeOK, NEW c \in Calls
  PROVE  /\ Len(PlanOf(action[c])) = Len(Program(c)) /\ Len(Program(c)) \in Nat
         /\ \A i \in 1 .. Len(Program(c)) :
              PlanOf(action[c])[i] = IF Skipped(Program(c)[i]) THEN "skip"
                                     ELSE IF Zeroed(Program(c)[i]) THEN "zero" ELSE "measure"
<1>1. /\ DOMAIN Program(c) = 1 .. Len(Program(c)) /\ Len(Program(c)) \in Nat
  BY NopTimerAssumption DEF Program
<1>2. PlanOf(action[c]) = [i \in 1 .. Len(Program(c)) |->
        IF Skipped(Program(c)[i]) THEN "skip"
        ELSE IF Zeroed(Program(c)[i]) THEN "zero" ELSE "measure"]
  BY <1>1 DEF PlanOf, Program
<1> HIDE DEF Program
<1>3. Len(PlanOf(action[c])) = Len(Program(c))
  BY <1>1, <1>2
<1> QED
  BY <1>1, <1>2, <1>3

-----------------------------------------------------------------------------
(* Quiet steps                                                              *)

InstrMoves(c) ==
  \/ pc'["instr"][c] = pc["instr"][c]
  \/ pc["instr"][c] = "none" /\ pc'["instr"][c] = "created"
  \/ pc["instr"][c] = "created" /\ pc'["instr"][c] = "entry"
  \/ pc["instr"][c] = "entry" /\ ~ Todo(c) /\ pc'["instr"][c] = "exit"
  \/ /\ pc["instr"][c] = "entry" /\ Todo(c) /\ Measured(Current(c))
     /\ pc'["instr"][c] = "wait_reset"
  \/ pc["instr"][c] = "wait_reset" /\ pc'["instr"][c] = "loop"
  \/ pc["instr"][c] = "loop" /\ pc'["instr"][c] = "oops"
  \/ pc["instr"][c] = "ask_print" /\ pc'["instr"][c] = "wait_print"
  \/ pc["instr"][c] \in Through /\ pc'["instr"][c] \in Through

\* The log, the entries and the programs of calls under way stay as they are.
Quiet ==
  /\ UNCHANGED <<dmesg, entry>>
  /\ \A c \in Calls :
       /\ action'[c] # action[c] => ~ InDriver(c) /\ pc["instr"][c] = "none"
       /\ Counted(c)' => Counted(c)
       /\ InstrMoves(c)

LEMMA QuietKeeps ==
  ASSUME ReportInv, SerialInv', Quiet
  PROVE  ReportInv'
<1>1. ASSUME NEW c \in Calls PROVE Reporting(c)'
  <2>1. /\ Reporting(c) /\ entry'[c] = entry[c] /\ dmesg' = dmesg
        /\ Counted(c)' => Counted(c)
    BY DEF ReportInv, Quiet
  <2>2. CASE action'[c] = action[c]
    <3>1. (Todo(c)' <=> Todo(c)) /\ (Measured(Current(c))' <=> Measured(Current(c)))
      BY <2>1, <2>2 DEF Todo, Current, Program, Measured, Skipped, Zeroed
    <3>2. /\ pc["instr"][c] \in Through => ~ Todo(c)
          /\ pc["instr"][c] \in Measuring => Todo(c) /\ Measured(Current(c))
          /\ pc["instr"][c] \in {"none", "created"} =>
               entry[c] = 1 /\ \A i \in DOMAIN dmesg : dmesg[i].window[1] # c
          /\ Counted(c) => dmesg # <<>> /\ dmesg[Len(dmesg)].kind = "count"
      BY <2>1 DEF Reporting
    <3>3. /\ pc'["instr"][c] \in Through => ~ Todo(c)
          /\ pc'["instr"][c] \in Measuring => Todo(c) /\ Measured(Current(c))
          /\ pc'["instr"][c] \in {"none", "created"} => pc["instr"][c] \in {"none", "created"}
      BY <3>2 DEF Quiet, InstrMoves, Through, Gone, Measuring
    <3> QED
      BY <2>1, <3>1, <3>2, <3>3 DEF Reporting
  <2>3. CASE action'[c] # action[c]
    <3>1. pc["instr"][c] = "none" /\ pc'["instr"][c] \in {"none", "created"}
      BY <2>3 DEF Quiet, InstrMoves, Through, Gone
    <3> QED
      BY <2>1, <3>1 DEF Reporting, Through, Gone, Measuring
  <2> QED
    BY <2>2, <2>3
<1>2. (\A i \in DOMAIN dmesg : dmesg[i].window \in Window)'
  BY DEF ReportInv, Quiet
<1> QED
  BY <1>1, <1>2 DEF ReportInv

\* Whoever is in the driver stays, or leaves with the report complete or not begun.
LEMMA QuietStep ==
  ASSUME ReportInv, ReportInv', Quiet, \A c \in Calls : InDriver(c)' => InDriver(c)
  PROVE  Report!Next \/ UNCHANGED Report!vars
<1>1. CASE \A c \in Calls : ~ InDriver(c)
  <2>1. Owner = NULL /\ Owner' = NULL /\ dmesg' = dmesg
    BY <1>1 DEF Owner, Quiet
  <2> QED
    BY <2>1 DEF Report!vars
<1>2. ASSUME NEW c \in Calls, InDriver(c)
      PROVE  Report!Next \/ UNCHANGED Report!vars
  <2>1. /\ Owner = c /\ Owner # NULL
        /\ dmesg' = dmesg /\ entry'[c] = entry[c] /\ action'[c] = action[c]
        /\ \A d \in Calls : d # c => ~ InDriver(d)
    BY <1>2, OwnerIs DEF ReportInv, SerialInv, Exclusive, Quiet
  <2>2. StepOf(c)' = StepOf(c)
    BY <2>1 DEF StepOf, Quiet, InstrMoves, Through, Gone
  <2>3. CASE InDriver(c)'
    <3>1. Owner' = c /\ Owner' # NULL
      BY <2>3, OwnerIsThen DEF ReportInv
    <3>2. PlanOf(action[c])' = PlanOf(action[c])
      BY <2>1 DEF PlanOf, Skipped, Zeroed
    <3>3. (PlanOf(action[Owner]) = PlanOf(action[c]))
          /\ (PlanOf(action[Owner])' = PlanOf(action[c])')
      BY <2>1, <3>1
    <3>4. StepOf(Owner) = StepOf(c) /\ StepOf(Owner)' = StepOf(c)'
      BY <2>1, <3>1
    <3> QED
      BY <2>1, <2>2, <3>1, <3>2, <3>3, <3>4 DEF Report!vars
  <2>4. CASE ~ InDriver(c)'
    <3>1. Owner' = NULL
      <4>1. \A d \in Calls : ~ InDriver(d)'
        BY <2>1, <2>4
      <4> QED
        BY <4>1 DEF Owner
    <3>2. pc'["instr"][c] \in {"none", "created"} \cup Through
      <4>1. Phase(c)' /\ call'[c] \in {"idle", "done", "oops"}
        BY <2>4 DEF ReportInv, SerialInv, InDriver
      <4> QED
        BY <4>1 DEF Phase, Through, Gone, Kind
    <3>3. \/ ~ Todo(c)
          \/ \A i \in DOMAIN dmesg : dmesg[i].window[1] # c
      <4>1. Reporting(c)'
        BY DEF ReportInv
      <4>2. Todo(c)' <=> Todo(c)
        BY <2>1 DEF Todo, Program
      <4> QED
        BY <2>1, <3>2, <4>1, <4>2 DEF Reporting
    <3>4. ~ Todo(c) => entry[c] > Len(PlanOf(action[c]))
      BY PlanFacts DEF Todo, ReportInv, SerialInv, TypeOK
    <3>5. StepOf(c) = "next"
      <4>1. StepOf(c)' = "next"
        BY <3>2 DEF StepOf, Through, Gone
      <4> QED
        BY <2>2, <4>1
    <3>6. Report!End
      BY <2>1, <3>1, <3>3, <3>4, <3>5 DEF Report!End, Report!Rest
    <3> QED
      BY <3>6 DEF Report!Next
  <2> QED
    BY <2>3, <2>4
<1> QED
  BY <1>1, <1>2

-----------------------------------------------------------------------------
(* Steps that log a line or leave an entry                                  *)

\* Nothing that belongs to another call changes.
LoudAt(c) ==
  /\ InDriver(c)
  /\ UNCHANGED <<call, action>>
  /\ \A d \in Calls : d # c => pc'["instr"][d] = pc["instr"][d] /\ entry'[d] = entry[d]

LogsOwn(c) == \E k \in {"zero", "label", "count"} : dmesg' = Append(dmesg, Line(k, Here(c)))

LEMMA OwnLine ==
  ASSUME TypeOK, NEW c \in Calls, NEW k \in {"zero", "label", "count"},
         dmesg' = Append(dmesg, Line(k, Here(c)))
  PROVE  /\ DOMAIN dmesg = 1 .. Len(dmesg) /\ Len(dmesg) \in Nat
         /\ DOMAIN dmesg' = 1 .. Len(dmesg) + 1 /\ Len(dmesg') = Len(dmesg) + 1
         /\ dmesg' # <<>>
         /\ dmesg'[Len(dmesg')].kind = k /\ dmesg'[Len(dmesg')].window = Here(c)
         /\ \A i \in 1 .. Len(dmesg) : dmesg'[i] = dmesg[i]
         /\ Here(c) \in Window /\ Here(c)[1] = c
<1>1. dmesg \in Seq(Lines) /\ Here(c) \in Window /\ Here(c)[1] = c
  BY DEF TypeOK, Here, Window
<1>2. /\ Line(k, Here(c)) \in Lines
      /\ Line(k, Here(c)).kind = k /\ Line(k, Here(c)).window = Here(c)
  BY <1>1, LineType DEF Line
<1> HIDE DEF Lines, Line, Here, Window
<1> QED
  BY <1>1, <1>2

LEMMA LoudKeeps ==
  ASSUME ReportInv, SerialInv', NEW c \in Calls, LoudAt(c), Reporting(c)',
         UNCHANGED dmesg \/ LogsOwn(c)
  PROVE  ReportInv'
<1>1. TypeOK
  BY DEF ReportInv, SerialInv
<1>2. \A d \in Calls : d # c => ~ InDriver(d)' /\ action'[d] = action[d]
  BY DEF LoudAt, InDriver, ReportInv, SerialInv, Exclusive
<1>3. ASSUME NEW d \in Calls, d # c,
             \A i \in DOMAIN dmesg : dmesg[i].window[1] # d
      PROVE  \A i \in DOMAIN dmesg' : dmesg'[i].window[1] # d
  <2>1. CASE LogsOwn(c)
    <3>1. PICK k \in {"zero", "label", "count"} : dmesg' = Append(dmesg, Line(k, Here(c)))
      BY <2>1 DEF LogsOwn
    <3> QED
      BY <1>1, <1>3, <3>1, OwnLine
  <2> QED
    BY <1>3, <2>1
<1>4. (\A i \in DOMAIN dmesg : dmesg[i].window \in Window)'
  <2>1. CASE LogsOwn(c)
    <3>1. PICK k \in {"zero", "label", "count"} : dmesg' = Append(dmesg, Line(k, Here(c)))
      BY <2>1 DEF LogsOwn
    <3> QED
      BY <1>1, <3>1, OwnLine DEF ReportInv
  <2> QED
    BY <2>1 DEF ReportInv
<1>5. ASSUME NEW d \in Calls, d # c PROVE Reporting(d)'
  <2>1. /\ Reporting(d) /\ ~ Counted(d)'
        /\ pc'["instr"][d] = pc["instr"][d] /\ entry'[d] = entry[d]
    BY <1>2, <1>5 DEF ReportInv, LoudAt, Counted
  <2>2. (Todo(d)' <=> Todo(d)) /\ (Measured(Current(d))' <=> Measured(Current(d)))
    BY <1>2, <1>5, <2>1 DEF Todo, Current, Program, Measured, Skipped, Zeroed
  <2> QED
    BY <1>3, <1>5, <2>1, <2>2 DEF Reporting
<1> QED
  BY <1>4, <1>5 DEF ReportInv

LEMMA LoudView ==
  ASSUME ReportInv, SerialInv', NEW c \in Calls, LoudAt(c)
  PROVE  /\ Owner = c /\ Owner' = c /\ NULL # c
         /\ PlanOf(action[Owner])' = PlanOf(action[Owner])
         /\ StepOf(Owner) = StepOf(c) /\ StepOf(Owner)' = StepOf(c)'
<1>1. InDriver(c) /\ InDriver(c)' /\ action' = action
  BY DEF LoudAt, InDriver
<1>2. Owner = c /\ Owner' = c /\ NULL # c
  BY <1>1, OwnerIs, OwnerIsThen DEF ReportInv
<1>3. PlanOf(action[Owner])' = PlanOf(action[Owner])
  BY <1>1, <1>2 DEF PlanOf, Skipped, Zeroed
<1> QED
  BY <1>2, <1>3

\* What the entry asks for, in the words of SessionReport.
LEMMA OwesFacts ==
  ASSUME ReportInv, SerialInv', NEW c \in Calls, LoudAt(c), Todo(c)
  PROVE  /\ Skipped(Current(c)) => Report!Owes("skip")
         /\ Zeroed(Current(c)) => Report!Owes("zero")
         /\ Measured(Current(c)) => Report!Owes("measure")
<1>1. entry[c] \in 1 .. Len(Program(c)) /\ TypeOK
  BY PlanFacts DEF Todo, ReportInv, SerialInv, TypeOK
<1>2. /\ entry[c] <= Len(PlanOf(action[c]))
      /\ PlanOf(action[c])[entry[c]] = IF Skipped(Current(c)) THEN "skip"
                                       ELSE IF Zeroed(Current(c)) THEN "zero" ELSE "measure"
  BY <1>1, PlanFacts DEF Current
<1>3. Owner = c /\ NULL # c
  BY LoudView
<1>4. Zeroed(Current(c)) => ~ Skipped(Current(c))
  BY DEF Zeroed
<1> QED
  BY <1>2, <1>3, <1>4 DEF Report!Owes, Measured

\* An entry that is not measured logs a zero, or nothing.
LEMMA PassReports ==
  ASSUME ReportInv, SerialInv', NEW c \in Calls, InstrPass(c)
  PROVE  ReportInv' /\ Report!Pass /\ LoudAt(c) /\ entry'[c] = entry[c] + 1
<1>1. /\ pc["instr"][c] = "entry" /\ pc' = pc
      /\ Todo(c) /\ ~ Measured(Current(c))
      /\ entry' = [entry EXCEPT ![c] = @ + 1]
      /\ dmesg' = IF Skipped(Current(c)) THEN dmesg
                  ELSE Append(dmesg, Line("zero", Here(c)))
  BY DEF InstrPass
<1>2. LoudAt(c) /\ entry'[c] = entry[c] + 1
  BY <1>1, InstrRuns DEF InstrPass, instrRest, ioctl, LoudAt, InDriver, InstrPC,
                         ReportInv, SerialInv, TypeOK
<1>3. Reporting(c)'
  BY <1>1 DEF Reporting, Through, Gone, Measuring, Counted
<1>4. ReportInv'
  BY <1>1, <1>2, <1>3, LoudKeeps DEF LogsOwn
<1>5. StepOf(c) = "next" /\ StepOf(c)' = "next"
  BY <1>1 DEF StepOf
<1>6. CASE Skipped(Current(c))
  BY <1>1, <1>2, <1>4, <1>5, <1>6, LoudView, OwesFacts DEF Report!Pass
<1>7. CASE ~ Skipped(Current(c))
  <2>1. Zeroed(Current(c))
    BY <1>1, <1>7 DEF Measured
  <2>2. Report!Owes("zero")
    BY <1>1, <1>2, <2>1, OwesFacts
  <2> QED
    BY <1>1, <1>2, <1>4, <1>5, <1>7, <2>2, LoudView
       DEF Report!Pass, Report!Line, Line, Here
<1> QED
  BY <1>6, <1>7

\* The label comes after the loop,
LEMMA LoopReports ==
  ASSUME ReportInv, SerialInv', NEW c \in Calls, InstrLoop(c)
  PROVE  /\ ReportInv' /\ Report!Label
         /\ LoudAt(c) /\ pc'["instr"][c] = "ask_print" /\ Todo(c) /\ Measured(Current(c))
<1>1. /\ pc["instr"][c] = "loop" /\ pc' = [pc EXCEPT !["instr"][c] = "ask_print"]
      /\ entry' = entry /\ dmesg' = Append(dmesg, Line("label", Here(c)))
      /\ UNCHANGED <<call, action>>
  BY DEF InstrLoop, At, instrRest, ioctl
<1>2. /\ pc'["instr"][c] = "ask_print"
      /\ \A d \in Calls : d # c => pc'["instr"][d] = pc["instr"][d]
  BY <1>1, ShapesHold DEF ReportInv, Shapes, Kind
<1>3. LoudAt(c)
  BY <1>1, <1>2, InstrRuns DEF LoudAt, InDriver, InstrPC, ReportInv
<1>4. Todo(c) /\ Measured(Current(c))
  BY <1>1 DEF ReportInv, Reporting, Measuring
<1>5. Todo(c)' /\ Measured(Current(c))'
  BY <1>1, <1>4 DEF Todo, Current, Program, Measured, Skipped, Zeroed
<1>6. Reporting(c)'
  BY <1>2, <1>5 DEF Reporting, Through, Gone, Measuring, Counted
<1>7. ReportInv'
  BY <1>1, <1>3, <1>6, LoudKeeps DEF LogsOwn
<1>8. StepOf(c) = "next" /\ StepOf(c)' = "labelled"
  BY <1>1, <1>2, OwnLine DEF StepOf, ReportInv, SerialInv
<1> QED
  BY <1>1, <1>2, <1>3, <1>4, <1>7, <1>8, LoudView, OwesFacts
     DEF Report!Label, Report!Line, Line, Here

\* ... the count right after the label,
LEMMA CountReports ==
  ASSUME ReportInv, SerialInv', NEW c \in Calls, NopCheckPrint(c), print_count
  PROVE  /\ ReportInv' /\ Report!Count
         /\ LoudAt(c) /\ Labelled(c) /\ Todo(c) /\ Measured(Current(c))
         /\ pc["instr"][c] = "wait_print" /\ pc'["instr"] = pc["instr"] /\ count = Here(c)
<1>1. /\ pc["nop"][c] = "check_print" /\ pc' = [pc EXCEPT !["nop"][c] = "ack_print"]
      /\ entry' = entry /\ dmesg' = Append(dmesg, Line("count", count))
      /\ UNCHANGED <<call, action>>
  BY DEF NopCheckPrint, At, nopRest, ioctl
<1>2. pc'["instr"] = pc["instr"]
  BY <1>1, ShapesHold DEF ReportInv, Shapes, Kind
<1>3. InDriver(c) /\ Handshake(c) /\ TypeOK
  BY <1>1, NopRuns DEF NopPC, ReportInv, SerialInv
<1>4. pc["instr"][c] = "wait_print" /\ count = Here(c)
  BY <1>3 DEF Handshake, Counting
<1>5. Labelled(c) /\ dmesg # <<>> /\ dmesg[Len(dmesg)].kind = "label"
  BY <1>1, <1>3, <1>4 DEF Handshake, Labelled, Line
<1>6. LoudAt(c) /\ LogsOwn(c)
  BY <1>1, <1>2, <1>3, <1>4 DEF LoudAt, LogsOwn
<1>7. dmesg' # <<>> /\ dmesg'[Len(dmesg')].kind = "count"
  BY <1>1, <1>3, <1>4, OwnLine
<1>8. Todo(c) /\ Measured(Current(c))
  BY <1>4 DEF ReportInv, Reporting, Measuring
<1>9. Reporting(c)'
  <2>1. Todo(c)' /\ Measured(Current(c))'
    BY <1>1, <1>8 DEF Todo, Current, Program, Measured, Skipped, Zeroed
  <2> QED
    BY <1>2, <1>4, <1>7, <2>1 DEF Reporting, Through, Gone, Measuring
<1>10. ReportInv'
  BY <1>6, <1>9, LoudKeeps
<1>11. StepOf(c) = "labelled" /\ StepOf(c)' = "counted"
  BY <1>2, <1>4, <1>5, <1>7 DEF StepOf
<1> QED
  BY <1>1, <1>2, <1>4, <1>5, <1>6, <1>8, <1>10, <1>11, LoudView DEF Report!Count, Report!Line, Line, Here

\* ... and INSTR leaves the entry once it is there.
LEMMA AwaitReports ==
  ASSUME ReportInv, SerialInv', NEW c \in Calls, InstrAwaitPrint(c)
  PROVE  /\ ReportInv' /\ Report!Advance
         /\ LoudAt(c) /\ pc'["instr"][c] = "entry" /\ entry'[c] = entry[c] + 1
         /\ ~ Labelled(c) /\ Todo(c) /\ Measured(Current(c))
<1>1. /\ pc["instr"][c] = "wait_print" /\ pc' = [pc EXCEPT !["instr"][c] = "entry"]
      /\ entry' = [entry EXCEPT ![c] = @ + 1] /\ dmesg' = dmesg
      /\ UNCHANGED <<call, action>>
  BY DEF InstrAwaitPrint, At, instrRest, ioctl, logs
<1>2. /\ pc'["instr"][c] = "entry"
      /\ \A d \in Calls : d # c => pc'["instr"][d] = pc["instr"][d]
  BY <1>1, ShapesHold DEF ReportInv, Shapes, Kind
<1>3. InDriver(c) /\ ~ stop["instr"][c]
  BY <1>1, InstrRuns DEF InDriver, InstrPC, ReportInv, Kind
<1>4. LoudAt(c) /\ entry'[c] = entry[c] + 1
  BY <1>1, <1>2, <1>3 DEF LoudAt, ReportInv, SerialInv, TypeOK
<1>5. dmesg[Len(dmesg)].kind = "count" /\ ~ Labelled(c)
  <2>1. Counted(c)
    BY <1>1, <1>3 DEF InstrAwaitPrint, Counted, Labelled
  <2> QED
    BY <2>1 DEF ReportInv, Reporting, Counted
<1>6. Reporting(c)'
  BY <1>2 DEF Reporting, Through, Gone, Measuring, Counted
<1>7. ReportInv'
  BY <1>1, <1>4, <1>6, LoudKeeps
<1>8. StepOf(c) = "counted" /\ StepOf(c)' = "next"
  BY <1>1, <1>2, <1>5 DEF StepOf
<1>9. Todo(c) /\ Measured(Current(c))
  BY <1>1 DEF ReportInv, Reporting, Measuring
<1> QED
  BY <1>1, <1>2, <1>4, <1>5, <1>7, <1>8, <1>9, LoudView DEF Report!Advance

-----------------------------------------------------------------------------
(* Every other step is quiet                                                *)

\* Steps that no client starts a call with, and that leave print_count alone.
Aside ==
  /\ UNCHANGED <<dmesg, entry, action, print_count>>
  /\ \A c \in Calls :
       /\ InDriver(c)' => InDriver(c)
       /\ pc'["nop"][c] = "ack_print" => pc["nop"][c] = "ack_print"
       /\ InstrMoves(c) /\ ~ (pc["instr"][c] = "ask_print" /\ pc'["instr"][c] = "wait_print")

LEMMA AsideQuiet ==
  ASSUME Aside
  PROVE  Quiet /\ \A c \in Calls : InDriver(c)' => InDriver(c)
BY DEF Aside, Quiet, InstrMoves, Counted, Labelled, Through, Gone

LEMMA CallAside ==
  ASSUME SerialInv, NEW c \in Calls, CallStep(c)
  PROVE  Aside
<1> Shapes
  BY ShapesHold
<1> USE DEF Shapes, Goto, flags, own, logs
<1>1. /\ UNCHANGED <<dmesg, entry, action, print_count>>
      /\ InDriver(c) /\ \E to : call' = [call EXCEPT ![c] = to]
  BY DEF CallStep, Create, BindThreads, Wake, WaitFinish, Stop, Join, InDriver
<1>2. \A d \in Calls : InDriver(d)' => InDriver(d)
  BY <1>1 DEF InDriver
<1>3. ASSUME NEW k \in Kind, NEW d \in Calls, NEW to \in {"created", "head", "entry", "exited"},
             pc' = [pc EXCEPT ![k][d] = to],
             k = "instr" => \/ pc["instr"][d] = "none" /\ to = "created"
                            \/ pc["instr"][d] = "created" /\ to = "entry"
      PROVE  Aside
  BY <1>1, <1>2, <1>3 DEF Aside, InstrMoves, Kind
<1>4. CASE UNCHANGED pc
  BY <1>1, <1>2, <1>4 DEF Aside, InstrMoves
<1>5. CASE Create(c, "nop", "create_nop", "create_instr")
  BY <1>3, <1>4, <1>5 DEF Create, Kind
<1>6. CASE Create(c, "instr", "create_instr", "bind")
  <2>1. pc["instr"][c] = "none"
    BY <1>6 DEF Create, SerialInv, Phase
  <2> QED
    BY <1>3, <1>4, <1>6, <2>1 DEF Create, Kind
<1>7. ASSUME NEW k \in Kind, NEW first, NEW from, NEW to, Wake(c, k, first, from, to),
             \/ k = "nop" /\ first = "head"
             \/ k = "instr" /\ first = "entry"
      PROVE  Aside
  <2>1. CASE MayPass(k) /\ pc' = [pc EXCEPT ![k][th[k]] = IF @ = "created" THEN first ELSE @]
    <3>1. CASE pc[k][th[k]] = "created"
      <4>1. pc' = [pc EXCEPT ![k][th[k]] = first]
        BY <2>1, <3>1
      <4> QED
        BY <1>3, <1>7, <2>1, <3>1, <4>1 DEF MayPass
    <3>2. CASE pc[k][th[k]] # "created"
      BY <1>4, <2>1, <3>2
    <3> QED
      BY <3>1, <3>2
  <2> QED
    BY <1>4, <1>7, <2>1 DEF Wake
<1>8. ASSUME NEW k \in Kind, NEW from, NEW join, NEW next, Stop(c, k, from, join, next),
             \/ k = "nop" /\ from = "stop_nop"
             \/ k = "instr" /\ from = "stop_instr"
      PROVE  Aside
  <2>1. CASE Valid(k)
    <3>1. /\ pc' = [pc EXCEPT ![k][th[k]] = IF @ = "created" THEN "exited" ELSE @]
          /\ th[k] \in Calls
      BY <1>8, <2>1 DEF Stop, Valid
    <3>2. k = "instr" => pc[k][th[k]] # "created"
      BY <1>8 DEF Stop, SerialInv, Phase, Through, Gone
    <3>3. CASE pc[k][th[k]] = "created"
      <4>1. pc' = [pc EXCEPT ![k][th[k]] = "exited"]
        BY <3>1, <3>3
      <4> QED
        BY <1>3, <1>8, <3>1, <3>2, <3>3, <4>1
    <3>4. CASE pc[k][th[k]] # "created"
      BY <1>4, <3>1, <3>4
    <3> QED
      BY <3>3, <3>4
  <2> QED
    BY <1>4, <1>8, <2>1 DEF Stop
<1>9. CASE \/ BindThreads(c) \/ WaitFinish(c)
           \/ Join(c, "join_nop", "stop_instr") \/ Join(c, "join_instr", "done")
  BY <1>4, <1>9 DEF BindThreads, WaitFinish, Join
<1> QED
  BY <1>5, <1>6, <1>7, <1>8, <1>9 DEF CallStep, Kind

LEMMA NopAside ==
  ASSUME SerialInv, NEW c \in Calls, NopStep(c),
         ~ (NopCheckPrint(c) /\ print_count), ~ NopAckPrint(c)
  PROVE  Aside
<1>1. /\ UNCHANGED <<dmesg, entry, action, call, print_count>>
      /\ \E from : \E to \in {"exited", "oops", "head", "check_reset", "ack_reset",
                              "check_print", "load", "store"} : At("nop", c, from, to)
  BY DEF NopStep, NopHead, NopCheckReset, NopAckReset, NopCheckPrint, NopAckPrint,
         NopLoad, NopStore, nopRest, ioctl
<1>2. /\ pc'["instr"] = pc["instr"]
      /\ \A d \in Calls : pc'["nop"][d] = "ack_print" => pc["nop"][d] = "ack_print"
  BY <1>1, ShapesHold DEF At, Shapes, Kind
<1> QED
  BY <1>1, <1>2 DEF Aside, InstrMoves, InDriver

LEMMA InstrAside ==
  ASSUME SerialInv, NEW c \in Calls, InstrStep(c),
         ~ InstrPass(c), ~ InstrLoop(c), ~ InstrAskPrint(c), ~ InstrAwaitPrint(c)
  PROVE  Aside
<1>1. UNCHANGED <<dmesg, entry, action, call, print_count>>
  BY DEF InstrStep, InstrRequestReset, InstrAwaitReset, InstrFault, InstrFinish,
         InstrExit, instrRest, ioctl, flags, logs
<1>2. \E from, to :
        /\ At("instr", c, from, to)
        /\ \/ from = "entry" /\ Todo(c) /\ Measured(Current(c)) /\ to = "wait_reset"
           \/ from = "wait_reset" /\ to = "loop"
           \/ from = "loop" /\ to = "oops"
           \/ from = "entry" /\ ~ Todo(c) /\ to = "exit"
           \/ from = "exit" /\ to = "exited"
  BY DEF InstrStep, InstrRequestReset, InstrAwaitReset, InstrFault, InstrFinish, InstrExit
<1>3. /\ pc'["nop"] = pc["nop"] /\ InstrMoves(c)
      /\ \A d \in Calls : d # c => InstrMoves(d)
      /\ pc["instr"][c] # "ask_print"
      /\ \A d \in Calls : d # c => pc'["instr"][d] = pc["instr"][d]
  BY <1>2, ShapesHold DEF At, Shapes, Kind, InstrMoves, Through, Gone
<1> QED
  BY <1>1, <1>3 DEF Aside, InDriver

\* The two ends of the handshake for the count change print_count.
LEMMA PrintQuiet ==
  ASSUME SerialInv, NEW c \in Calls, InstrAskPrint(c) \/ NopAckPrint(c)
  PROVE  Quiet /\ \A d \in Calls : InDriver(d)' => InDriver(d)
<1>1. UNCHANGED <<dmesg, entry, action, call>>
  BY DEF InstrAskPrint, NopAckPrint, instrRest, nopRest, ioctl, logs
<1>2. \A d \in Calls : InDriver(d)' <=> InDriver(d)
  BY <1>1 DEF InDriver
<1>3. InDriver(c) /\ Handshake(c) /\ \A d \in Calls : d # c => ~ InDriver(d)
  <2>1. pc["instr"][c] \in InstrPC \ {"exit"} \/ pc["nop"][c] \in NopPC
    BY DEF InstrAskPrint, NopAckPrint, At, InstrPC, NopPC
  <2>2. InDriver(c)
    BY <2>1, InstrRuns, NopRuns DEF InDriver
  <2> QED
    BY <2>2 DEF SerialInv, Exclusive
<1>4. CASE InstrAskPrint(c)
  <2>1. /\ pc["instr"][c] = "ask_print" /\ pc'["instr"][c] = "wait_print" /\ print_count'
        /\ pc'["nop"] = pc["nop"]
        /\ \A d \in Calls : d # c => pc'["instr"][d] = pc["instr"][d]
    BY <1>4, ShapesHold DEF InstrAskPrint, At, Shapes, Kind
  <2>2. pc["nop"][c] # "ack_print"
    BY <1>3, <2>1 DEF Handshake
  <2>3. ~ Counted(c)'
    BY <2>1, <2>2 DEF Counted, Labelled
  <2> QED
    BY <1>1, <1>2, <1>3, <2>1, <2>3 DEF Quiet, InstrMoves, Counted
<1>5. CASE NopAckPrint(c)
  <2>1. pc["nop"][c] = "ack_print" /\ pc'["instr"] = pc["instr"]
    BY <1>5, ShapesHold DEF NopAckPrint, At, Shapes, Kind
  <2>2. Counted(c)' => Counted(c)
    BY <1>2, <2>1 DEF Counted, Labelled
  <2> QED
    BY <1>1, <1>2, <1>3, <2>1, <2>2 DEF Quiet, InstrMoves, Counted
<1> QED
  BY <1>4, <1>5

LEMMA KernelAside ==
  ASSUME SerialInv,
         (\E c \in Calls : Kill(c) \/ \E k \in Kind : Reap(k, c)) \/ UNCHANGED vars
  PROVE  Aside
<1>1. ASSUME NEW c \in Calls, Kill(c) PROVE Aside
  BY <1>1 DEF Kill, Aside, InstrMoves, InDriver, flags, ioctl, own, logs
<1>2. ASSUME NEW c \in Calls, NEW k \in Kind, Reap(k, c) PROVE Aside
  <2>1. \A d \in Calls :
          /\ \/ pc'["instr"][d] = pc["instr"][d]
             \/ pc["instr"][d] = "exited" /\ pc'["instr"][d] = "freed"
          /\ pc'["nop"][d] = "ack_print" => pc["nop"][d] = "ack_print"
    BY <1>2, ShapesHold DEF Reap, At, Shapes, Kind
  <2> QED
    BY <1>2, <2>1 DEF Reap, Aside, InstrMoves, InDriver, Through, Gone, flags, ioctl, own, logs
<1>3. CASE UNCHANGED vars
  BY <1>3 DEF vars, Aside, InstrMoves, InDriver, flags, ioctl, own, logs
<1> QED
  BY <1>1, <1>2, <1>3

-----------------------------------------------------------------------------
(* The refinement                                                           *)

LEMMA StartQuiet ==
  ASSUME ~ Concurrent, ReportInv, SerialInv', NEW c \in Calls, Start(c)
  PROVE  Quiet
<1>1. /\ call[c] = "idle" /\ call' = [call EXCEPT ![c] = "create_nop"]
      /\ \E a \in BOOLEAN : action' = [action EXCEPT ![c] = a]
      /\ UNCHANGED <<pc, entry, dmesg>> /\ \A d \in Calls : ~ InDriver(d)
  BY DEF Start, Goto, own, logs
<1>2. pc["instr"][c] = "none"
  BY <1>1 DEF ReportInv, SerialInv, Phase, Kind
<1>3. \A d \in Calls : d # c => action'[d] = action[d] /\ ~ InDriver(d)'
  BY <1>1 DEF InDriver, ReportInv, SerialInv, TypeOK
<1>4. \A d \in Calls : ~ Counted(d)'
  BY <1>1, <1>2, <1>3 DEF Counted
<1> QED
  BY <1>1, <1>2, <1>3, <1>4 DEF Quiet, InstrMoves

LEMMA StartReports ==
  ASSUME ~ Concurrent, ReportInv, SerialInv', NEW c \in Calls, Start(c)
  PROVE  ReportInv' /\ \E d \in Calls : Report!Begin(d)
<1>1. /\ call[c] = "idle" /\ call' = [call EXCEPT ![c] = "create_nop"]
      /\ \E a \in BOOLEAN : action' = [action EXCEPT ![c] = a]
      /\ UNCHANGED <<pc, entry, dmesg>> /\ \A d \in Calls : ~ InDriver(d)
  BY DEF Start, Goto, own, logs
<1>2. pc["instr"][c] = "none" /\ entry[c] = 1
  BY <1>1 DEF ReportInv, SerialInv, Phase, Reporting, Kind
<1>3. /\ InDriver(c)' /\ action'[c] \in BOOLEAN
      /\ \A d \in Calls : d # c => action'[d] = action[d] /\ ~ InDriver(d)'
  BY <1>1 DEF InDriver, ReportInv, SerialInv, TypeOK
<1>4. Quiet
  BY StartQuiet
<1>5. ReportInv'
  BY <1>4, QuietKeeps
<1>6. Owner = NULL /\ Owner' = c /\ Owner' # NULL
  BY <1>1, <1>3, OwnerIsThen DEF Owner
<1>7. StepOf(c)' = "next"
  BY <1>1, <1>2 DEF StepOf
<1>8. PlanOf(action[Owner])' = [a \in BOOLEAN |-> PlanOf(a)][action'[c]]
  BY <1>3, <1>6 DEF PlanOf, Skipped, Zeroed
<1>9. Report!Begin(c)
  BY <1>1, <1>2, <1>3, <1>6, <1>7, <1>8 DEF Report!Begin
<1> QED
  BY <1>5, <1>9

LEMMA ReportStep ==
  ASSUME ~ Concurrent, ReportInv, [Next]_vars
  PROVE  ReportInv' /\ (Report!Next \/ UNCHANGED Report!vars)
<1>1. SerialInv /\ SerialInv'
  BY SerialStep DEF ReportInv
<1>2. ASSUME Quiet, \A c \in Calls : InDriver(c)' => InDriver(c)
      PROVE  ReportInv' /\ (Report!Next \/ UNCHANGED Report!vars)
  BY <1>1, <1>2, QuietKeeps, QuietStep
<1>3. ASSUME Aside
      PROVE  ReportInv' /\ (Report!Next \/ UNCHANGED Report!vars)
  BY <1>2, <1>3, AsideQuiet
<1>4. ASSUME NEW c \in Calls, Start(c)
      PROVE  ReportInv' /\ (Report!Next \/ UNCHANGED Report!vars)
  BY <1>1, <1>4, StartReports DEF Report!Next
<1>5. ASSUME NEW c \in Calls, CallStep(c)
      PROVE  ReportInv' /\ (Report!Next \/ UNCHANGED Report!vars)
  BY <1>1, <1>3, <1>5, CallAside
<1>6. ASSUME NEW c \in Calls, NopStep(c)
      PROVE  ReportInv' /\ (Report!Next \/ UNCHANGED Report!vars)
  <2>1. CASE NopCheckPrint(c) /\ print_count
    BY <1>1, <2>1, CountReports DEF Report!Next
  <2>2. CASE NopAckPrint(c)
    BY <1>1, <1>2, <2>2, PrintQuiet
  <2> QED
    BY <1>1, <1>3, <1>6, <2>1, <2>2, NopAside
<1>7. ASSUME NEW c \in Calls, InstrStep(c)
      PROVE  ReportInv' /\ (Report!Next \/ UNCHANGED Report!vars)
  <2>1. CASE InstrPass(c)
    BY <1>1, <2>1, PassReports DEF Report!Next
  <2>2. CASE InstrLoop(c)
    BY <1>1, <2>2, LoopReports DEF Report!Next
  <2>3. CASE InstrAwaitPrint(c)
    BY <1>1, <2>3, AwaitReports DEF Report!Next
  <2>4. CASE InstrAskPrint(c)
    BY <1>1, <1>2, <2>4, PrintQuiet
  <2> QED
    BY <1>1, <1>3, <1>7, <2>1, <2>2, <2>3, <2>4, InstrAside
<1>8. CASE \/ \E c \in Calls : Kill(c) \/ \E k \in Kind : Reap(k, c)
           \/ UNCHANGED vars
  BY <1>1, <1>3, <1>8, KernelAside
<1> QED
  BY <1>3, <1>4, <1>5, <1>6, <1>7, <1>8 DEF Next

LEMMA ReportInit == Init => ReportInv /\ Report!Init
<1> SUFFICES ASSUME Init PROVE ReportInv /\ Report!Init
  OBVIOUS
<1>1. /\ SerialInv /\ dmesg = <<>>
      /\ \A c \in Calls : pc["instr"][c] = "none" /\ entry[c] = 1 /\ ~ InDriver(c)
  BY SerialInit DEF Init, InDriver, Kind
<1>2. ReportInv
  BY <1>1 DEF ReportInv, Reporting, Counted, Through, Gone, Measuring
<1>3. Owner = NULL
  BY <1>1 DEF Owner
<1> QED
  BY <1>1, <1>2, <1>3 DEF Report!Init, Report!Rest

\* Whatever the programs, the interleaving, the signals and the failures, as long
\* as clients take turns the log is what SessionReport promises to the parser:
\* entries whole and in order, each count right after its label and counted for
\* that entry, and a call that ends has reported all of its program or nothing.
THEOREM ReportImplemented ==
  ASSUME ~ Concurrent
  PROVE  Spec => ImplementsReport
<1>1. Init => ReportInv /\ Report!Init
  BY ReportInit
<1>2. ReportInv /\ [Next]_vars => ReportInv' /\ [Report!Next]_Report!vars
  BY ReportStep
<1> QED
  BY <1>1, <1>2, PTL DEF Spec, ImplementsReport, Report!Spec

-----------------------------------------------------------------------------
(* The report is complete                                                   *)

\* The lines of the entry that INSTR is at.
Begun(c) ==
  IF pc["instr"][c] \notin {"ask_print", "wait_print"} THEN {}
  ELSE {Line(kind, Here(c)) : kind \in IF Labelled(c) THEN {"label"} ELSE {"label", "count"}}

\* Of the entries before it, all that is owed is written; of the rest, nothing.
WrittenSoFar(c) ==
  /\ {dmesg[k] : k \in Written(c)} = {l \in Owed(c) : l.window[2] < entry[c]} \cup Begun(c)
  /\ \A j, k \in Written(c) : j < k => Precedes(dmesg[j], dmesg[k])

CompleteInv == ReportInv /\ \A c \in Calls : WrittenSoFar(c)

LEMMA InstrRunsThen ==
  ASSUME SerialInv', NEW c \in Calls, pc'["instr"][c] \in InstrPC \ {"exit"}
  PROVE  call'[c] = "wait"
<1>1. Phase(c)' /\ call'[c] \in CallPC
  BY DEF SerialInv, TypeOK
<1> QED
  BY <1>1 DEF Phase, CallPC, InstrPC, Through, Gone, Kind, Made

\* A set of lines that are owed, by what its members are.
LEMMA OwedIs ==
  ASSUME TypeOK, NEW c \in Calls, NEW l
  PROVE  l \in Owed(c) <=>
           \E i \in 1 .. Len(Program(c)) : \E kind \in Due(Program(c)[i]) :
             l = Line(kind, <<c, i>>)
<1>1. DOMAIN Program(c) = 1 .. Len(Program(c))
  BY NopTimerAssumption DEF Program
<1>2. \A i : l \in OwedAt(c, i) <=> \E kind \in Due(Program(c)[i]) : l = Line(kind, <<c, i>>)
  BY DEF OwedAt
<1>3. l \in Owed(c) <=> \E i \in DOMAIN Program(c) : l \in OwedAt(c, i)
  BY DEF Owed
<1> QED
  BY <1>1, <1>2, <1>3

LEMMA NothingOwedYet ==
  ASSUME TypeOK, NEW c \in Calls, entry[c] = 1
  PROVE  {l \in Owed(c) : l.window[2] < entry[c]} = {}
<1>1. ASSUME NEW l \in Owed(c) PROVE ~ l.window[2] < 1
  <2>1. PICK i \in 1 .. Len(Program(c)) :
              \E kind \in Due(Program(c)[i]) : l = Line(kind, <<c, i>>)
    BY OwedIs
  <2>2. Len(Program(c)) \in Nat
    BY PlanFacts
  <2>3. l.window[2] = i
    BY <2>1 DEF Line
  <2> QED
    BY <2>2, <2>3
<1> QED
  BY <1>1

\* INSTR leaves an entry: what was owed below the next one is what was owed below
\* this one, and what it owes itself.
LEMMA OwedBelowNext ==
  ASSUME TypeOK, NEW c \in Calls, Todo(c)
  PROVE  {l \in Owed(c) : l.window[2] < entry[c] + 1} =
           {l \in Owed(c) : l.window[2] < entry[c]} \cup OwedAt(c, entry[c])
<1>1. /\ entry[c] \in 1 .. Len(Program(c)) /\ Len(Program(c)) \in Nat
      /\ DOMAIN Program(c) = 1 .. Len(Program(c))
  BY PlanFacts, NopTimerAssumption DEF Todo, TypeOK, Program
<1>2. ASSUME NEW i \in Nat, NEW kind PROVE Line(kind, <<c, i>>).window[2] = i
  BY DEF Line
<1>3. ASSUME NEW l \in OwedAt(c, entry[c]) PROVE l \in Owed(c) /\ l.window[2] = entry[c]
  <2>1. PICK kind \in Due(Program(c)[entry[c]]) : l = Line(kind, <<c, entry[c]>>)
    BY DEF OwedAt
  <2>2. l \in Owed(c)
    BY <1>1, <2>1, OwedIs
  <2> QED
    BY <1>1, <1>2, <2>1, <2>2
<1>4. ASSUME NEW l \in Owed(c), l.window[2] < entry[c] + 1, ~ l.window[2] < entry[c]
      PROVE  l \in OwedAt(c, entry[c])
  <2>1. PICK i \in 1 .. Len(Program(c)) :
              \E kind \in Due(Program(c)[i]) : l = Line(kind, <<c, i>>)
    BY OwedIs
  <2>2. i = entry[c]
    BY <1>1, <1>2, <1>4, <2>1
  <2> QED
    BY <2>1, <2>2 DEF OwedAt
<1>5. ASSUME NEW l \in Owed(c) PROVE l.window[2] \in Nat
  <2>1. PICK i \in 1 .. Len(Program(c)) : \E kind : l = Line(kind, <<c, i>>)
    BY OwedIs
  <2> QED
    BY <1>1, <1>2, <2>1
<1> QED
  BY <1>1, <1>3, <1>4, <1>5

\* A step that writes nothing for c and leaves it at its entry.
LEMMA WrittenKept ==
  ASSUME TypeOK, NEW c \in Calls, WrittenSoFar(c),
         dmesg' = dmesg, entry'[c] = entry[c], Begun(c)' = Begun(c),
         action'[c] = action[c] \/ (TypeOK' /\ entry[c] = 1)
  PROVE  WrittenSoFar(c)'
<1>1. Written(c)' = Written(c)
  BY DEF Written
<1>2. {l \in Owed(c) : l.window[2] < entry[c]}' = {l \in Owed(c) : l.window[2] < entry[c]}
  <2>1. CASE action'[c] = action[c]
    <3>1. Owed(c)' = Owed(c)
      BY <2>1 DEF Owed, OwedAt, Program, Due, Skipped, Zeroed
    <3> QED
      BY <3>1
  <2>2. CASE TypeOK' /\ entry[c] = 1
    <3>1. {l \in Owed(c) : l.window[2] < entry[c]} = {}
      BY <2>2, NothingOwedYet
    <3>2. {l \in Owed(c)' : l.window[2] < entry'[c]} = {}
      <4>1. TypeOK' => \A l \in Owed(c)' : ~ l.window[2] < 1
        <5>1. ASSUME TypeOK', NEW l \in Owed(c)' PROVE ~ l.window[2] < 1
          <6>1. Program(c)' \in Seq([name : STRING, gate : Gate])
            BY NopTimerAssumption DEF Program
          <6>2. PICK i \in DOMAIN Program(c)' : \E kind : l = Line(kind, <<c, i>>)
            BY <5>1 DEF Owed, OwedAt
          <6>3. i \in Nat /\ i >= 1
            BY <6>1, <6>2
          <6>4. l.window[2] = i
            BY <6>2 DEF Line
          <6> QED
            BY <6>3, <6>4
        <5> QED
          BY <5>1
      <4> QED
        BY <2>2, <4>1
    <3> QED
      BY <3>1, <3>2
  <2> QED
    BY <2>1, <2>2
<1> QED
  BY <1>1, <1>2 DEF WrittenSoFar

LEMMA QuietWritten ==
  ASSUME CompleteInv, ReportInv', Quiet
  PROVE  CompleteInv'
<1>1. ASSUME NEW c \in Calls PROVE WrittenSoFar(c)'
  <2>1. /\ TypeOK /\ TypeOK' /\ WrittenSoFar(c) /\ Reporting(c)
        /\ dmesg' = dmesg /\ entry'[c] = entry[c] /\ Handshake(c)'
    BY DEF CompleteInv, ReportInv, SerialInv, Quiet
  <2>2. action'[c] = action[c] \/ entry[c] = 1
    BY <2>1 DEF Quiet, Reporting
  <2>3. Begun(c)' = Begun(c)
    <3>1. Here(c)' = Here(c)
      BY <2>1 DEF Here
    <3>2. CASE pc'["instr"][c] \notin {"ask_print", "wait_print"}
      <4>1. pc["instr"][c] \notin {"ask_print", "wait_print"}
        BY <3>2 DEF Quiet, InstrMoves, Through, Gone
      <4> QED
        BY <3>2, <4>1 DEF Begun
    <3>3. CASE pc'["instr"][c] \in {"ask_print", "wait_print"}
      <4>1. /\ pc["instr"][c] \in {"ask_print", "wait_print"}
            /\ pc'["instr"][c] = "ask_print" => pc["instr"][c] = "ask_print"
        BY <3>3 DEF Quiet, InstrMoves, Through, Gone
      <4>2. InDriver(c) /\ InDriver(c)'
        <5>1. SerialInv /\ SerialInv'
          BY DEF CompleteInv, ReportInv
        <5>2. InDriver(c)
          BY <4>1, <5>1, InstrRuns DEF InDriver, InstrPC
        <5>3. InDriver(c)'
          BY <3>3, <5>1, InstrRunsThen DEF InDriver, InstrPC
        <5> QED
          BY <5>2, <5>3
      <4>3. Labelled(c)' <=> Labelled(c)
        <5>1. CASE Counted(c)
          <6>1. dmesg' # <<>> /\ dmesg'[Len(dmesg')].kind = "count"
            BY <2>1, <5>1 DEF Reporting
          <6>2. ~ Labelled(c)'
            BY <2>1, <4>2, <6>1 DEF Handshake, Line
          <6> QED
            BY <5>1, <6>2 DEF Counted
        <5>2. CASE ~ Counted(c)
          <6>1. ~ Counted(c)'
            BY <5>2 DEF Quiet
          <6> QED
            BY <3>3, <4>1, <4>2, <5>2, <6>1 DEF Counted, Labelled
        <5> QED
          BY <5>1, <5>2
      <4> QED
        BY <3>1, <3>3, <4>1, <4>3 DEF Begun, Line
    <3> QED
      BY <3>2, <3>3
  <2> QED
    BY <2>1, <2>2, <2>3, WrittenKept
<1> QED
  BY <1>1 DEF CompleteInv

\* A step of c that keeps to its own lines keeps the others' reports.
LEMMA LoudWritten ==
  ASSUME CompleteInv, ReportInv', NEW c \in Calls, LoudAt(c), WrittenSoFar(c)',
         UNCHANGED dmesg \/ LogsOwn(c)
  PROVE  CompleteInv'
<1>1. ASSUME NEW d \in Calls, d # c PROVE WrittenSoFar(d)'
  <2>1. /\ TypeOK /\ SerialInv /\ WrittenSoFar(d) /\ ~ InDriver(d)
        /\ pc'["instr"][d] = pc["instr"][d] /\ entry'[d] = entry[d] /\ action' = action
    BY <1>1 DEF CompleteInv, ReportInv, SerialInv, Exclusive, LoudAt
  <2>2. Begun(d) = {} /\ Begun(d)' = {}
    <3>1. pc["instr"][d] \notin {"ask_print", "wait_print"}
      BY <2>1, InstrRuns DEF InDriver, InstrPC
    <3> QED
      BY <2>1, <3>1 DEF Begun
  <2>3. CASE UNCHANGED dmesg
    BY <2>1, <2>2, <2>3, WrittenKept
  <2>4. ASSUME NEW kind \in {"zero", "label", "count"}, dmesg' = Append(dmesg, Line(kind, Here(c)))
        PROVE  WrittenSoFar(d)'
    <3>1. /\ DOMAIN dmesg = 1 .. Len(dmesg) /\ Len(dmesg) \in Nat
          /\ DOMAIN dmesg' = 1 .. Len(dmesg) + 1
          /\ dmesg'[Len(dmesg) + 1].window[1] = c
          /\ \A i \in 1 .. Len(dmesg) : dmesg'[i] = dmesg[i]
      BY <2>1, <2>4, OwnLine
    <3>2. Written(d)' = Written(d) /\ \A k \in Written(d) : dmesg'[k] = dmesg[k]
      BY <1>1, <3>1 DEF Written
    <3>3. Owed(d)' = Owed(d)
      BY <2>1 DEF Owed, OwedAt, Program, Due, Skipped, Zeroed
    <3>4. {dmesg'[k] : k \in Written(d)'} = {dmesg[k] : k \in Written(d)}
      BY <3>2
    <3> QED
      BY <2>1, <2>2, <3>2, <3>3, <3>4 DEF WrittenSoFar
  <2> QED
    BY <2>3, <2>4 DEF LogsOwn
<1> QED
  BY <1>1 DEF CompleteInv

\* c logs the next line it owes.
LEMMA WritesNext ==
  ASSUME CompleteInv, NEW c \in Calls, NEW kind \in {"zero", "label", "count"},
         dmesg' = Append(dmesg, Line(kind, Here(c))),
         \A l \in Begun(c) : l.kind = "label" /\ kind = "count"
  PROVE  /\ {dmesg'[k] : k \in Written(c)'} =
              {l \in Owed(c) : l.window[2] < entry[c]} \cup Begun(c) \cup {Line(kind, Here(c))}
         /\ \A j, k \in Written(c)' : j < k => Precedes(dmesg'[j], dmesg'[k])
<1> DEFINE new == Line(kind, Here(c))
           n   == Len(dmesg) + 1
<1>1. TypeOK /\ WrittenSoFar(c) /\ entry[c] \in Nat
  BY DEF CompleteInv, ReportInv, SerialInv, TypeOK
<1>2. /\ DOMAIN dmesg = 1 .. Len(dmesg) /\ Len(dmesg) \in Nat
      /\ DOMAIN dmesg' = 1 .. n /\ dmesg'[n] = new
      /\ \A i \in 1 .. Len(dmesg) : dmesg'[i] = dmesg[i]
  <2>1. new \in Lines /\ dmesg \in Seq(Lines)
    BY <1>1, LineType DEF TypeOK, Here, Window
  <2> HIDE DEF new
  <2> QED
    BY <1>1, <2>1, OwnLine DEF new
<1>3. new.kind = kind /\ new.window = Here(c) /\ new.window[1] = c /\ new.window # Started
      /\ new.window[2] = entry[c]
  BY DEF Line, Here, Started
<1> HIDE DEF new
<1>4. Written(c)' = Written(c) \cup {n} /\ \A k \in Written(c) : k < n /\ dmesg'[k] = dmesg[k]
  BY <1>2, <1>3 DEF Written
<1>5. {dmesg'[k] : k \in Written(c)'} = {dmesg[k] : k \in Written(c)} \cup {new}
  BY <1>2, <1>4
<1>6. ASSUME NEW k \in Written(c) PROVE Precedes(dmesg[k], new)
  <2>1. dmesg[k] \in {l \in Owed(c) : l.window[2] < entry[c]} \cup Begun(c)
    BY <1>1 DEF WrittenSoFar
  <2>2. ASSUME dmesg[k] \in Begun(c) PROVE Precedes(dmesg[k], new)
    <3>1. dmesg[k].window = Here(c) /\ dmesg[k].kind = "label" /\ kind = "count"
      BY <2>2 DEF Begun, Line
    <3> QED
      BY <1>3, <3>1 DEF Precedes
  <2> QED
    BY <1>3, <2>1, <2>2 DEF Precedes
<1>7. ASSUME NEW j \in Written(c)', NEW k \in Written(c)', j < k
      PROVE  Precedes(dmesg'[j], dmesg'[k])
  <2>1. j \in Written(c)
    BY <1>2, <1>4, <1>7 DEF Written
  <2>2. CASE k = n
    BY <1>2, <1>4, <1>6, <2>1, <2>2
  <2>3. CASE k \in Written(c)
    BY <1>1, <1>4, <1>7, <2>1, <2>3 DEF WrittenSoFar
  <2> QED
    BY <1>4, <2>2, <2>3
<1> QED
  BY <1>1, <1>5, <1>7 DEF WrittenSoFar, new

LEMMA PassWrites ==
  ASSUME CompleteInv, SerialInv', NEW c \in Calls, InstrPass(c)
  PROVE  CompleteInv'
<1>1. /\ ReportInv' /\ LoudAt(c) /\ entry'[c] = entry[c] + 1 /\ action' = action
      /\ pc["instr"][c] = "entry" /\ pc' = pc /\ Todo(c) /\ ~ Measured(Current(c))
      /\ dmesg' = IF Skipped(Current(c)) THEN dmesg
                  ELSE Append(dmesg, Line("zero", Here(c)))
  BY PassReports DEF CompleteInv, InstrPass, LoudAt
<1>2. TypeOK /\ WrittenSoFar(c) /\ Begun(c) = {} /\ Begun(c)' = {}
  BY <1>1 DEF CompleteInv, ReportInv, SerialInv, Begun
<1>3. {l \in Owed(c) : l.window[2] < entry[c]}' =
        {l \in Owed(c) : l.window[2] < entry[c]} \cup OwedAt(c, entry[c])
  <2>1. Owed(c)' = Owed(c)
    BY <1>1 DEF Owed, OwedAt, Program, Due, Skipped, Zeroed
  <2> QED
    BY <1>1, <1>2, <2>1, OwedBelowNext
<1>4. CASE Skipped(Current(c))
  <2>1. OwedAt(c, entry[c]) = {}
    BY <1>4 DEF OwedAt, Due, Current
  <2>2. Written(c)' = Written(c) /\ dmesg' = dmesg
    BY <1>1, <1>4 DEF Written
  <2>3. WrittenSoFar(c)'
    BY <1>2, <1>3, <2>1, <2>2 DEF WrittenSoFar
  <2> QED
    BY <1>1, <2>2, <2>3, LoudWritten
<1>5. CASE ~ Skipped(Current(c))
  <2>1. OwedAt(c, entry[c]) = {Line("zero", Here(c))}
    BY <1>1, <1>5 DEF OwedAt, Due, Current, Measured, Here
  <2>2. dmesg' = Append(dmesg, Line("zero", Here(c)))
    BY <1>1, <1>5
  <2>3. WrittenSoFar(c)'
    BY <1>2, <1>3, <2>1, <2>2, WritesNext DEF WrittenSoFar
  <2> QED
    BY <1>1, <2>2, <2>3, LoudWritten DEF LogsOwn
<1> QED
  BY <1>4, <1>5

LEMMA LoopWrites ==
  ASSUME CompleteInv, SerialInv', NEW c \in Calls, InstrLoop(c)
  PROVE  CompleteInv'
<1>1. /\ ReportInv' /\ LoudAt(c) /\ entry'[c] = entry[c] /\ action' = action
      /\ pc["instr"][c] = "loop" /\ pc'["instr"][c] = "ask_print"
      /\ dmesg' = Append(dmesg, Line("label", Here(c)))
  BY LoopReports DEF CompleteInv, InstrLoop, At, LoudAt
<1>2. Begun(c) = {} /\ Begun(c)' = {Line("label", Here(c))}
  BY <1>1 DEF Begun, Labelled, Line, Here
<1>3. Owed(c)' = Owed(c)
  BY <1>1 DEF Owed, OwedAt, Program, Due, Skipped, Zeroed
<1>4. WrittenSoFar(c)'
  BY <1>1, <1>2, <1>3, WritesNext DEF WrittenSoFar
<1> QED
  BY <1>1, <1>4, LoudWritten DEF LogsOwn

LEMMA CountWrites ==
  ASSUME CompleteInv, SerialInv', NEW c \in Calls, NopCheckPrint(c), print_count
  PROVE  CompleteInv'
<1>1. /\ ReportInv' /\ LoudAt(c) /\ Labelled(c) /\ count = Here(c)
      /\ pc["instr"][c] = "wait_print" /\ pc'["instr"] = pc["instr"]
  BY CountReports DEF CompleteInv
<1>2. /\ entry' = entry /\ action' = action
      /\ dmesg' = Append(dmesg, Line("count", Here(c)))
      /\ pc'["nop"][c] = "ack_print"
  <2>1. pc' = [pc EXCEPT !["nop"][c] = "ack_print"]
    BY DEF NopCheckPrint, At
  <2>2. pc'["nop"][c] = "ack_print"
    BY <2>1, ShapesHold DEF CompleteInv, ReportInv, Shapes, Kind
  <2> QED
    BY <1>1, <2>2 DEF NopCheckPrint, nopRest, LoudAt
<1>3. /\ Begun(c) = {Line("label", Here(c))}
      /\ Begun(c)' = {Line("label", Here(c)), Line("count", Here(c))}
  <2>1. ~ Labelled(c)' /\ Here(c)' = Here(c)
    BY <1>1, <1>2 DEF Labelled, Here
  <2> QED
    BY <1>1, <2>1 DEF Begun, Line
<1>4. Owed(c)' = Owed(c)
  BY <1>2 DEF Owed, OwedAt, Program, Due, Skipped, Zeroed
<1>5. \A l \in Begun(c) : l.kind = "label"
  BY <1>3 DEF Line
<1>6. WrittenSoFar(c)'
  BY <1>2, <1>3, <1>4, <1>5, WritesNext DEF WrittenSoFar
<1> QED
  BY <1>1, <1>2, <1>6, LoudWritten DEF LogsOwn

LEMMA AwaitWrites ==
  ASSUME CompleteInv, SerialInv', NEW c \in Calls, InstrAwaitPrint(c)
  PROVE  CompleteInv'
<1>1. /\ ReportInv' /\ LoudAt(c) /\ entry'[c] = entry[c] + 1 /\ action' = action
      /\ pc'["instr"][c] = "entry" /\ ~ Labelled(c) /\ Todo(c) /\ Measured(Current(c))
      /\ pc["instr"][c] = "wait_print" /\ dmesg' = dmesg
  BY AwaitReports DEF CompleteInv, LoudAt, InstrAwaitPrint, At, logs
<1>2. Begun(c)' = {} /\ Begun(c) = OwedAt(c, entry[c])
  <2>1. Due(Program(c)[entry[c]]) = {"label", "count"}
    BY <1>1 DEF Due, Measured, Current
  <2> QED
    BY <1>1, <2>1 DEF Begun, OwedAt, Here
<1>3. TypeOK /\ WrittenSoFar(c)
  BY DEF CompleteInv, ReportInv, SerialInv
<1>4. {l \in Owed(c) : l.window[2] < entry[c]}' =
        {l \in Owed(c) : l.window[2] < entry[c]} \cup OwedAt(c, entry[c])
  <2>1. Owed(c)' = Owed(c)
    BY <1>1 DEF Owed, OwedAt, Program, Due, Skipped, Zeroed
  <2> QED
    BY <1>1, <1>3, <2>1, OwedBelowNext
<1>5. Written(c)' = Written(c)
  BY <1>1 DEF Written
<1>6. WrittenSoFar(c)'
  BY <1>1, <1>2, <1>3, <1>4, <1>5 DEF WrittenSoFar
<1> QED
  BY <1>1, <1>6, LoudWritten

LEMMA CompleteStep ==
  ASSUME ~ Concurrent, CompleteInv, [Next]_vars
  PROVE  CompleteInv'
<1>1. SerialInv /\ SerialInv' /\ ReportInv /\ ReportInv'
  BY SerialStep, ReportStep DEF CompleteInv, ReportInv
<1>2. ASSUME Quiet PROVE CompleteInv'
  BY <1>1, <1>2, QuietWritten
<1>3. ASSUME Aside PROVE CompleteInv'
  BY <1>2, <1>3, AsideQuiet
<1>4. ASSUME NEW c \in Calls, Start(c) PROVE CompleteInv'
  BY <1>1, <1>2, <1>4, StartQuiet
<1>5. ASSUME NEW c \in Calls, CallStep(c) PROVE CompleteInv'
  BY <1>1, <1>3, <1>5, CallAside
<1>6. ASSUME NEW c \in Calls, NopStep(c) PROVE CompleteInv'
  <2>1. CASE NopCheckPrint(c) /\ print_count
    BY <1>1, <2>1, CountWrites
  <2>2. CASE NopAckPrint(c)
    BY <1>1, <1>2, <2>2, PrintQuiet
  <2> QED
    BY <1>1, <1>3, <1>6, <2>1, <2>2, NopAside
<1>7. ASSUME NEW c \in Calls, InstrStep(c) PROVE CompleteInv'
  <2>1. CASE InstrPass(c)
    BY <1>1, <2>1, PassWrites
  <2>2. CASE InstrLoop(c)
    BY <1>1, <2>2, LoopWrites
  <2>3. CASE InstrAwaitPrint(c)
    BY <1>1, <2>3, AwaitWrites
  <2>4. CASE InstrAskPrint(c)
    BY <1>1, <1>2, <2>4, PrintQuiet
  <2> QED
    BY <1>1, <1>3, <1>7, <2>1, <2>2, <2>3, <2>4, InstrAside
<1>8. CASE \/ \E c \in Calls : Kill(c) \/ \E k \in Kind : Reap(k, c)
           \/ UNCHANGED vars
  BY <1>1, <1>3, <1>8, KernelAside
<1> QED
  BY <1>4, <1>5, <1>6, <1>7, <1>8 DEF Next

\* As long as clients take turns, a call that is past its wait has reported each
\* entry of its program, once and in order, and nothing else: nop_parse finds each
\* row there, whatever the interleaving, and whatever failed in other calls.
THEOREM ReportsComplete ==
  ASSUME ~ Concurrent
  PROVE  Spec => []ReportComplete
<1>1. Init => CompleteInv
  <2> SUFFICES ASSUME Init PROVE CompleteInv
    OBVIOUS
  <2>1. ReportInv /\ TypeOK
    BY ReportInit DEF ReportInv, SerialInv
  <2>2. ASSUME NEW c \in Calls PROVE WrittenSoFar(c)
    <3>1. Written(c) = {} /\ Begun(c) = {} /\ entry[c] = 1
      BY DEF Init, Written, Begun, Kind
    <3> QED
      BY <2>1, <3>1, NothingOwedYet DEF WrittenSoFar
  <2> QED
    BY <2>1, <2>2 DEF CompleteInv
<1>2. CompleteInv /\ [Next]_vars => CompleteInv'
  BY CompleteStep
<1>3. CompleteInv => ReportComplete
  <2> SUFFICES ASSUME CompleteInv, NEW c \in Calls,
                      call[c] \in {"stop_nop", "join_nop", "stop_instr", "join_instr", "done"}
               PROVE  /\ {dmesg[k] : k \in Written(c)} = Owed(c)
                      /\ \A j, k \in Written(c) : j < k => Precedes(dmesg[j], dmesg[k])
    BY DEF ReportComplete
  <2>1. TypeOK /\ Phase(c) /\ Reporting(c) /\ WrittenSoFar(c)
    BY DEF CompleteInv, ReportInv, SerialInv
  <2>2. pc["instr"][c] \in Through
    BY <2>1 DEF Phase, Through, Kind
  <2>3. ~ Todo(c) /\ Begun(c) = {}
    BY <2>1, <2>2 DEF Reporting, Begun, Through, Gone
  <2>4. ASSUME NEW l \in Owed(c) PROVE l.window[2] < entry[c]
    <3>1. PICK i \in 1 .. Len(Program(c)) : \E kind : l = Line(kind, <<c, i>>)
      BY <2>1, OwedIs
    <3>2. l.window[2] = i /\ Len(Program(c)) \in Nat /\ entry[c] \in Nat
      BY <2>1, <3>1, PlanFacts DEF Line, TypeOK
    <3> QED
      BY <2>3, <3>2 DEF Todo
  <2> QED
    BY <2>1, <2>3, <2>4 DEF WrittenSoFar
<1> QED
  BY <1>1, <1>2, <1>3, PTL DEF Spec

=============================================================================
