------------------------------ MODULE NopTimer ------------------------------
(***************************************************************************)
(* nop_timer.c, nop_timer.h: an ioctl starts a NOP thread that counts on   *)
(* CPU 0 and an INSTR thread that runs the instructions on CPU 1.  They    *)
(* and the ioctl that waits for them share plain, unlocked globals.        *)
(*                                                                         *)
(* A thread is named by its kind and the call that created it.  The number *)
(* in count is abstracted to what the report depends on: the request since *)
(* which it has been counting.                                             *)
(***************************************************************************)
EXTENDS Integers, Sequences

CONSTANTS
  Calls,          \* invocations of nop_timing_start
  InstrProgram,   \* what instr_f measures, in order
  FlushProgram,   \* what buffer_flush_instr_f measures, in order
  Features,       \* CPU features for which boot_cpu_has() is true
  NumCpus,        \* num_online_cpus()
  HaveVmem,       \* vmem_aligned is not NULL
  Faulting,       \* names of instructions that fault on this CPU
  Concurrent,     \* may two calls be inside the driver at once?
  NULL, ERR       \* a pointer never set; an ERR_PTR from kthread_create

Gate == {"none", "irqs", "feature", "kmalloc"}

ASSUME NopTimerAssumption ==
  /\ InstrProgram \in Seq([name : STRING, gate : Gate])
  /\ FlushProgram \in Seq([name : STRING, gate : Gate])
  /\ NumCpus \in Nat \ {0}
  /\ HaveVmem \in BOOLEAN /\ Concurrent \in BOOLEAN
  /\ NULL \notin Calls /\ ERR \notin Calls /\ NULL # ERR

VARIABLES
  th,                       \* nop_th and instr_th: the last threads created
  count,                    \* the request since which the counter counts
  reset_count, print_count, \* requests from INSTR to NOP
  finish,                   \* INSTR is through its program
  call,                     \* call[c]: where nop_timing_start of c is
  action,                   \* action[c]: its argument
  joined,                   \* joined[c]: the thread its kthread_stop waits for
  pc,                       \* pc[k][c]: where the thread of kind k of c is
  stop,                     \* stop[k][c]: its KTHREAD_SHOULD_STOP
  sig,                      \* sig[c]: the NOP thread of c has a SIGKILL pending
  acc,                      \* acc[c]: count as loaded by count++ in nop_f
  entry,                    \* entry[c]: the program entry INSTR is at
  masked,                   \* calls whose INSTR thread has interrupts off
  dmesg,                    \* the lines the report is parsed from
  request                   \* history: the last request for a reset

flags == <<reset_count, print_count, finish>>
ioctl == <<call, action, joined>>
own   == <<acc, entry, masked>>
logs  == <<dmesg, request>>
vars  == <<th, count, flags, ioctl, pc, stop, sig, own, logs>>

-----------------------------------------------------------------------------
Kind == {"nop", "instr"}

CallPC  == {"idle", "create_nop", "create_instr", "bind", "wake_nop",
            "wake_instr", "wait", "stop_nop", "join_nop", "stop_instr",
            "join_instr", "done", "oops"}
NopPC   == {"head", "check_reset", "ack_reset", "check_print", "ack_print",
            "load", "store"}
InstrPC == {"entry", "wait_reset", "loop", "ask_print", "wait_print", "exit"}

\* Ends of a thread: "oops" is one that faulted.
Ended == {"exited", "freed", "oops"}

ThreadPC == {"none", "created"} \cup NopPC \cup InstrPC \cup Ended

\* A call is in the driver from its first store until it returns or faults.
InDriver(c) == call[c] \notin {"idle", "done", "oops"}

Program(c) == IF action[c] THEN InstrProgram ELSE FlushProgram

\* Mutant: entries counted from zero.
HereFromZero(c) == <<c, entry[c] - 1>>

\* The request that call c makes at its current entry, and the counter as
\* nop_timing_start leaves it: zero, but for no request.
Here(c) == <<c, entry[c]>>
Started == <<>>

\* "NOP_X: 0", "NOP_X: " and the "%lu" that the NOP thread adds to that.
Line(kind, w) == [kind |-> kind, window |-> w]

\* nop_th or instr_th points to a task_struct that is still there.
Valid(k) == th[k] \in Calls /\ pc[k][th[k]] # "freed"

\* Using what it points to need not fault: a freed one may look as it was.
MayPass(k) == th[k] \in Calls

-----------------------------------------------------------------------------
(* The ioctl: nop_timing_start                                             *)

Goto(c, from, to) == call[c] = from /\ call' = [call EXCEPT ![c] = to]

\* The four stores.  Unless Concurrent, clients take turns as ecr.sh does.
Start(c) ==
  /\ Concurrent \/ \A d \in Calls : ~ InDriver(d)
  /\ Goto(c, "idle", "create_nop")
  /\ \E a \in BOOLEAN : action' = [action EXCEPT ![c] = a]
  /\ count' = Started
  /\ reset_count' = FALSE /\ print_count' = FALSE /\ finish' = FALSE
  /\ UNCHANGED <<th, joined, pc, stop, sig, own, logs>>

\* kthread_create reports failure by an ERR_PTR, never by NULL.
Create(c, k, from, to) ==
  /\ Goto(c, from, to)
  /\ \/ /\ th' = [th EXCEPT ![k] = c]
        /\ pc' = [pc EXCEPT ![k][c] = "created"]
     \/ /\ th' = [th EXCEPT ![k] = ERR]
        /\ UNCHANGED pc
  /\ UNCHANGED <<count, flags, action, joined, stop, sig, own, logs>>

\* Mutant: the threads are no longer bound before they are woken.
BindNothing(c) ==
  /\ Goto(c, "bind", "wake_nop")
  /\ UNCHANGED <<th, count, flags, action, joined, pc, stop, sig, own, logs>>

\* if ( nop_th && instr_th ): an ERR_PTR passes, and kthread_bind faults.
BindThreads(c) ==
  /\ \/ LET exist == \A k \in Kind : th[k] # NULL
        IN  /\ exist => \A k \in Kind : MayPass(k)
            /\ Goto(c, "bind", IF exist THEN "wake_nop" ELSE "wait")
     \/ /\ \A k \in Kind : th[k] # NULL
        /\ \E k \in Kind : ~ Valid(k)
        /\ Goto(c, "bind", "oops")
  /\ UNCHANGED <<th, count, flags, action, joined, pc, stop, sig, own, logs>>

\* wake_up_process starts a created task and leaves any other alone.  The
\* thread function first allows SIGKILL, and only then is SIGKILL sent to it.
Wake(c, k, first, from, to) ==
  /\ \/ /\ MayPass(k)
        /\ Goto(c, from, to)
        /\ pc' = [pc EXCEPT ![k][th[k]] = IF @ = "created" THEN first ELSE @]
     \/ ~ Valid(k) /\ Goto(c, from, "oops") /\ UNCHANGED pc
  /\ UNCHANGED <<th, count, flags, action, joined, stop, sig, own, logs>>

\* Mutants: the wait does not look at finish; the NOP thread is not stopped.
WaitNothing(c) ==
  /\ Goto(c, "wait", "stop_nop")
  /\ UNCHANGED <<th, count, flags, action, joined, pc, stop, sig, own, logs>>

WaitThenStopInstr(c) ==
  /\ finish
  /\ Goto(c, "wait", "stop_instr")
  /\ UNCHANGED <<th, count, flags, action, joined, pc, stop, sig, own, logs>>

\* The poll of finish that ends the sleep; the others change nothing.
WaitFinish(c) ==
  /\ finish
  /\ Goto(c, "wait", "stop_nop")
  /\ UNCHANGED <<th, count, flags, action, joined, pc, stop, sig, own, logs>>

\* kthread_stop: request the stop, wake the task (one that never ran exits at
\* once) and wait for its end.  On a freed task it faults or seems to work.
Stop(c, k, from, join, next) ==
  /\ \/ /\ Valid(k)
        /\ Goto(c, from, join)
        /\ stop' = [stop EXCEPT ![k][th[k]] = TRUE]
        /\ pc' = [pc EXCEPT ![k][th[k]] = IF @ = "created" THEN "exited" ELSE @]
        /\ joined' = [joined EXCEPT ![c] = <<k, th[k]>>]
     \/ /\ ~ Valid(k)
        /\ Goto(c, from, "oops") \/ (MayPass(k) /\ Goto(c, from, next))
        /\ UNCHANGED <<stop, pc, joined>>
  /\ UNCHANGED <<th, count, flags, action, sig, own, logs>>

Join(c, from, to) ==
  /\ Goto(c, from, to)
  /\ pc[joined[c][1]][joined[c][2]] \in Ended
  /\ joined' = [joined EXCEPT ![c] = NULL]
  /\ UNCHANGED <<th, count, flags, action, pc, stop, sig, own, logs>>

CallStep(c) ==
  \/ Create(c, "nop", "create_nop", "create_instr")
  \/ Create(c, "instr", "create_instr", "bind")
  \/ BindThreads(c)
  \/ Wake(c, "nop", "head", "wake_nop", "wake_instr")
  \/ Wake(c, "instr", "entry", "wake_instr", "wait")
  \/ WaitFinish(c)
  \/ Stop(c, "nop", "stop_nop", "join_nop", "stop_instr")
  \/ Join(c, "join_nop", "stop_instr")
  \/ Stop(c, "instr", "stop_instr", "join_instr", "done")
  \/ Join(c, "join_instr", "done")

-----------------------------------------------------------------------------
(* The NOP thread: nop_f                                                   *)

At(k, c, from, to) == pc[k][c] = from /\ pc' = [pc EXCEPT ![k][c] = to]

nopRest == <<th, finish, ioctl, stop, sig, entry, masked, request>>

\* The loop condition and the first if.  signal_pending(nop_th) asks after
\* the task that nop_th names, whichever thread this is.
NopHead(c) ==
  /\ \/ /\ stop["nop"][c] \/ (MayPass("nop") /\ sig[th["nop"]])
        /\ At("nop", c, "head", "exited")
     \/ /\ ~ stop["nop"][c] /\ MayPass("nop")
        /\ ~ sig[th["nop"]]
        /\ At("nop", c, "head", "check_reset")
     \/ /\ ~ stop["nop"][c] /\ ~ Valid("nop")
        /\ At("nop", c, "head", "oops")
  /\ UNCHANGED <<count, reset_count, print_count, acc, dmesg, nopRest>>

NopCheckReset(c) ==
  /\ At("nop", c, "check_reset", IF reset_count THEN "ack_reset"
                                                ELSE "check_print")
  /\ count' = IF reset_count THEN request ELSE count
  /\ UNCHANGED <<reset_count, print_count, acc, dmesg, nopRest>>

\* Mutant: the request stays pending.
NopForgetReset(c) ==
  /\ At("nop", c, "ack_reset", "check_print")
  /\ UNCHANGED <<count, reset_count, print_count, acc, dmesg, nopRest>>

NopAckReset(c) ==
  /\ At("nop", c, "ack_reset", "check_print")
  /\ reset_count' = FALSE
  /\ UNCHANGED <<count, print_count, acc, dmesg, nopRest>>

NopCheckPrint(c) ==
  /\ At("nop", c, "check_print", IF print_count THEN "ack_print" ELSE "load")
  /\ dmesg' = IF print_count THEN Append(dmesg, Line("count", count)) ELSE dmesg
  /\ UNCHANGED <<count, reset_count, print_count, acc, nopRest>>

NopAckPrint(c) ==
  /\ At("nop", c, "ack_print", "load")
  /\ print_count' = FALSE
  /\ UNCHANGED <<count, reset_count, acc, dmesg, nopRest>>

\* count++ loads and stores: what was loaded is written back, one more.
NopLoad(c) ==
  /\ At("nop", c, "load", "store")
  /\ acc' = [acc EXCEPT ![c] = count]
  /\ UNCHANGED <<count, reset_count, print_count, dmesg, nopRest>>

\* Mutant: the NOP thread leaves its loop when INSTR has finished.
NopStoreThenQuit(c) ==
  /\ At("nop", c, "store", IF finish THEN "exited" ELSE "head")
  /\ count' = acc[c]
  /\ UNCHANGED <<reset_count, print_count, acc, dmesg, nopRest>>

NopStore(c) ==
  /\ At("nop", c, "store", "head")
  /\ count' = acc[c]
  /\ UNCHANGED <<reset_count, print_count, acc, dmesg, nopRest>>

NopStep(c) ==
  \/ NopHead(c) \/ NopCheckReset(c) \/ NopAckReset(c) \/ NopCheckPrint(c)
  \/ NopAckPrint(c) \/ NopLoad(c) \/ NopStore(c)

-----------------------------------------------------------------------------
(* The INSTR thread: instr_f or buffer_flush_instr_f                       *)

instrRest == <<th, count, ioctl, stop, sig, acc>>

\* The gates of the loop macros around an entry: a feature the CPU lacks
\* prints nothing; no buffer, or no second CPU, prints a zero.
Skipped(e)  == e.gate = "feature" /\ e.name \notin Features
Zeroed(e)   == ~ Skipped(e) /\ (NumCpus < 2 \/ (e.gate = "kmalloc" /\ ~ HaveVmem))
Measured(e) == ~ Skipped(e) /\ ~ Zeroed(e)

Todo(c) == entry[c] <= Len(Program(c))
Current(c) == Program(c)[entry[c]]

InstrPass(c) ==
  /\ pc["instr"][c] = "entry"
  /\ Todo(c) /\ ~ Measured(Current(c))
  /\ dmesg' = IF Skipped(Current(c)) THEN dmesg
              ELSE Append(dmesg, Line("zero", Here(c)))
  /\ entry' = [entry EXCEPT ![c] = @ + 1]
  /\ UNCHANGED <<flags, pc, masked, request, instrRest>>

\* local_irq_save, if the entry asks for it, and reset_count = true.
InstrRequestReset(c) ==
  /\ At("instr", c, "entry", "wait_reset")
  /\ Todo(c) /\ Measured(Current(c))
  /\ masked' = IF Current(c).gate = "irqs" THEN masked \cup {c} ELSE masked
  /\ reset_count' = TRUE
  /\ request' = Here(c)
  /\ UNCHANGED <<print_count, finish, entry, dmesg, instrRest>>

\* Mutant: the loop starts without waiting for the reset.
InstrDashAhead(c) ==
  /\ At("instr", c, "wait_reset", "loop")
  /\ UNCHANGED <<flags, entry, masked, logs, instrRest>>

InstrAwaitReset(c) ==
  /\ ~ reset_count \/ stop["instr"][c]
  /\ At("instr", c, "wait_reset", "loop")
  /\ UNCHANGED <<flags, entry, masked, logs, instrRest>>

\* All LOOP_ITERATIONS runs of the instruction, then the label.
InstrLoop(c) ==
  /\ At("instr", c, "loop", "ask_print")
  /\ dmesg' = Append(dmesg, Line("label", Here(c)))
  /\ UNCHANGED <<flags, entry, masked, request, instrRest>>

\* #UD or #GP in the loop: the thread dies, with interrupts on, and tells nobody.
\* That it is reaped too is left out: without finish, nobody stops it any more.
InstrFault(c) ==
  /\ At("instr", c, "loop", "oops")
  /\ Current(c).name \in Faulting
  /\ masked' = masked \ {c}
  /\ UNCHANGED <<flags, entry, logs, instrRest>>

InstrAskPrint(c) ==
  /\ At("instr", c, "ask_print", "wait_print")
  /\ print_count' = TRUE
  /\ UNCHANGED <<reset_count, finish, entry, masked, logs, instrRest>>

\* Mutants: INSTR goes on before the count is printed; interrupts stay off.
InstrSkipWait(c) ==
  /\ At("instr", c, "wait_print", "entry")
  /\ masked' = IF Current(c).gate = "irqs" THEN masked \ {c} ELSE masked
  /\ entry' = [entry EXCEPT ![c] = @ + 1]
  /\ UNCHANGED <<flags, logs, instrRest>>

InstrStayMasked(c) ==
  /\ ~ print_count \/ stop["instr"][c]
  /\ At("instr", c, "wait_print", "entry")
  /\ entry' = [entry EXCEPT ![c] = @ + 1]
  /\ UNCHANGED <<masked, flags, logs, instrRest>>

\* Then local_irq_restore and local_irq_enable, and on to the next entry.
InstrAwaitPrint(c) ==
  /\ ~ print_count \/ stop["instr"][c]
  /\ At("instr", c, "wait_print", "entry")
  /\ masked' = IF Current(c).gate = "irqs" THEN masked \ {c} ELSE masked
  /\ entry' = [entry EXCEPT ![c] = @ + 1]
  /\ UNCHANGED <<flags, logs, instrRest>>

InstrFinish(c) ==
  /\ ~ Todo(c)
  /\ At("instr", c, "entry", "exit")
  /\ finish' = TRUE
  /\ UNCHANGED <<reset_count, print_count, entry, masked, logs, instrRest>>

InstrExit(c) ==
  /\ At("instr", c, "exit", "exited")
  /\ UNCHANGED <<flags, entry, masked, logs, instrRest>>

InstrStep(c) ==
  \/ InstrPass(c) \/ InstrRequestReset(c) \/ InstrAwaitReset(c) \/ InstrLoop(c)
  \/ InstrFault(c) \/ InstrAskPrint(c) \/ InstrAwaitPrint(c) \/ InstrFinish(c)
  \/ InstrExit(c)

-----------------------------------------------------------------------------
(* The kernel around the module                                            *)

\* kill -9 of the NOP thread.  instr_f allows the signal too but never looks,
\* so one sent to it changes nothing.
Kill(c) ==
  /\ pc["nop"][c] \in NopPC /\ ~ sig[c]
  /\ sig' = [sig EXCEPT ![c] = TRUE]
  /\ UNCHANGED <<th, count, flags, ioctl, pc, stop, own, logs>>

\* A thread that exited is reaped, unless a kthread_stop under way holds it.
Reap(k, c) ==
  /\ At(k, c, "exited", "freed")
  /\ \A d \in Calls : joined[d] # <<k, c>>
  /\ UNCHANGED <<th, count, flags, ioctl, stop, sig, own, logs>>

-----------------------------------------------------------------------------
Init ==
  /\ th = [k \in Kind |-> NULL]
  /\ count = Started /\ request = Started
  /\ reset_count = FALSE /\ print_count = FALSE /\ finish = FALSE
  /\ call = [c \in Calls |-> "idle"]
  /\ action = [c \in Calls |-> FALSE]
  /\ joined = [c \in Calls |-> NULL]
  /\ pc = [k \in Kind |-> [c \in Calls |-> "none"]]
  /\ stop = [k \in Kind |-> [c \in Calls |-> FALSE]]
  /\ sig = [c \in Calls |-> FALSE]
  /\ acc = [c \in Calls |-> Started]
  /\ entry = [c \in Calls |-> 1]
  /\ masked = {}
  /\ dmesg = <<>>

Next ==
  \E c \in Calls :
    \/ Start(c) \/ CallStep(c) \/ NopStep(c) \/ InstrStep(c)
    \/ Kill(c) \/ \E k \in Kind : Reap(k, c)

\* Every task that can run is scheduled in the end.  Nothing makes a client
\* call, a signal arrive or a dead task be reaped.
Fairness ==
  \A c \in Calls :
    WF_vars(CallStep(c)) /\ WF_vars(NopStep(c)) /\ WF_vars(InstrStep(c))

Spec     == Init /\ [][Next]_vars
FairSpec == Spec /\ Fairness

-----------------------------------------------------------------------------
(* Properties                                                              *)

Window == Calls \X (Nat \ {0})
Lines  == [kind : {"zero", "label", "count"}, window : Window \cup {Started}]

TypeOK ==
  /\ th \in [Kind -> Calls \cup {NULL, ERR}]
  /\ count \in Window \cup {Started} /\ request \in Window \cup {Started}
  /\ reset_count \in BOOLEAN /\ print_count \in BOOLEAN /\ finish \in BOOLEAN
  /\ call \in [Calls -> CallPC]
  /\ action \in [Calls -> BOOLEAN]
  /\ joined \in [Calls -> (Kind \X Calls) \cup {NULL}]
  /\ pc \in [Kind -> [Calls -> ThreadPC]]
  /\ stop \in [Kind -> [Calls -> BOOLEAN]]
  /\ sig \in [Calls -> BOOLEAN]
  /\ acc \in [Calls -> Window \cup {Started}]
  /\ entry \in [Calls -> Nat \ {0}]
  /\ masked \in SUBSET Calls
  /\ dmesg \in Seq(Lines)

\* From the start of the timed loop to the end of the wait for the print, the
\* counter counts since this entry's own request: it was reset after the
\* previous count was printed, before the loop began, and not again.
WindowCoversLoop ==
  \A c \in Calls :
    pc["instr"][c] \in {"loop", "ask_print", "wait_print"} => count = Here(c)

\* nop_parse takes the line after "NOP_X: " for the count of X: so every count
\* comes right after a label, and it was counted since that label's request.
CountFollowsLabel ==
  \A i \in DOMAIN dmesg :
    dmesg[i].kind = "count" =>
      i > 1 /\ dmesg[i - 1] = Line("label", dmesg[i].window)

\* The lines that call c owes for the entry i of its program, and for all of it.
Due(e) == IF Skipped(e) THEN {} ELSE IF Zeroed(e) THEN {"zero"} ELSE {"label", "count"}
OwedAt(c, i) == {Line(kind, <<c, i>>) : kind \in Due(Program(c)[i])}
Owed(c) == UNION {OwedAt(c, i) : i \in DOMAIN Program(c)}

\* Where the lines of call c are, and which of two of them has to come first.
Written(c) == {k \in DOMAIN dmesg : dmesg[k].window # Started /\ dmesg[k].window[1] = c}
Precedes(a, b) ==
  \/ a.window[2] < b.window[2]
  \/ a.window[2] = b.window[2] /\ a.kind = "label" /\ b.kind = "count"

\* A call that is past its wait has the whole report of its program in the
\* log, each line once and in order, and the threads log nothing more for it.
ReportComplete ==
  \A c \in Calls :
    call[c] \in {"stop_nop", "join_nop", "stop_instr", "join_instr", "done"} =>
      /\ {dmesg[k] : k \in Written(c)} = Owed(c)
      /\ \A j, k \in Written(c) : j < k => Precedes(dmesg[j], dmesg[k])

\* When the ioctl returns, neither of the threads it created is left running.
NoThreadOutlivesCall ==
  \A c \in Calls : call[c] = "done" => \A k \in Kind : pc[k][c] \in Ended

\* No thread is asked to stop while INSTR still measures, so no handshake is
\* cut short, and the NOP thread is there to answer unless it was killed.
NotStoppedWhileMeasuring ==
  \A c \in Calls :
    pc["instr"][c] \in InstrPC \ {"exit"} =>
      /\ \A k \in Kind : ~ stop[k][c]
      /\ pc["nop"][c] \in NopPC \/ sig[c]
           \/ (pc["nop"][c] = "created" /\ call[c] = "wake_nop")

\* The two threads start together or not at all: if either kthread_create
\* fails, the thread that was created never runs.
StartTogether ==
  \A c \in Calls, k \in Kind :
    /\ pc[k][c] = "none" => \A j \in Kind : pc[j][c] \in {"none", "created"}

\* An ioctl faults only in the ways known: on the ERR_PTR of a failed
\* kthread_create, or in kthread_stop of a thread that ended by itself and was
\* reaped: INSTR, or a NOP thread that was killed.  The NOP thread never faults.
FaultsKnown ==
  \A c \in Calls :
    /\ pc["nop"][c] # "oops"
    /\ call[c] = "oops" => \/ \E k \in Kind : pc[k][c] = "none"
                           \/ pc["instr"][c] = "freed"
                           \/ pc["nop"][c] = "freed" /\ sig[c]

\* Interrupts are off only from the request to the end of the wait of an entry
\* that asks for it: never when INSTR moves on, finishes or exits.
InterruptsRestored ==
  \A c \in masked :
    /\ pc["instr"][c] \in {"wait_reset", "loop", "ask_print", "wait_print"}
    /\ Current(c).gate = "irqs"

\* nop_timer.c:139 says that the ioctl waits "until INSTR thread has finished":
\* when it goes on to stop the threads, the INSTR thread it created is done.
WaitsForOwnInstr ==
  \A c \in Calls :
    call[c] = "stop_nop" => pc["instr"][c] \in {"exit"} \cup Ended

\* An ioctl returns, or it faults, or one of the threads it needs is lost: somebody
\* killed the NOP thread, or an instruction faulted.
CallEnds ==
  \A c \in Calls : InDriver(c) ~>
    (call[c] \in {"done", "oops"} \/ sig[c] \/ pc["instr"][c] = "oops")

=============================================================================
