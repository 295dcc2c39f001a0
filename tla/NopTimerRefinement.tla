------------------------- MODULE NopTimerRefinement -------------------------
(***************************************************************************)
(* The NOP timer implements SessionReport, as long as clients take turns.  *)
(***************************************************************************)
EXTENDS NopTimer

\* The call that is in the driver; there is at most one.
Owner == IF \E c \in Calls : InDriver(c) THEN CHOOSE c \in Calls : InDriver(c)
         ELSE NULL

PlanOf(a) ==
  LET prog == IF a THEN InstrProgram ELSE FlushProgram
  IN  [i \in DOMAIN prog |-> IF Skipped(prog[i]) THEN "skip"
                             ELSE IF Zeroed(prog[i]) THEN "zero" ELSE "measure"]

\* Between the label and the next entry, the count is either there or not.
StepOf(c) ==
  IF pc["instr"][c] \notin {"ask_print", "wait_print"} THEN "next"
  ELSE IF dmesg[Len(dmesg)].kind = "label" THEN "labelled" ELSE "counted"

Report == INSTANCE SessionReport WITH
  Plan   <- [a \in BOOLEAN |-> PlanOf(a)],
  Nobody <- NULL,
  owner  <- Owner,
  plan   <- IF Owner = NULL THEN <<>> ELSE PlanOf(action[Owner]),
  pos    <- IF Owner = NULL THEN 1 ELSE entry[Owner],
  step   <- IF Owner = NULL THEN "next" ELSE StepOf(Owner),
  report <- dmesg

\* Every step of the threads and of the ioctl is a step of the report, or none:
\* entries are reported whole, in order, by one call at a time, each count
\* started for its own entry, whatever the interleaving, the signals, the
\* failed kthread_create calls and the reaped threads.
ImplementsReport == Report!Spec
=============================================================================
