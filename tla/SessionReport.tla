--------------------------- MODULE SessionReport ---------------------------
(***************************************************************************)
(* What the NOP timer promises to whoever parses the kernel log, with no   *)
(* word about threads, flags or waiting.  Calls report one at a time.  A   *)
(* call reports the entries of its program in order; an entry that is      *)
(* measured is a label and, right after it, a count that was started for   *)
(* that entry.  A call ends with its report complete, or not begun.        *)
(***************************************************************************)
EXTENDS Integers, Sequences

CONSTANTS
  Calls,
  Plan,     \* Plan[a]: "skip", "zero" or "measure", for each entry in turn
  Nobody    \* no call is reporting

VARIABLES
  owner,    \* the call that is reporting
  plan,     \* its plan
  pos,      \* the entry it is at
  step,     \* how far that entry is: "next", "labelled" or "counted"
  report    \* all lines so far

vars == <<owner, plan, pos, step, report>>

Line(kind) == [kind |-> kind, window |-> <<owner, pos>>]

Owes(what) == owner # Nobody /\ pos <= Len(plan) /\ plan[pos] = what

Rest == owner = Nobody /\ plan = <<>> /\ pos = 1 /\ step = "next"

Init == Rest /\ report = <<>>

Begin(c) ==
  /\ owner = Nobody
  /\ owner' = c
  /\ \E a \in BOOLEAN : plan' = Plan[a]
  /\ UNCHANGED <<pos, step, report>>

Pass ==
  /\ step = "next"
  /\ \/ Owes("skip") /\ UNCHANGED report
     \/ Owes("zero") /\ report' = Append(report, Line("zero"))
  /\ pos' = pos + 1
  /\ UNCHANGED <<owner, plan, step>>

Label ==
  /\ Owes("measure") /\ step = "next"
  /\ report' = Append(report, Line("label"))
  /\ step' = "labelled"
  /\ UNCHANGED <<owner, plan, pos>>

Count ==
  /\ step = "labelled"
  /\ report' = Append(report, Line("count"))
  /\ step' = "counted"
  /\ UNCHANGED <<owner, plan, pos>>

Advance ==
  /\ step = "counted"
  /\ pos' = pos + 1
  /\ step' = "next"
  /\ UNCHANGED <<owner, plan, report>>

End ==
  /\ owner # Nobody /\ step = "next"
  /\ pos > Len(plan) \/ \A i \in DOMAIN report : report[i].window[1] # owner
  /\ Rest'
  /\ UNCHANGED report

Next == (\E c \in Calls : Begin(c)) \/ Pass \/ Label \/ Count \/ Advance \/ End

Spec == Init /\ [][Next]_vars
=============================================================================
