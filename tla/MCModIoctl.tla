----------------------------- MODULE MCModIoctl -----------------------------
(* An unsigned long of five bits.  All numbers it holds, of either sign, and  *)
(* two beyond; for the arguments that nobody uses, those that strtoul and its *)
(* handler treat differently.                                                 *)
EXTENDS ModIoctl

Number(neg, n, trailing) ==
  [digits |-> TRUE, neg |-> neg, n |-> n, trailing |-> trailing]
Text == [digits |-> FALSE, neg |-> FALSE, n |-> 0, trailing |-> TRUE]

MCOptions ==
  {Text} \cup {Number(s, n, t) : s \in BOOLEAN, n \in 0 .. Limit + 1, t \in BOOLEAN}

MCAddresses ==
  {Text} \cup {Number(FALSE, n, t) : n \in {0, 1, LONG_MAX, LONG_MAX + 1, Limit},
                                     t \in BOOLEAN}
=============================================================================
