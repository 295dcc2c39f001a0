--------------------------- MODULE ModIoctlProofs ---------------------------
(***************************************************************************)
(* Theorems about ModIoctl, for every width of a long and all arguments.   *)
(***************************************************************************)
EXTENDS ModIoctl, TLAPS

-----------------------------------------------------------------------------
Parsing == {"argv[2]", "argv[3]", "argv[1]"}
Parsed(k) == long(strtoul(argv[k]).value)

\* What is known of a command before it is sent, and of an answer before it is
\* turned into a status.
ProcessInv ==
  /\ argv \in Seq(Arg)
  /\ in_arg \in [1 .. 3 -> Int]
  /\ ret \in {0, -1}
  /\ pc \in Parsing \cup {"switch"} => argv # <<>>
  /\ pc \in Parsing \cup {"main", "switch"} => sent = <<>>
  /\ pc = "switch" => argv[1].digits /\ in_arg[1] = Parsed(1)
  /\ pc \in {"ioctl", "handler"} => sent # <<>>
  /\ pc = "close" /\ sent # <<>> => ret = 0
  /\ SendsWhatIsAsked
  /\ StatusTells

-----------------------------------------------------------------------------
\* strtoul and the conversion to long give the number back, or the number of
\* the other sign that is the same modulo Limit.
LEMMA ParsedMeant ==
  ASSUME NEW s \in Arg, s.digits, long(strtoul(s).value) \in 0 .. 7
  PROVE  long(strtoul(s).value) \in {Meant(s), Meant(s) + Limit}
<1> DEFINE v == strtoul(s).value
<1>1. s.n \in Nat /\ Limit \in Nat /\ Limit > 16 /\ LONG_MAX \in Int
      /\ LONG_MAX < ULONG_MAX /\ Limit = 2 * (LONG_MAX + 1)
  BY ModIoctlAssumption DEF Arg, LONG_MAX, ULONG_MAX
<1>2. v = IF s.n > ULONG_MAX THEN ULONG_MAX
          ELSE IF s.neg /\ s.n > 0 THEN Limit - s.n ELSE s.n
  BY DEF strtoul
<1>3. v \in Int
  BY <1>1, <1>2 DEF ULONG_MAX
<1> HIDE DEF v
<1>4. long(v) \in 0 .. 7
  BY DEF v
<1>5. long(v) \in {Meant(s), Meant(s) + Limit}
  BY <1>1, <1>2, <1>3, <1>4 DEF long, Meant, ULONG_MAX
<1> QED
  BY <1>5 DEF v

\* strtoul_handler ends the process, or leaves the number that it found.
LEMMA HandlerFacts ==
  ASSUME ProcessInv, NEW k \in 1 .. 3, NEW next, strtoul_handler(k, next)
  PROVE  \/ pc' = "ended" /\ UNCHANGED in_arg
         \/ /\ pc' = next /\ argv[k].digits
            /\ in_arg' = [in_arg EXCEPT ![k] = Parsed(k)]
BY DEF strtoul_handler, Exit, To, Refused, Parsed

LEMMA ParsedInt ==
  ASSUME argv \in Seq(Arg), NEW k \in 1 .. Len(argv)
  PROVE  Parsed(k) \in Int
<1>1. argv[k] \in Arg
  OBVIOUS
<1>2. argv[k].n \in Nat /\ Limit \in Nat
  BY <1>1, ModIoctlAssumption DEF Arg
<1>3. strtoul(argv[k]).value \in Int
  BY <1>2 DEF strtoul, ULONG_MAX
<1> QED
  BY <1>2, <1>3 DEF Parsed, long

LEMMA ProcessInit == Init => ProcessInv
<1> SUFFICES ASSUME Init PROVE ProcessInv
  OBVIOUS
<1>1. argv \in Seq(Arg)
  <2>1. Options \subseteq Arg /\ Addresses \subseteq Arg
    BY ModIoctlAssumption
  <2>2. \/ argv = <<>>
        \/ \E o \in Options : argv = <<o>>
        \/ \E o \in Options, a \in Addresses : argv = <<o, a>>
        \/ \E o \in Options, a \in Addresses, b \in Addresses : argv = <<o, a, b>>
    BY DEF Init
  <2>3. ASSUME NEW o \in Arg, NEW a \in Arg, NEW b \in Arg
        PROVE  <<o>> \in Seq(Arg) /\ <<o, a>> \in Seq(Arg) /\ <<o, a, b>> \in Seq(Arg)
    <3> HIDE DEF Arg
    <3> QED
      OBVIOUS
  <2>4. \A o \in Options : o \in Arg
    BY <2>1
  <2>5. \A a \in Addresses : a \in Arg
    BY <2>1
  <2>6. CASE argv = <<>>
    BY <2>6
  <2>7. CASE \E o \in Options : argv = <<o>>
    BY <2>3, <2>4, <2>7
  <2>8. CASE \E o \in Options, a \in Addresses : argv = <<o, a>>
    BY <2>3, <2>4, <2>5, <2>8
  <2>9. CASE \E o \in Options, a \in Addresses, b \in Addresses : argv = <<o, a, b>>
    BY <2>3, <2>4, <2>5, <2>9
  <2> QED
    BY <2>2, <2>6, <2>7, <2>8, <2>9
<1>2. in_arg \in [1 .. 3 -> Int]
  BY DEF Init
<1>3. pc = "main" /\ sent = <<>> /\ ret = 0
  BY DEF Init
<1>4. SendsWhatIsAsked /\ StatusTells
  BY <1>3 DEF SendsWhatIsAsked, StatusTells
<1> QED
  BY <1>1, <1>2, <1>3, <1>4 DEF ProcessInv, Parsing

\* A step before a command is sent.
LEMMA BeforeSending ==
  ASSUME ProcessInv, sent = <<>>, UNCHANGED <<argv, sent, ret>>,
         in_arg' \in [1 .. 3 -> Int],
         pc' \in Parsing => argv # <<>>,
         pc' = "switch" => argv[1].digits /\ in_arg'[1] = Parsed(1) /\ argv # <<>>,
         pc' \notin {"ioctl", "handler"}
  PROVE  ProcessInv'
<1>1. SendsWhatIsAsked' /\ StatusTells'
  BY DEF SendsWhatIsAsked, StatusTells
<1>2. Parsed(1)' = Parsed(1)
  BY DEF Parsed, strtoul, long
<1> QED
  BY <1>1, <1>2 DEF ProcessInv, Parsing

\* A step after it.
LEMMA AfterSending ==
  ASSUME ProcessInv, UNCHANGED <<argv, in_arg, sent>>, ret' \in {0, -1},
         sent # <<>> => pc' \in {"handler", "close", "ended"},
         sent = <<>> => pc' = "ended",
         pc' = "close" => ret' = 0, StatusTells'
  PROVE  ProcessInv'
<1>1. SendsWhatIsAsked'
  BY DEF ProcessInv, SendsWhatIsAsked, Meant
<1> QED
  BY <1>1 DEF ProcessInv, Parsing

LEMMA ParseStep ==
  ASSUME ProcessInv, NEW k \in {2, 3}, NEW at \in Parsing, NEW next \in Parsing,
         ParseUnused(k, at, next)
  PROVE  ProcessInv'
<1>1. sent = <<>> /\ argv # <<>> /\ UNCHANGED <<argv, sent, ret>>
  BY DEF ProcessInv, ParseUnused, In
<1>2. CASE Len(argv) >= k /\ strtoul_handler(k, next)
  <2>1. Parsed(k) \in Int
    BY <1>2, ParsedInt DEF ProcessInv
  <2>2. in_arg' \in [1 .. 3 -> Int] /\ pc' \in {"ended", next}
    BY <1>2, <2>1, HandlerFacts DEF ProcessInv
  <2> QED
    BY <1>1, <2>2, BeforeSending DEF Parsing
<1>3. CASE To(next) /\ UNCHANGED in_arg
  BY <1>1, <1>3, BeforeSending DEF To, Parsing, ProcessInv
<1> QED
  BY <1>2, <1>3 DEF ParseUnused

LEMMA OptionStep == ProcessInv /\ ParseOption => ProcessInv'
<1> SUFFICES ASSUME ProcessInv, ParseOption PROVE ProcessInv'
  OBVIOUS
<1>1. sent = <<>> /\ argv # <<>> /\ UNCHANGED <<argv, sent, ret>>
  BY DEF ProcessInv, ParseOption, In, Parsing
<1>2. 1 \in 1 .. Len(argv) /\ argv \in Seq(Arg)
  BY <1>1 DEF ProcessInv
<1>3. Parsed(1) \in Int
  BY <1>2, ParsedInt
<1>4. \/ pc' = "ended" /\ UNCHANGED in_arg
      \/ /\ pc' = "switch" /\ argv[1].digits
         /\ in_arg' = [in_arg EXCEPT ![1] = Parsed(1)]
  BY HandlerFacts DEF ParseOption
<1>5. in_arg \in [1 .. 3 -> Int]
  BY DEF ProcessInv
<1> QED
  BY <1>1, <1>3, <1>4, <1>5, BeforeSending DEF Parsing

LEMMA SwitchStep == ProcessInv /\ Switch => ProcessInv'
<1> SUFFICES ASSUME ProcessInv, Switch PROVE ProcessInv'
  OBVIOUS
<1>1. /\ sent = <<>> /\ argv # <<>> /\ argv[1].digits /\ in_arg[1] = Parsed(1)
      /\ UNCHANGED <<argv, in_arg, ret, errno>>
  BY DEF ProcessInv, Switch, In
<1>2. CASE in_arg[1] \notin DOMAIN TIMING_IOCTL
  BY <1>1, <1>2, BeforeSending DEF Switch, To, ProcessInv, Parsing
<1>3. CASE in_arg[1] \in DOMAIN TIMING_IOCTL
  <2>1. sent' = <<TIMING_IOCTL[in_arg[1]]>> /\ pc' = "ioctl"
    BY <1>1, <1>3 DEF Switch, To
  <2>2. argv[1] \in Arg
    BY <1>1 DEF ProcessInv
  <2>3. in_arg[1] \in 0 .. 7
    BY <1>3 DEF TIMING_IOCTL
  <2>4. in_arg[1] \in {Meant(argv[1]), Meant(argv[1]) + Limit}
    BY <1>1, <2>2, <2>3, ParsedMeant DEF Parsed
  <2>5. SendsWhatIsAsked'
    BY <1>1, <1>3, <2>1, <2>4 DEF SendsWhatIsAsked, Meant
  <2>6. StatusTells' /\ sent' # <<>>
    BY <2>1 DEF StatusTells
  <2> QED
    BY <1>1, <2>1, <2>5, <2>6 DEF ProcessInv, Parsing
<1> QED
  BY <1>2, <1>3

LEMMA ProcessStep == ProcessInv /\ [Next]_vars => ProcessInv'
<1> SUFFICES ASSUME ProcessInv, [Next]_vars PROVE ProcessInv'
  OBVIOUS
<1>1. CASE Start
  <2>1. /\ sent = <<>> /\ UNCHANGED <<argv, sent, ret, in_arg>>
        /\ pc' = "ended" \/ (pc' = "argv[2]" /\ Len(argv) >= 1)
    BY <1>1 DEF Start, In, To, Exit, ProcessInv
  <2> QED
    BY <2>1, BeforeSending DEF ProcessInv, Parsing
<1>2. CASE ParseUnused(2, "argv[2]", "argv[3]")
  BY <1>2, ParseStep DEF Parsing
<1>3. CASE ParseUnused(3, "argv[3]", "argv[1]")
  BY <1>3, ParseStep DEF Parsing
<1>4. CASE Answer
  <2>1. /\ UNCHANGED <<argv, in_arg, sent>> /\ sent # <<>> /\ ret' \in {0, -1}
        /\ pc' = "handler" \/ (pc' = "ended" /\ status' = "SIGKILL")
    BY <1>4 DEF Answer, In, To, Exit, ProcessInv
  <2>2. StatusTells'
    BY <2>1 DEF StatusTells
  <2> QED
    BY <2>1, <2>2, AfterSending
<1>5. CASE IOCTL_HANDLER
  <2>1. /\ UNCHANGED <<argv, in_arg, sent, ret>> /\ sent # <<>> /\ ret \in {0, -1}
        /\ \/ pc' = "ended" /\ ret = -1 /\ status' = "EXIT_FAILURE"
           \/ pc' = "close" /\ ret = 0
    BY <1>5 DEF IOCTL_HANDLER, In, To, Exit, ProcessInv
  <2>2. StatusTells'
    BY <2>1 DEF StatusTells
  <2> QED
    BY <2>1, <2>2, AfterSending
<1>6. CASE Close
  <2>1. /\ UNCHANGED <<argv, in_arg, sent, ret>> /\ ret \in {0, -1}
        /\ pc' = "ended" /\ status' = "EXIT_SUCCESS" /\ (sent # <<>> => ret = 0)
    BY <1>6 DEF Close, In, Exit, ProcessInv
  <2>2. StatusTells'
    BY <2>1 DEF StatusTells
  <2> QED
    BY <2>1, <2>2, AfterSending
<1>7. CASE UNCHANGED vars
  <2>1. Parsed(1)' = Parsed(1)
    BY <1>7 DEF vars, Parsed, strtoul, long
  <2> QED
    BY <1>7, <2>1 DEF vars, ProcessInv, SendsWhatIsAsked, StatusTells, Meant
<1> QED
  BY <1>1, <1>2, <1>3, <1>4, <1>5, <1>6, <1>7, OptionStep, SwitchStep DEF Next

LEMMA ProcessAlways == Spec => []ProcessInv
BY ProcessInit, ProcessStep, PTL DEF Spec

\* Whatever the arguments and the width of a long, no command goes to the device
\* that the option does not name.
THEOREM RightCommand == Spec => []SendsWhatIsAsked
<1>1. ProcessInv => SendsWhatIsAsked
  BY DEF ProcessInv
<1> QED
  BY ProcessAlways, <1>1, PTL

\* ... and the status tells whether the driver did what it was asked.
THEOREM RightStatus == Spec => []StatusTells
<1>1. ProcessInv => StatusTells
  BY DEF ProcessInv
<1> QED
  BY ProcessAlways, <1>1, PTL

-----------------------------------------------------------------------------
(* Refusals                                                                 *)

\* An error in errno comes from an argument parsed before the one that is next.
Tainted(k) == \E m \in Before(k) : m \in DOMAIN argv /\ Dirty(m)

CauseInv ==
  /\ ProcessInv
  /\ pc \in {"main", "argv[2]"} => errno = "none"
  /\ pc = "argv[3]" /\ errno # "none" => Tainted(3)
  /\ pc = "argv[1]" /\ errno # "none" => Tainted(1)
  /\ RefusalHasCause

\* An argument out of range is -1 as a long, which is never refused, so that a
\* number is only refused for an error that was there before.
LEMMA RefusedForPast ==
  ASSUME NEW k \in DOMAIN argv, argv \in Seq(Arg), argv[k].digits, Refused(argv[k])
  PROVE  errno # "none" /\ Suspect(k)
<1> DEFINE s == argv[k]
<1>1. /\ s.n \in Nat /\ Limit \in Nat /\ Limit > 16
      /\ Limit = 2 * (LONG_MAX + 1) /\ LONG_MAX \in Int /\ LONG_MIN = - (LONG_MAX + 1)
  <2>1. s \in Arg
    OBVIOUS
  <2>2. s.n \in Nat
    BY <2>1 DEF Arg
  <2>3. Limit \in Nat /\ Limit > 16 /\ Limit % 2 = 0
    BY ModIoctlAssumption
  <2> QED
    BY <2>2, <2>3 DEF LONG_MAX, LONG_MIN
<1>2. ASSUME s.n > ULONG_MAX PROVE long(strtoul(s).value) = -1
  BY <1>1, <1>2 DEF strtoul, long, ULONG_MAX
<1>3. long(strtoul(s).value) \in {0, LONG_MAX, LONG_MIN} /\ strtoul(s).errno # "none"
  BY DEF Refused
<1>4. ~ s.n > ULONG_MAX
  BY <1>1, <1>2, <1>3
<1>5. strtoul(s).errno = errno
  BY <1>4 DEF strtoul
<1> QED
  BY <1>3, <1>5 DEF Suspect

\* What is parsed either ends the process for a cause, or leaves errno as it was
\* unless the argument is one to be wary of.
LEMMA HandlerCause ==
  ASSUME CauseInv, NEW k \in {1, 2, 3}, k \in DOMAIN argv, NEW next,
         pc = <<"argv[1]", "argv[2]", "argv[3]">>[k],
         strtoul_handler(k, next), next # "ended", UNCHANGED <<argv, sent, fd>>
  PROVE  /\ RefusalHasCause'
         /\ pc' \in {next, "ended"}
         /\ pc' = next /\ errno' # "none" => errno # "none" \/ Dirty(k)
<1>1. argv \in Seq(Arg)
  BY DEF CauseInv, ProcessInv
<1>2. CASE Refused(argv[k]) /\ Exit("EXIT_FAILURE")
  <2>1. ASSUME argv[k].digits PROVE Suspect(k) /\ \E m \in Before(k) : Dirty(m)
    <3>1. errno # "none" /\ Suspect(k)
      BY <1>1, <1>2, <2>1, RefusedForPast
    <3> QED
      BY <3>1 DEF CauseInv, Tainted
  <2>2. ASSUME argv[k].digits
        PROVE  \E j \in DOMAIN argv : Suspect(j) /\ \E m \in Before(j) : Dirty(m)
    BY <2>1, <2>2
  <2>3. RefusalHasCause'
    BY <2>2 DEF RefusalHasCause, Suspect, Before, Dirty, strtoul, long
  <2> QED
    BY <1>2, <2>3 DEF Exit
<1>3. CASE ~ Refused(argv[k]) /\ To(next) /\ errno' \in AfterPrintf(argv[k], strtoul(argv[k]).errno)
  <2>1. RefusalHasCause' /\ pc' = next
    BY <1>3 DEF RefusalHasCause, To
  <2>2. errno' = strtoul(argv[k]).errno \/ argv[k].trailing
    BY <1>3 DEF AfterPrintf
  <2>3. strtoul(argv[k]).errno = errno \/ argv[k].n > ULONG_MAX
    BY DEF strtoul
  <2> QED
    BY <2>1, <2>2, <2>3 DEF Dirty
<1> QED
  BY <1>2, <1>3 DEF strtoul_handler

LEMMA CauseStep == CauseInv /\ [Next]_vars => CauseInv'
<1> SUFFICES ASSUME CauseInv, [Next]_vars PROVE CauseInv'
  OBVIOUS
<1> ProcessInv' /\ argv \in Seq(Arg)
  BY ProcessStep DEF CauseInv, ProcessInv
<1>1. CASE Start
  BY <1>1 DEF Start, In, To, Exit, CauseInv, RefusalHasCause
<1>2. CASE ParseUnused(2, "argv[2]", "argv[3]")
  <2>1. /\ pc = "argv[2]" /\ errno = "none" /\ UNCHANGED <<argv, sent, fd>>
        /\ (Tainted(3)' <=> Tainted(3)) /\ 2 \in Before(3)
    BY <1>2 DEF ParseUnused, In, CauseInv, Tainted, Before, Dirty
  <2>2. CASE Len(argv) >= 2 /\ strtoul_handler(2, "argv[3]")
    <3>1. 2 \in DOMAIN argv
      BY <2>2
    <3>2. RefusalHasCause' /\ pc' \in {"argv[3]", "ended"}
          /\ (pc' = "argv[3]" /\ errno' # "none" => Dirty(2))
      BY <2>1, <2>2, <3>1, HandlerCause
    <3> QED
      BY <2>1, <3>1, <3>2 DEF CauseInv, Tainted
  <2>3. CASE To("argv[3]") /\ UNCHANGED errno
    BY <2>1, <2>3 DEF To, CauseInv, RefusalHasCause
  <2> QED
    BY <1>2, <2>2, <2>3 DEF ParseUnused
<1>3. CASE ParseUnused(3, "argv[3]", "argv[1]")
  <2>1. /\ pc = "argv[3]" /\ UNCHANGED <<argv, sent, fd>>
        /\ (Tainted(1)' <=> Tainted(1))
        /\ errno # "none" => Tainted(1)
        /\ 3 \in DOMAIN argv => 3 \in Before(1)
    BY <1>3 DEF ParseUnused, In, CauseInv, Tainted, Before, Dirty
  <2>2. CASE Len(argv) >= 3 /\ strtoul_handler(3, "argv[1]")
    <3>1. 3 \in DOMAIN argv
      BY <2>2
    <3>2. RefusalHasCause' /\ pc' \in {"argv[1]", "ended"}
          /\ (pc' = "argv[1]" /\ errno' # "none" => errno # "none" \/ Dirty(3))
      BY <2>1, <2>2, <3>1, HandlerCause
    <3> QED
      BY <2>1, <3>1, <3>2 DEF CauseInv, Tainted
  <2>3. CASE To("argv[1]") /\ UNCHANGED errno
    BY <2>1, <2>3 DEF To, CauseInv, RefusalHasCause
  <2> QED
    BY <1>3, <2>2, <2>3 DEF ParseUnused
<1>4. CASE ParseOption
  <2>1. pc = "argv[1]" /\ UNCHANGED <<argv, sent, fd>> /\ 1 \in DOMAIN argv
    BY <1>4 DEF ParseOption, In, CauseInv, ProcessInv, Parsing
  <2>2. RefusalHasCause' /\ pc' \in {"switch", "ended"}
    BY <1>4, <2>1, HandlerCause DEF ParseOption
  <2> QED
    BY <2>2 DEF CauseInv
<1>5. CASE Switch \/ Close
  BY <1>5 DEF Switch, Close, To, Exit, CauseInv, RefusalHasCause
<1>6. CASE Answer \/ IOCTL_HANDLER
  <2>1. sent # <<>> /\ UNCHANGED sent
    BY <1>6 DEF Answer, IOCTL_HANDLER, In, CauseInv, ProcessInv
  <2>2. pc' \in {"handler", "close", "ended"}
    BY <1>6 DEF Answer, IOCTL_HANDLER, To, Exit
  <2> QED
    BY <2>1, <2>2 DEF CauseInv, RefusalHasCause
<1>7. CASE UNCHANGED vars
  BY <1>7 DEF vars, CauseInv, Tainted, RefusalHasCause, Suspect, Before, Dirty, strtoul, long
<1> QED
  BY <1>1, <1>2, <1>3, <1>4, <1>5, <1>6, <1>7 DEF Next

\* A number is refused for what it is not only if it is 0 or a limit of long and
\* an argument before it is out of range or has more text behind it.
THEOREM RefusalsExplained == Spec => []RefusalHasCause
<1>1. Init => CauseInv
  BY ProcessInit DEF Init, CauseInv, RefusalHasCause
<1>2. CauseInv => RefusalHasCause
  BY DEF CauseInv
<1> QED
  BY <1>1, <1>2, CauseStep, PTL DEF Spec

-----------------------------------------------------------------------------
(* Types                                                                    *)

\* strtoul_handler leaves a long, and an error of strtoul's or of printf's.
LEMMA ParsedLong ==
  ASSUME NEW s \in Arg
  PROVE  long(strtoul(s).value) \in LONG_MIN .. LONG_MAX
<1> DEFINE v == strtoul(s).value
<1>1. /\ s.n \in Nat /\ Limit \in Nat /\ Limit > 16 /\ LONG_MAX \in Int
      /\ Limit = 2 * (LONG_MAX + 1) /\ LONG_MIN = - (LONG_MAX + 1)
  BY ModIoctlAssumption DEF Arg, LONG_MAX, LONG_MIN
<1>2. v \in 0 .. ULONG_MAX
  BY <1>1 DEF strtoul, ULONG_MAX
<1> HIDE DEF v
<1>3. long(v) \in LONG_MIN .. LONG_MAX
  BY <1>1, <1>2 DEF long, ULONG_MAX
<1> QED
  BY <1>3 DEF v

LEMMA HandlerTypes ==
  ASSUME TypeOK, NEW k \in 1 .. 3, k <= Len(argv), NEW next, strtoul_handler(k, next),
         next \in Parsing \cup {"switch"}
  PROVE  /\ pc' \in Parsing \cup {"switch", "ended"}
         /\ in_arg' \in [1 .. 3 -> LONG_MIN .. LONG_MAX]
         /\ errno' \in Errors
         /\ status' \in {"none", "EXIT_SUCCESS", "EXIT_FAILURE", "SIGKILL"}
<1>1. argv[k] \in Arg
  BY DEF TypeOK
<1>2. CASE Refused(argv[k]) /\ Exit("EXIT_FAILURE") /\ UNCHANGED <<errno, in_arg>>
  BY <1>2 DEF Exit, TypeOK
<1>3. CASE /\ errno' \in AfterPrintf(argv[k], strtoul(argv[k]).errno)
           /\ in_arg' = [in_arg EXCEPT ![k] = long(strtoul(argv[k]).value)]
           /\ To(next)
  <2>1. strtoul(argv[k]).errno \in Errors
    BY DEF strtoul, TypeOK, Errors
  <2>2. errno' \in Errors
    BY <1>3, <2>1 DEF AfterPrintf, Errors
  <2>3. in_arg' \in [1 .. 3 -> LONG_MIN .. LONG_MAX]
    BY <1>1, <1>3, ParsedLong DEF TypeOK
  <2> QED
    BY <1>3, <2>2, <2>3 DEF To, TypeOK
<1> QED
  BY <1>2, <1>3 DEF strtoul_handler

LEMMA TypesInit == Init => TypeOK
<1> SUFFICES ASSUME Init PROVE TypeOK
  OBVIOUS
<1>1. argv \in Seq(Arg)
  BY ProcessInit DEF ProcessInv
<1>2. Len(argv) <= 3
  <2>1. \/ argv = <<>>
        \/ \E o \in Options : argv = <<o>>
        \/ \E o \in Options, a \in Addresses : argv = <<o, a>>
        \/ \E o \in Options, a \in Addresses, b \in Addresses : argv = <<o, a, b>>
    BY DEF Init
  <2>2. Len(argv) \in 0 .. 3
    BY <2>1
  <2>3. \A n \in 0 .. 3 : n <= 3
    OBVIOUS
  <2> QED
    BY <2>2, <2>3, Zenon
<1>3. LONG_MAX \in Int /\ LONG_MAX >= 0 /\ LONG_MIN = - (LONG_MAX + 1)
  BY ModIoctlAssumption DEF LONG_MAX, LONG_MIN
<1>4. in_arg \in [1 .. 3 -> LONG_MIN .. LONG_MAX]
  BY <1>3 DEF Init
<1>5. /\ pc = "main" /\ fd = FALSE /\ errno = "none" /\ sent = <<>> /\ ret = 0
      /\ status = "none"
  BY DEF Init
<1>6. <<>> \in Seq({TIMING_IOCTL[n] : n \in 0 .. 7})
  OBVIOUS
<1> QED
  BY <1>1, <1>2, <1>4, <1>5, <1>6 DEF TypeOK, Errors

LEMMA TypesStep == TypeOK /\ ProcessInv /\ [Next]_vars => TypeOK'
<1> SUFFICES ASSUME TypeOK, ProcessInv, [Next]_vars PROVE TypeOK'
  OBVIOUS
<1>1. CASE Start
  BY <1>1 DEF Start, To, Exit, TypeOK
<1>2. ASSUME NEW k \in {2, 3}, NEW at \in Parsing, NEW next \in Parsing,
             ParseUnused(k, at, next)
      PROVE  TypeOK'
  <2>1. UNCHANGED <<argv, fd, sent, ret>>
    BY <1>2 DEF ParseUnused
  <2>2. CASE Len(argv) >= k /\ strtoul_handler(k, next)
    <3>1. /\ pc' \in Parsing \cup {"switch", "ended"}
          /\ in_arg' \in [1 .. 3 -> LONG_MIN .. LONG_MAX] /\ errno' \in Errors
          /\ status' \in {"none", "EXIT_SUCCESS", "EXIT_FAILURE", "SIGKILL"}
      BY <2>2, HandlerTypes DEF TypeOK
    <3> QED
      BY <2>1, <3>1 DEF TypeOK, Parsing
  <2>3. CASE To(next) /\ UNCHANGED <<errno, in_arg>>
    BY <2>1, <2>3 DEF To, TypeOK, Parsing
  <2> QED
    BY <1>2, <2>2, <2>3 DEF ParseUnused
<1>3. CASE ParseOption
  <2>1. UNCHANGED <<argv, fd, sent, ret>> /\ 1 <= Len(argv)
    BY <1>3 DEF ParseOption, In, ProcessInv, Parsing
  <2>2. /\ pc' \in Parsing \cup {"switch", "ended"}
        /\ in_arg' \in [1 .. 3 -> LONG_MIN .. LONG_MAX] /\ errno' \in Errors
        /\ status' \in {"none", "EXIT_SUCCESS", "EXIT_FAILURE", "SIGKILL"}
    BY <1>3, <2>1, HandlerTypes DEF ParseOption
  <2> QED
    BY <2>1, <2>2 DEF TypeOK, Parsing
<1>4. CASE Switch
  <2>1. sent' \in Seq({TIMING_IOCTL[n] : n \in 0 .. 7})
    <3>1. sent \in Seq({TIMING_IOCTL[n] : n \in 0 .. 7}) /\ DOMAIN TIMING_IOCTL = 0 .. 7
      BY DEF TypeOK, TIMING_IOCTL
    <3> QED
      BY <1>4, <3>1 DEF Switch
  <2> QED
    BY <1>4, <2>1 DEF Switch, To, TypeOK
<1>5. CASE Answer
  BY <1>5 DEF Answer, To, Exit, TypeOK, Errors
<1>6. CASE IOCTL_HANDLER \/ Close
  BY <1>6 DEF IOCTL_HANDLER, Close, To, Exit, TypeOK
<1>7. CASE UNCHANGED vars
  BY <1>7 DEF vars, TypeOK
<1> QED
  BY <1>1, <1>2, <1>3, <1>4, <1>5, <1>6, <1>7 DEF Next, Parsing

\* What strtoul leaves fits into the long that main keeps it in, at every width.
THEOREM TypeCorrect == Spec => []TypeOK
BY TypesInit, TypesStep, ProcessAlways, PTL DEF Spec

=============================================================================
