------------------------------ MODULE ModIoctl ------------------------------
(***************************************************************************)
(* mod_ioctl.c: one process, from its arguments to its exit status.  It    *)
(* parses them with strtoul, whose errors it looks for in errno, sends one *)
(* command to the device, and reports.                                     *)
(*                                                                         *)
(* An argument is what strtoul finds in it: whether there are digits, a    *)
(* minus sign, the number, and whether anything comes after it.            *)
(***************************************************************************)
EXTENDS Integers, Sequences

CONSTANTS
  Limit,      \* ULONG_MAX + 1
  Options,    \* what argv[1] may be
  Addresses   \* what argv[2] and argv[3] may be

Arg == [digits : BOOLEAN, neg : BOOLEAN, n : Nat, trailing : BOOLEAN]

ULONG_MAX == Limit - 1
LONG_MAX  == Limit \div 2 - 1
LONG_MIN  == - (Limit \div 2)

ASSUME ModIoctlAssumption ==
  /\ Limit \in Nat /\ Limit > 16 /\ Limit % 2 = 0
  /\ Options \subseteq Arg /\ Addresses \subseteq Arg

VARIABLES
  argv,       \* the arguments: argc is one more
  pc,         \* the argument to parse next, or what comes after
  fd,         \* the device is open
  errno,      \* 0 or the name of an error: never cleared
  in_arg,     \* in_arg[k]: what strtoul_handler made of argv[k]
  sent,       \* the commands that went to the device
  ret,        \* what ioctl returned
  status      \* of the process, once it has ended

vars == <<argv, pc, fd, errno, in_arg, sent, ret, status>>

In(from) == pc = from
To(to)   == pc' = to /\ UNCHANGED status
Exit(s)  == pc' = "ended" /\ status' = s

-----------------------------------------------------------------------------
(* The arguments                                                           *)

\* More than ULONG_MAX is ULONG_MAX and an error; a minus sign is applied modulo
\* ULONG_MAX + 1, and is no error.
strtoul(s) ==
  [value |-> IF ~ s.digits THEN 0
             ELSE IF s.n > ULONG_MAX THEN ULONG_MAX
             ELSE IF s.neg /\ s.n > 0 THEN Limit - s.n ELSE s.n,
   errno |-> IF s.digits /\ s.n > ULONG_MAX THEN "ERANGE" ELSE errno]

\* Mutant: in_arg is unsigned.
long_unsigned(v) == v

long(v) == IF v > LONG_MAX THEN v - Limit ELSE v

\* Mutant: any error number counts.
RefusedOnErrno(s) == strtoul(s).errno # "none" \/ ~ s.digits

\* What ends the program; without digits, errno is as it was.
Refused(s) ==
  LET v == long(strtoul(s).value)
      e == strtoul(s).errno
  IN  \/ e = "ERANGE" /\ v \in {LONG_MAX, LONG_MIN}
      \/ e # "none" /\ v = 0
      \/ ~ s.digits

\* A printf to what is no terminal may leave ENOTTY in errno.
AfterPrintf(s, e) == IF s.trailing THEN {e, "ENOTTY"} ELSE {e}

strtoul_handler(k, next) ==
  \/ /\ Refused(argv[k])
     /\ Exit("EXIT_FAILURE")
     /\ UNCHANGED <<errno, in_arg>>
  \/ /\ ~ Refused(argv[k])
     /\ errno' \in AfterPrintf(argv[k], strtoul(argv[k]).errno)
     /\ in_arg' = [in_arg EXCEPT ![k] = long(strtoul(argv[k]).value)]
     /\ To(next)

-----------------------------------------------------------------------------
(* main                                                                    *)

\* The usage line, or open("/dev/ECR").
Start ==
  /\ In("main")
  /\ \/ /\ Len(argv) >= 1
        /\ fd' = TRUE
        /\ To("argv[2]")
     \/ fd' = FALSE /\ Exit("EXIT_FAILURE")
  /\ UNCHANGED <<argv, errno, in_arg, sent, ret>>

\* argv[2] and argv[3] first, if they are there; then the option.
ParseUnused(k, at, next) ==
  /\ In(at)
  /\ \/ Len(argv) >= k /\ strtoul_handler(k, next)
     \/ Len(argv) < k /\ To(next) /\ UNCHANGED <<errno, in_arg>>
  /\ UNCHANGED <<argv, fd, sent, ret>>

ParseOption ==
  /\ In("argv[1]")
  /\ strtoul_handler(1, "switch")
  /\ UNCHANGED <<argv, fd, sent, ret>>

\* The command of each case, by its number in mod_ioctl.h.
TIMING_IOCTL == [n \in 0 .. 7 |->
  <<"NOP", "WALL", "THREAD", "CACHE", "MEMORY", "WALL_FL", "THREAD_FL", "KMALLOC">>[n + 1]]

\* default does not change the status.
Switch ==
  /\ In("switch")
  /\ \/ /\ in_arg[1] \in DOMAIN TIMING_IOCTL
        /\ sent' = Append(sent, TIMING_IOCTL[in_arg[1]])
        /\ To("ioctl")
     \/ /\ in_arg[1] \notin DOMAIN TIMING_IOCTL
        /\ To("close")
        /\ UNCHANGED sent
  /\ UNCHANGED <<argv, fd, errno, in_arg, ret>>

\* The driver answers with 0 or with an error, or kills the process by a fault;
\* or it never answers.
Answer ==
  /\ In("ioctl")
  /\ \/ ret' = 0 /\ To("handler") /\ UNCHANGED errno
     \/ ret' = -1 /\ To("handler") /\ errno' \in {"EFAULT", "EINVAL"}
     \/ Exit("SIGKILL") /\ UNCHANGED <<ret, errno>>
  /\ UNCHANGED <<argv, fd, in_arg, sent>>

\* Mutants: the answer is not looked at; there is no break before the next case.
HandlerForgets ==
  /\ In("handler")
  /\ To("close")
  /\ UNCHANGED <<argv, fd, errno, in_arg, sent, ret>>

HandlerFallsThrough ==
  /\ In("handler")
  /\ \/ ret = -1 /\ Exit("EXIT_FAILURE") /\ UNCHANGED in_arg
     \/ ret # -1 /\ To("switch") /\ in_arg' = [in_arg EXCEPT ![1] = @ + 1]
  /\ UNCHANGED <<argv, fd, errno, sent, ret>>

IOCTL_HANDLER ==
  /\ In("handler")
  /\ \/ ret = -1 /\ Exit("EXIT_FAILURE")
     \/ ret # -1 /\ To("close")
  /\ UNCHANGED <<argv, fd, errno, in_arg, sent, ret>>

Close ==
  /\ In("close")
  /\ fd' = FALSE
  /\ Exit("EXIT_SUCCESS")
  /\ UNCHANGED <<argv, errno, in_arg, sent, ret>>

Init ==
  /\ argv \in {<<>>} \cup {<<o>> : o \in Options}
                \cup {<<o, a>> : o \in Options, a \in Addresses}
                \cup {<<o, a, b>> : o \in Options, a \in Addresses, b \in Addresses}
  /\ pc = "main"
  /\ fd = FALSE
  /\ errno = "none"
  /\ in_arg = [k \in 1 .. 3 |-> 0]
  /\ sent = <<>>
  /\ ret = 0
  /\ status = "none"

Next ==
  \/ Start \/ ParseUnused(2, "argv[2]", "argv[3]") \/ ParseUnused(3, "argv[3]", "argv[1]")
  \/ ParseOption \/ Switch \/ Answer \/ IOCTL_HANDLER \/ Close

Spec == Init /\ [][Next]_vars

-----------------------------------------------------------------------------
(* Properties                                                              *)

Errors == {"none", "ERANGE", "ENOTTY", "EFAULT", "EINVAL"}

TypeOK ==
  /\ argv \in Seq(Arg) /\ Len(argv) <= 3
  /\ pc \in {"main", "argv[2]", "argv[3]", "argv[1]", "switch", "ioctl", "handler",
             "close", "ended"}
  /\ fd \in BOOLEAN
  /\ errno \in Errors
  /\ in_arg \in [1 .. 3 -> LONG_MIN .. LONG_MAX]
  /\ sent \in Seq({TIMING_IOCTL[n] : n \in 0 .. 7})
  /\ ret \in {0, -1}
  /\ status \in {"none", "EXIT_SUCCESS", "EXIT_FAILURE", "SIGKILL"}

\* The number that an argument is.
Meant(s) == IF s.neg THEN - s.n ELSE s.n

\* At most one command goes to the device, and it is the one that the option
\* names, or names modulo ULONG_MAX + 1: whatever comes in the other arguments,
\* text without digits and numbers out of range are never taken for an option.
SendsWhatIsAsked ==
  sent # <<>> =>
    /\ argv[1].digits
    /\ \E n \in DOMAIN TIMING_IOCTL :
         /\ sent = <<TIMING_IOCTL[n]>>
         /\ n \in {Meant(argv[1]), Meant(argv[1]) + Limit}

\* Once a command has gone out, the script can tell from the exit status
\* whether the driver carried it out.
StatusTells ==
  pc = "ended" /\ sent # <<>> /\ status # "SIGKILL" =>
    (status = "EXIT_SUCCESS" <=> ret = 0)

\* errno is never cleared, so a number may be refused for what came before it.
\* That only happens to 0 and the limits of long, which may stand for an error,
\* and only after an argument out of range, or one with more text behind it.
Before(k)  == 2 .. IF k = 1 THEN Len(argv) ELSE k - 1
Suspect(k) == long(strtoul(argv[k]).value) \in {0, LONG_MAX, LONG_MIN}
Dirty(k)   == argv[k].n > ULONG_MAX \/ argv[k].trailing

RefusalHasCause ==
  /\ pc = "ended" /\ sent = <<>> /\ status = "EXIT_FAILURE" /\ fd
  /\ \A k \in DOMAIN argv : argv[k].digits
  => \E k \in DOMAIN argv : Suspect(k) /\ \E m \in Before(k) : Dirty(m)

=============================================================================
