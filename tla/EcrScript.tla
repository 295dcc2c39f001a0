----------------------------- MODULE EcrScript -----------------------------
(***************************************************************************)
(* ecr.sh: a session inserts the module, lets mod_ioctl run measurements,  *)
(* reads the results out of the kernel log and removes the module.  The    *)
(* log outlives a session, and only traps clean up after one that stops    *)
(* half way.  A command of the script is one step; the driver is what the  *)
(* script sees of it: is it there, has it a buffer, what does it log.      *)
(***************************************************************************)
EXTENDS Integers, Sequences, FiniteSets, FiniteSetsExt, SequencesExt, Statistics

CONSTANTS
  Sessions,   \* runs of ecr.sh
  Table,      \* Table[m]: the rows the script asks for in mode m
  Program,    \* Program[m]: what the driver measures in mode m, in order
  Rounds,     \* how often it is measured: seq 1 15
  Time,       \* Time[series][row][i]: what it takes in round i
  LogSizes,   \* how many lines the kernel log may hold
  Faulting,   \* rows whose instruction may fault
  MaxFailures, \* how many commands may fail that the driver would have run
  NULL        \* no value: an empty string

Modes   == {"standard", "flush", "cache", "memory"}
Probing == {"cache", "memory"}

\* gated: the driver measures the row only if there is a buffer.  No command
\* measures a row twice.  Only the standard table has the rows that the others
\* are compared with.
ASSUME EcrScriptAssumption ==
  /\ Rounds \in Nat \ {0} /\ LogSizes \subseteq Nat \ {0} /\ MaxFailures \in Nat
  /\ NULL \notin Sessions /\ NULL \notin Sessions \X (1 .. Rounds) \X STRING
  /\ \A m \in Modes :
       /\ Program[m] \in Seq([row : STRING, gated : BOOLEAN])
       /\ \A j, k \in DOMAIN Program[m] : Program[m][j].row = Program[m][k].row => j = k
  /\ \A m \in Modes \ Probing, series \in {"wall", "nop"}, i \in 1 .. Rounds :
       \A k \in DOMAIN Program[m] : Time[series][Program[m][k].row][i] \in Nat
  /\ {"XOR", "CPUID"} \subseteq Table["standard"] \ Table["flush"]

VARIABLES
  logsize,    \* the lines that the kernel log holds
  failures,   \* how many of them have failed
  loaded,     \* the module is inserted
  vmem,       \* ... and has a buffer
  log,        \* the kernel log
  wrapped,    \* history: lines of it were lost
  pc,         \* pc[s]: the command session s is at
  args,       \* args[s]: the mode, -k, and whether $1 is the module
  round,      \* round[s]: i of the measurement loop
  shown,      \* shown[s]: the session whose buffer's address is on the screen
  why,        \* why[s]: what ended the session
  read,       \* read[s]: the values parsed, by series, round and row
  measured,   \* history: the values the driver measured for s
  printed,    \* printed[s]: the table at the end, once it is printed
  overlapped  \* history: two sessions were under way at once

klog    == <<log, wrapped>>
module  == <<loaded, vmem, klog>>
session == <<round, shown, why, read, measured, printed>>
vars    == <<logsize, failures, module, pc, args, session, overlapped>>

-----------------------------------------------------------------------------
(* The kernel log                                                          *)

\* A line that prints value as its last word.  A word that is no number, as in
\* the driver's other messages, counts as zero in $(( )).
Zero == <<>>
Line(kind, row, value) == [kind |-> kind, row |-> row, value |-> value]
Other == Line("other", NULL, Zero)

\* The ring keeps the last lines.
Emit(lines) ==
  LET all == log \o lines
      n   == Len(all)
  IN  /\ log' = IF n <= logsize THEN all ELSE SubSeq(all, n - logsize + 1, n)
      /\ wrapped' = (wrapped \/ n > logsize)

\* Mutant: the whole log is searched.
SinceBoot == 1

\* Where grep -A100000000 of the last "Inserting" begins, or 0 when that line
\* has left the ring: grep without a pattern prints nothing.
Since == SelectLastInSeq(log, LAMBDA l : l.kind = "insert")

\* The last line of a kind for a row, from there on, or 0.
Found(kind, row) ==
  LET k == SelectLastInSeq(log, LAMBDA l : l.kind = kind /\ l.row = row)
  IN  IF Since > 0 /\ k > Since THEN k ELSE 0

ValueAt(k) == IF k = 0 THEN NULL ELSE log[k].value

\* Mutant: the line of the label itself.
NopParseLabel(row) == ValueAt(Found("label", row))

wall_parse(row)  == ValueAt(Found("wall", row))
probe_parse(row) == ValueAt(Found("cycles", row))

\* grep -A 1 | tail -1: the line after the label, or the label if it is the last.
nop_parse(row) ==
  LET k == Found("label", row)
  IN  ValueAt(IF k \in 1 .. Len(log) - 1 THEN k + 1 ELSE k)

\* grep "Allocating memory" -A 1 | grep -o 0x... | tail -1, in the whole log.
address_parse ==
  LET told(k) == log[k].kind = "address" /\ k > 1 /\ log[k - 1].kind = "alloc"
      K == {k \in DOMAIN log : told(k)}
  IN  IF K = {} THEN NULL ELSE log[Max(K)].value

-----------------------------------------------------------------------------
(* What the driver logs for a command                                      *)

\* A gated entry does not run without a buffer: the loop macros print a zero.
Runs(e) == e.gated => vmem
Result(s, e) == IF Runs(e) THEN <<s, round[s], e.row>> ELSE Zero

\* The lines of an entry: "WALL_X: ", "NOP_X: " and the count on its own line, or
\* "NOP_X: 0", and the cycles of an address or of a page.
EntryLines(s, series, e) ==
  LET v == Result(s, e)
  IN  CASE series = "nop" /\ v # Zero -> <<Line("label", e.row, NULL), Line("count", NULL, v)>>
        [] series = "nop" /\ v = Zero -> <<Line("label", e.row, v)>>
        [] series # "nop" -> <<Line(series, e.row, v)>>

Entry(series, i, row, value) ==
  [series |-> series, round |-> i, row |-> row, value |-> value]

Entries(s) == Program[args[s].mode]

\* The driver measures and logs the first n entries.
Report(s, series, n) ==
  LET lines == [k \in 1 .. n |-> EntryLines(s, series, Entries(s)[k])]
  IN  /\ Emit(<<Other>> \o FlattenSeq(lines) \o <<Other>>)
      /\ measured' = [measured EXCEPT ![s] = @ \cup
           {Entry(series, round[s], Entries(s)[k].row, Result(s, Entries(s)[k])) : k \in 1 .. n}]

\* There is no device, or the command needs a buffer.
Refused(series) == ~ loaded \/ (series = "cycles" /\ ~ vmem)

\* Any other command may fail, but no more than MaxFailures do.
GoesWrong == failures < MaxFailures /\ failures' = failures + 1

Completes(s, series) ==
  ~ Refused(series) /\ Report(s, series, Len(Entries(s))) /\ UNCHANGED failures

\* An instruction that faults ends the command.
FaultsMidway(s, series) ==
  /\ ~ Refused(series) /\ GoesWrong
  /\ \E k \in DOMAIN Entries(s) :
       /\ Runs(Entries(s)[k]) /\ Entries(s)[k].row \in Faulting
       /\ Report(s, series, k - 1)

\* Nothing is measured: the device cannot be opened, or the ioctl dies first, as
\* when kthread_create fails and kthread_bind takes the error for a thread.
Fails(series) ==
  /\ IF Refused(series) THEN UNCHANGED failures ELSE GoesWrong
  /\ \/ UNCHANGED klog
     \/ loaded /\ Emit(<<Other, Other>>)
  /\ UNCHANGED measured

\* mod_ioctl: opens /dev/ECR, sends one command and exits.  When it fails or is
\* killed, the ERR trap says so, and the script goes on.
mod_ioctl(s, series) == Completes(s, series) \/ Fails(series)

-----------------------------------------------------------------------------
(* A session                                                               *)

At(s, from, to) == pc[s] = from /\ pc' = [pc EXCEPT ![s] = to]
Exit(s, from, reason) ==
  At(s, from, "exit") /\ why' = [why EXCEPT ![s] = reason]

\* The traps keep the $1 of the command line: the module, if it came first.
\* All modes but the standard one allocate.
Begin(s) ==
  /\ \E m \in Modes, k, f \in BOOLEAN :
       /\ m # "standard" => k
       /\ args' = [args EXCEPT ![s] = [mode |-> m, kmalloc |-> k, first |-> f]]
  /\ \/ At(s, "idle", "insmod") /\ UNCHANGED why
     \/ Exit(s, "idle", "usage")
  /\ UNCHANGED <<failures, module, round, shown, read, measured, printed>>

\* The module is there already, or it does not load, or misc_register refuses.
insmod(s) ==
  /\ \/ /\ ~ loaded
        /\ At(s, "insmod", IF args[s].kmalloc THEN "kmalloc" ELSE "measure")
        /\ loaded' = TRUE /\ vmem' = FALSE
        /\ Emit(<<Line("insert", NULL, Zero)>>)
        /\ UNCHANGED <<why, failures>>
     \/ /\ Exit(s, "insmod", "invalid")
        /\ IF loaded THEN UNCHANGED <<failures, klog>>
           ELSE /\ GoesWrong
                /\ UNCHANGED klog \/ Emit(<<Line("insert", NULL, Zero), Other>>)
        /\ UNCHANGED <<loaded, vmem>>
  /\ UNCHANGED <<args, round, shown, read, measured, printed>>

\* Command 7.  It does not get there; or kmalloc fails and the process is killed;
\* or the buffer is there, and whether the driver says so depends on what it holds.
Kmalloc(s) ==
  /\ At(s, "kmalloc", "address")
  /\ LET alloc == Line("alloc", NULL, Zero)
     IN  \/ Fails("alloc") /\ UNCHANGED vmem
         \/ /\ loaded /\ UNCHANGED <<measured, failures>>
            /\ \/ Emit(<<Other, alloc, Other, Other>>) /\ vmem' \in {vmem, TRUE}
               \/ Emit(<<Other, alloc, Line("address", NULL, s), Other>>) /\ vmem' = TRUE
  /\ UNCHANGED <<loaded, args, round, shown, why, read, printed>>

\* Then the script waits for Enter.
ReadAddress(s) ==
  /\ IF address_parse = NULL
     THEN Exit(s, "address", "alloc") /\ UNCHANGED shown
     ELSE /\ At(s, "address", "measure")
          /\ shown' = [shown EXCEPT ![s] = address_parse]
          /\ UNCHANGED why
  /\ UNCHANGED <<failures, module, args, round, read, measured, printed>>

\* Command 1 or 5; 3 or 4.
Measure(s) ==
  /\ \/ /\ args[s].mode \in Probing
        /\ At(s, "measure", "read_probe")
        /\ mod_ioctl(s, "cycles")
     \/ /\ args[s].mode \notin Probing
        /\ At(s, "measure", "read_wall")
        /\ (mod_ioctl(s, "wall") \/ FaultsMidway(s, "wall"))
  /\ UNCHANGED <<loaded, vmem, args, round, shown, why, read, printed>>

\* Command 2 or 6.  When it is the INSTR thread that faults, nobody sets finish,
\* and the ioctl sleeps for ever, beyond the reach of signals.
MeasureNop(s) ==
  /\ \/ At(s, "nop", "read_nop") /\ mod_ioctl(s, "nop")
     \/ At(s, "nop", "hung") /\ FaultsMidway(s, "nop")
  /\ UNCHANGED <<loaded, vmem, args, round, shown, why, read, printed>>

\* One value for each row of the table.
RowsOf(s) == Table[args[s].mode]
Read(s, series, values) ==
  read' = [read EXCEPT ![s] = @ \cup
    {Entry(series, round[s], r, values[r]) : r \in RowsOf(s)}]

ReadWall(s) ==
  /\ At(s, "read_wall", "nop")
  /\ Read(s, "wall", [r \in RowsOf(s) |-> wall_parse(r)])
  /\ UNCHANGED <<failures, module, args, round, shown, why, measured, printed>>

\* Mutant: one round too many.
ReadNopAgain(s) ==
  /\ At(s, "read_nop", IF round[s] <= Rounds THEN "measure" ELSE "rmmod")
  /\ Read(s, "nop", [r \in RowsOf(s) |-> nop_parse(r)])
  /\ round' = [round EXCEPT ![s] = @ + 1]
  /\ UNCHANGED <<failures, module, args, shown, why, measured, printed>>

ReadNop(s) ==
  /\ At(s, "read_nop", IF round[s] < Rounds THEN "measure" ELSE "rmmod")
  /\ Read(s, "nop", [r \in RowsOf(s) |-> nop_parse(r)])
  /\ round' = [round EXCEPT ![s] = IF @ < Rounds THEN @ + 1 ELSE @]
  /\ UNCHANGED <<failures, module, args, shown, why, measured, printed>>

\* Cache and memory timing print each value as they read it.
ReadProbe(s) ==
  /\ At(s, "read_probe", "rmmod")
  /\ Read(s, "cycles", [r \in RowsOf(s) |-> probe_parse(r)])
  /\ UNCHANGED <<failures, module, args, round, shown, why, measured, printed>>

\* timing_cleanup_module says so; rmmod of anything else changes nothing.
RemoveModule(it) ==
  /\ loaded' = (loaded /\ ~ it)
  /\ IF loaded /\ it THEN Emit(<<Other>>) ELSE UNCHANGED klog
  /\ UNCHANGED vmem

\* By now getopt has made the module $1.
rmmod(s) ==
  /\ At(s, "rmmod", "print")
  /\ RemoveModule(TRUE)
  /\ UNCHANGED <<failures, args, round, shown, why, read, measured, printed>>

\* The numbers among the words that were read for a row, in order: an empty
\* word is none.
Number(series, v) == IF v = Zero THEN 0 ELSE Time[series][v[3]][v[2]]

Numbers(s, series, row) ==
  LET word(i)  == (CHOOSE e \in read[s] : e.series = series /\ e.round = i /\ e.row = row).value
      words(i) == IF word(i) = NULL THEN <<>> ELSE <<Number(series, word(i))>>
  IN  FlattenSeq([i \in 1 .. Rounds |-> words(i)])

\* The averages and variances, and then the marks.  wall_avg_CPUID and its like
\* are only set by the rows of this mode.
Summary(s) ==
  LET column(series) == [r \in RowsOf(s) |-> average(Numbers(s, series, r))]
      wall == column("wall")
      nop  == column("nop")
      time(r) == IF r \in RowsOf(s) THEN [wall |-> wall[r], nop |-> nop[r]]
                 ELSE [wall |-> 0, nop |-> 0]
      var(r)  == [wall |-> variance(wall[r], Numbers(s, "wall", r)),
                  nop  |-> variance(nop[r], Numbers(s, "nop", r))]
  IN  [r \in RowsOf(s) |->
        [avg |-> time(r), var |-> var(r),
         exit |-> IF r \in {"INB", "OUTB"} THEN "-"
                  ELSE evaluate_exiting(time(r), time("XOR"), time("CPUID"))]]

\* The table, or results.csv.  That of cache and memory timing is there already.
PrintTable(s) ==
  /\ Exit(s, "print", "done")
  /\ printed' = [printed EXCEPT ![s] = IF args[s].mode \in Probing THEN @ ELSE Summary(s)]
  /\ UNCHANGED <<failures, module, args, round, shown, read, measured>>

\* Mutant: the EXIT trap does not remove the module.
finish_nothing(s) ==
  /\ At(s, "exit", "ended")
  /\ UNCHANGED <<failures, module, args, round, shown, why, read, measured, printed>>

\* INT: bash lets the command end, and runs the trap.
ctrl_c(s) ==
  /\ pc[s] \notin {"idle", "hung", "exit", "ended"}
  /\ Exit(s, pc[s], "interrupt")
  /\ RemoveModule(args[s].first)
  /\ UNCHANGED <<failures, args, round, shown, read, measured, printed>>

\* EXIT: after every exit, and after the last line.
finish(s) ==
  /\ At(s, "exit", "ended")
  /\ RemoveModule(args[s].first)
  /\ UNCHANGED <<failures, args, round, shown, why, read, measured, printed>>

-----------------------------------------------------------------------------
Init ==
  /\ logsize \in LogSizes
  /\ failures = 0
  /\ loaded = FALSE /\ vmem = FALSE
  /\ log = <<>> /\ wrapped = FALSE
  /\ pc = [s \in Sessions |-> "idle"]
  /\ args = [s \in Sessions |-> [mode |-> "standard", kmalloc |-> FALSE, first |-> TRUE]]
  /\ round = [s \in Sessions |-> 1]
  /\ shown = [s \in Sessions |-> NULL]
  /\ why = [s \in Sessions |-> ""]
  /\ read = [s \in Sessions |-> {}]
  /\ measured = [s \in Sessions |-> {}]
  /\ printed = [s \in Sessions |-> <<>>]
  /\ overlapped = FALSE

Step(s) ==
  \/ Begin(s) \/ insmod(s) \/ Kmalloc(s) \/ ReadAddress(s) \/ Measure(s)
  \/ ReadWall(s) \/ MeasureNop(s) \/ ReadNop(s) \/ ReadProbe(s) \/ rmmod(s)
  \/ PrintTable(s) \/ ctrl_c(s) \/ finish(s)

Active == {s \in Sessions : pc[s] \notin {"idle", "ended"}}

\* Nothing keeps a second session from being started: overlapped tells.
Next ==
  /\ \E s \in Sessions : Step(s)
  /\ overlapped' = (overlapped \/ Cardinality(Active') > 1)
  /\ UNCHANGED logsize

Spec == Init /\ [][Next]_vars

-----------------------------------------------------------------------------
(* Properties                                                              *)

Rows    == UNION {Table[m] : m \in Modes}
Value   == {Zero, NULL} \cup (Sessions \X (1 .. Rounds) \X Rows)
Series  == {"wall", "nop", "cycles"}
Results == [series : Series, round : 1 .. Rounds, row : Rows, value : Value]

TypeOK ==
  /\ logsize \in LogSizes /\ failures \in 0 .. MaxFailures
  /\ {loaded, vmem, wrapped, overlapped} \subseteq BOOLEAN
  /\ Len(log) <= logsize
  /\ pc \in [Sessions -> {"idle", "insmod", "kmalloc", "address", "measure",
                          "read_wall", "nop", "hung", "read_nop", "read_probe",
                          "rmmod", "print", "exit", "ended"}]
  /\ args \in [Sessions -> [mode : Modes, kmalloc : BOOLEAN, first : BOOLEAN]]
  /\ round \in [Sessions -> 1 .. Rounds]
  /\ shown \in [Sessions -> Sessions \cup {NULL}]
  /\ why \in [Sessions -> {"", "usage", "invalid", "alloc", "interrupt", "done"}]
  /\ \A s \in Sessions : read[s] \subseteq Results

\* As long as sessions take turns and the ring has lost nothing, each value read
\* is the last that the driver measured for this row in this session, up to this
\* round: the value of this round, or, if its command failed before this row, that
\* of an earlier one.  A row that was not measured yet has no value.  A zero may
\* be read as nothing, which averages to zero as well.
Undisturbed == ~ wrapped /\ ~ overlapped

Latest(s, series, i, row) ==
  LET known == {m \in measured[s] : m.series = series /\ m.row = row /\ m.round <= i}
  IN  {m \in known : \A n \in known : n.round <= m.round}

OwnValues ==
  Undisturbed => \A s \in Sessions : \A e \in read[s] :
    LET own == Latest(s, e.series, e.round, e.row)
    IN  /\ own = {} => e.value = NULL
        /\ \A m \in own : e.value = m.value \/ (m.value = Zero /\ e.value = NULL)

\* When the ring is too small for a session, values are lost, but what is read is
\* never another session's or row's, nor any but the last that was measured.
OwnOrNothing ==
  ~ overlapped => \A s \in Sessions : \A e \in read[s] :
    e.value \in {NULL, Zero} \cup {m.value : m \in Latest(s, e.series, e.round, e.row)}

\* The averages of the table are those of the last value of the row in each round
\* that had one by then, so a value counts again in each round whose command failed;
\* they are rounded down, and the variances are within one of theirs, though they
\* are taken around the rounded average and empty words drop out.
Totals(s, series, row) ==
  LET own  == {i \in 1 .. Rounds : Latest(s, series, i, row) # {}}
      t(i) == Number(series, (CHOOSE m \in Latest(s, series, i, row) : TRUE).value)
  IN  [n |-> Cardinality(own), sum |-> MapThenSumSet(t, own),
       squares |-> MapThenSumSet(LAMBDA i : t(i) * t(i), own)]

StatisticsTrue ==
  Undisturbed => \A s \in Sessions : \A row \in DOMAIN printed[s], series \in {"wall", "nop"} :
    LET own == Totals(s, series, row)
        avg == printed[s][row].avg[series]
        var == printed[s][row].var[series]
        off == own.n * own.n * var - (own.n * own.squares - own.sum * own.sum)
    IN  IF own.n = 0 THEN avg = 0 /\ var = 0
        ELSE /\ own.n * avg <= own.sum /\ own.sum < own.n * (avg + 1)
             /\ off \in - (own.n * own.n) .. own.n * own.n

\* Where CPUID takes longer than XOR, the table marks as probable exits the rows
\* whose averages are nearer to CPUID's, but for INB and OUTB.  A flush session
\* measures neither, and marks each row that takes any time at all.
Distance(a, b) == IF a < b THEN b - a ELSE a - b
Near(t, low, high) == Distance(t, high) < Distance(t, low)

MarksTell ==
  Undisturbed => \A s \in Sessions : \A row \in DOMAIN printed[s] \ {"INB", "OUTB"} :
    LET avg(r) == printed[s][r].avg
        near == {series \in {"wall", "nop"} :
                   IF args[s].mode = "flush" THEN avg(row)[series] > 0
                   ELSE Near(avg(row)[series], avg("XOR")[series], avg("CPUID")[series])}
        clear == args[s].mode = "flush" \/
                   \A series \in {"wall", "nop"} : avg("XOR")[series] < avg("CPUID")[series]
    IN  clear => printed[s][row].exit = <<"", "?", "X">>[Cardinality(near) + 1]

\* Sessions that name the module first leave it removed, however they end and
\* though the trap of one removes the module of another: the next can insert it.
ModuleRemoved ==
  (\A s \in Sessions : pc[s] = "idle" \/ (pc[s] = "ended" /\ args[s].first)) =>
    ~ loaded

-----------------------------------------------------------------------------
(* What the script says, and does not do                                   *)

\* ecr.sh:250: "Memory has been allocated at kernel virtual address": it is the
\* address of a buffer that this session allocated.
AddressIsOwn == ~ overlapped => \A s \in Sessions : shown[s] \in {NULL, s}

\* ecr.sh:247: "Memory allocation failed. Rerun the script.": the session has
\* left the module removed, or the rerun cannot insert it.
RerunWorks ==
  ~ overlapped /\ (\A s \in Sessions : pc[s] = "idle" \/ (pc[s] = "ended" /\ why[s] = "alloc")) =>
    ~ loaded

=============================================================================
