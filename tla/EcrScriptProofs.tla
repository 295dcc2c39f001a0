-------------------------- MODULE EcrScriptProofs --------------------------
(***************************************************************************)
(* Theorems about EcrScript, for every set of sessions, every table and    *)
(* program, every size of the log, sessions that overlap and commands that *)
(* fail, as often as they may.                                             *)
(***************************************************************************)
EXTENDS EcrScript, SequenceLemmas, FiniteSetTheorems, TLAPS

-----------------------------------------------------------------------------
\* Where a session stands, as far as the traps are concerned.
Under == {"insmod", "kmalloc", "address", "measure", "read_wall", "nop",
          "hung", "read_nop", "read_probe", "rmmod", "print", "exit"}

ControlOK ==
  /\ pc \in [Sessions -> Under \cup {"idle", "ended"}]
  /\ args \in [Sessions -> [mode : Modes, kmalloc : BOOLEAN, first : BOOLEAN]]

\* Somebody answers for a module that is inserted: a session under way, whose
\* EXIT trap is still to come, or one whose trap did not know the module.
Answers(s) == pc[s] \in Under \/ (pc[s] = "ended" /\ ~ args[s].first)

RemovalInv ==
  /\ ControlOK
  /\ loaded => \E s \in Sessions : Answers(s)

-----------------------------------------------------------------------------
\* A session that is under way after its step answers for the module itself.
LEMMA MovesOn ==
  ASSUME RemovalInv, NEW s \in Sessions, NEW to \in Under,
         pc' = [pc EXCEPT ![s] = to], UNCHANGED args
  PROVE  RemovalInv'
<1>1. ControlOK'
  BY DEF RemovalInv, ControlOK
<1>2. Answers(s)'
  BY DEF RemovalInv, ControlOK, Answers
<1> QED
  BY <1>1, <1>2 DEF RemovalInv

LEMMA BeginKeeps ==
  ASSUME RemovalInv, NEW s \in Sessions, Begin(s)
  PROVE  RemovalInv'
<1>1. \E to \in Under : pc' = [pc EXCEPT ![s] = to]
  BY DEF Begin, At, Exit, Under
<1>2. args' \in [Sessions -> [mode : Modes, kmalloc : BOOLEAN, first : BOOLEAN]]
  BY DEF Begin, RemovalInv, ControlOK
<1>3. ControlOK' /\ Answers(s)'
  BY <1>1, <1>2 DEF RemovalInv, ControlOK, Answers
<1> QED
  BY <1>3 DEF RemovalInv

\* The EXIT trap removes the module, or the session answers for it for ever.
LEMMA FinishKeeps ==
  ASSUME RemovalInv, NEW s \in Sessions, finish(s)
  PROVE  RemovalInv'
<1>1. /\ pc[s] = "exit" /\ pc' = [pc EXCEPT ![s] = "ended"]
      /\ args' = args /\ loaded' = (loaded /\ ~ args[s].first)
  BY DEF finish, At, RemoveModule
<1>2. ControlOK'
  BY <1>1 DEF RemovalInv, ControlOK
<1>3. ASSUME loaded' PROVE Answers(s)'
  BY <1>1, <1>3 DEF RemovalInv, ControlOK, Answers
<1> QED
  BY <1>2, <1>3 DEF RemovalInv

LEMMA RemovalStep == RemovalInv /\ [Next]_vars => RemovalInv'
<1> SUFFICES ASSUME RemovalInv, [Next]_vars PROVE RemovalInv'
  OBVIOUS
<1>1. ASSUME NEW s \in Sessions, Step(s) PROVE RemovalInv'
  <2>1. CASE Begin(s)
    BY <2>1, BeginKeeps
  <2>2. CASE insmod(s)
    <3>1. UNCHANGED args /\ \E to \in Under : pc' = [pc EXCEPT ![s] = to]
      BY <2>2 DEF insmod, At, Exit, Under
    <3> QED
      BY <3>1, MovesOn
  <2>3. CASE Kmalloc(s)
    BY <2>3, MovesOn DEF Kmalloc, At, Under
  <2>4. CASE ReadAddress(s)
    <3>1. UNCHANGED args /\ \E to \in Under : pc' = [pc EXCEPT ![s] = to]
      BY <2>4 DEF ReadAddress, At, Exit, Under
    <3> QED
      BY <3>1, MovesOn
  <2>5. CASE Measure(s)
    <3>1. UNCHANGED args /\ \E to \in Under : pc' = [pc EXCEPT ![s] = to]
      BY <2>5 DEF Measure, At, Under
    <3> QED
      BY <3>1, MovesOn
  <2>6. CASE MeasureNop(s)
    BY <2>6, MovesOn DEF MeasureNop, At, Under
  <2>7. CASE ReadWall(s)
    BY <2>7, MovesOn DEF ReadWall, At, Under
  <2>8. CASE ReadNop(s)
    <3>1. UNCHANGED args /\ \E to \in Under : pc' = [pc EXCEPT ![s] = to]
      BY <2>8 DEF ReadNop, At, Under
    <3> QED
      BY <3>1, MovesOn
  <2>9. CASE ReadProbe(s)
    BY <2>9, MovesOn DEF ReadProbe, At, Under
  <2>10. CASE rmmod(s)
    BY <2>10, MovesOn DEF rmmod, At, Under
  <2>11. CASE PrintTable(s)
    BY <2>11, MovesOn DEF PrintTable, Exit, At, Under
  <2>12. CASE ctrl_c(s)
    BY <2>12, MovesOn DEF ctrl_c, Exit, At, Under
  <2>13. CASE finish(s)
    BY <2>13, FinishKeeps
  <2> QED
    BY <1>1, <2>1, <2>2, <2>3, <2>4, <2>5, <2>6, <2>7, <2>8, <2>9, <2>10,
       <2>11, <2>12, <2>13 DEF Step
<1>2. CASE UNCHANGED vars
  BY <1>2 DEF vars, module, RemovalInv, ControlOK, Answers
<1> QED
  BY <1>1, <1>2 DEF Next

LEMMA RemovalInit == Init => RemovalInv
<1> SUFFICES ASSUME Init PROVE RemovalInv
  OBVIOUS
<1>1. pc \in [Sessions -> Under \cup {"idle", "ended"}]
  BY DEF Init
<1>2. [mode |-> "standard", kmalloc |-> FALSE, first |-> TRUE]
        \in [mode : Modes, kmalloc : BOOLEAN, first : BOOLEAN]
  BY DEF Modes
<1>3. args \in [Sessions -> [mode : Modes, kmalloc : BOOLEAN, first : BOOLEAN]]
  BY <1>2 DEF Init
<1>4. ~ loaded
  BY DEF Init
<1> QED
  BY <1>1, <1>3, <1>4 DEF RemovalInv, ControlOK

\* However sessions end, by an error, by Ctrl+C or at the end of the script, and
\* whatever runs beside them: if each named the module first, it is removed.
THEOREM RemovedInTheEnd == Spec => []ModuleRemoved
<1>1. ASSUME RemovalInv, \A s \in Sessions : pc[s] = "idle" \/ (pc[s] = "ended" /\ args[s].first)
      PROVE  ~ loaded
  <2>1. \A s \in Sessions : ~ Answers(s)
    BY <1>1 DEF Answers, Under
  <2> QED
    BY <1>1, <2>1 DEF RemovalInv
<1>2. RemovalInv => ModuleRemoved
  BY <1>1 DEF ModuleRemoved
<1> QED
  BY RemovalInit, RemovalStep, <1>2, PTL DEF Spec

-----------------------------------------------------------------------------
(* The kernel log                                                           *)

Words   == {Zero, NULL} \cup Sessions \cup (Sessions \X (1 .. Rounds) \X STRING)
Names   == STRING \cup {NULL}
Kinds   == {"insert", "alloc", "address", "wall", "cycles", "label", "count", "other"}
LogLine == [kind : Kinds, row : Names, value : Words]

LEMMA LineTyped ==
  ASSUME NEW kind \in Kinds, NEW row \in Names, NEW value \in Words
  PROVE  /\ Line(kind, row, value) \in LogLine
         /\ Line(kind, row, value).kind = kind
         /\ Line(kind, row, value).row = row
         /\ Line(kind, row, value).value = value
BY DEF Line, LogLine

LEMMA LineWords ==
  /\ NULL \in Names /\ \A r \in STRING : r \in Names
  /\ Zero \in Words /\ NULL \in Words /\ \A s \in Sessions : s \in Words
BY Zenon DEF Names, Words

LEMMA OtherTyped == Other \in LogLine /\ Other.kind = "other" /\ Other.value = Zero
<1>1. NULL \in Names /\ Zero \in Words
  BY LineWords, Zenon
<1>2. "other" \in Kinds
  BY DEF Kinds
<1> QED
  BY <1>1, <1>2, LineTyped DEF Other

\* A value of the row r, or none.
Tells(v, r) ==
  v \in {Zero, NULL} \/ \E t \in Sessions : \E j \in 1 .. Rounds : v = <<t, j, r>>

\* The lines that are parsed hold what is looked for in them; a label has the line
\* with its count behind it, or another that tells of no other row.
Proper(L) ==
  /\ L \in Seq(LogLine)
  /\ \A k \in 1 .. Len(L) :
       /\ L[k].kind = "address" => L[k].value \in Sessions
       /\ L[k].kind \in {"wall", "cycles"} => Tells(L[k].value, L[k].row)
       /\ L[k].kind = "label" => k < Len(L) /\ Tells(L[k + 1].value, L[k].row)

LEMMA ProperJoin ==
  ASSUME NEW a, NEW b, NEW c, NEW p, Proper(a), Proper(b), c \in Seq(LogLine), Joined(c, a, b, p)
  PROVE  Proper(c)
<1>1. a \in Seq(LogLine) /\ b \in Seq(LogLine)
  BY DEF Proper
<1>2. p = Len(a) /\ Len(a) \in Int /\ Len(b) \in Int /\ Len(a) >= 0 /\ Len(b) >= 0
  BY <1>1 DEF Joined
<1>3. /\ Len(c) = p + Len(b)
      /\ \A j \in 1 .. Len(a) : c[j] = a[j]
      /\ \A i \in 1 .. Len(b) : c[p + i] = b[i]
  BY DEF Joined
<1>4. ASSUME NEW k \in 1 .. Len(c)
      PROVE  /\ c[k].kind = "address" => c[k].value \in Sessions
             /\ c[k].kind \in {"wall", "cycles"} => Tells(c[k].value, c[k].row)
             /\ c[k].kind = "label" => k < Len(c) /\ Tells(c[k + 1].value, c[k].row)
  <2>1. CASE k \in 1 .. Len(a)
    <3>1. c[k] = a[k]
      BY <1>3, <2>1
    <3>2. ASSUME k < Len(a) PROVE c[k + 1] = a[k + 1] /\ k < Len(c)
      <4>1. k + 1 \in 1 .. Len(a)
        BY <1>2, <2>1, <3>2
      <4> QED
        BY <1>2, <1>3, <3>2, <4>1
    <3> QED
      BY <2>1, <3>1, <3>2 DEF Proper
  <2>2. CASE k \notin 1 .. Len(a)
    <3>1. PICK j \in 1 .. Len(b) : k = p + j
      BY <2>2 DEF Joined
    <3>2. c[k] = b[j] /\ (j < Len(b) => c[k + 1] = b[j + 1] /\ k < Len(c))
      <4>1. c[k] = b[j]
        BY <1>3, <3>1
      <4>2. ASSUME j < Len(b) PROVE c[k + 1] = b[j + 1] /\ k < Len(c)
        <5>1. j + 1 \in 1 .. Len(b) /\ k + 1 = p + (j + 1)
          BY <1>2, <3>1, <4>2
        <5> QED
          BY <1>2, <1>3, <3>1, <4>2, <5>1
      <4> QED
        BY <4>1, <4>2
    <3> QED
      BY <3>2 DEF Proper
  <2> QED
    BY <2>1, <2>2
<1> QED
  BY <1>4 DEF Proper

LEMMA ProperKept ==
  ASSUME NEW L, NEW M, NEW d, Proper(L), M \in Seq(LogLine), Kept(L, M, d)
  PROVE  Proper(M)
<1>1. /\ d \in Int /\ Len(M) \in Int /\ Len(M) = Len(L) - d /\ Len(L) \in Int
      /\ \A k \in 1 .. Len(M) : k + d \in 1 .. Len(L) /\ M[k] = L[k + d]
  BY DEF Kept, Proper
<1>2. ASSUME NEW k \in 1 .. Len(M)
      PROVE  /\ M[k].kind = "address" => M[k].value \in Sessions
             /\ M[k].kind \in {"wall", "cycles"} => Tells(M[k].value, M[k].row)
             /\ M[k].kind = "label" => k < Len(M) /\ Tells(M[k + 1].value, M[k].row)
  <2>1. k + d \in 1 .. Len(L) /\ M[k] = L[k + d]
    BY <1>1
  <2>2. ASSUME M[k].kind = "label" PROVE k < Len(M) /\ M[k + 1] = L[(k + d) + 1]
    <3>1. k + d < Len(L)
      BY <2>1, <2>2 DEF Proper
    <3>2. k < Len(M) /\ k + 1 \in 1 .. Len(M) /\ (k + 1) + d = (k + d) + 1
      BY <1>1, <3>1
    <3> QED
      BY <1>1, <3>2
  <2> QED
    BY <2>1, <2>2 DEF Proper
<1> QED
  BY <1>2 DEF Proper

\* A command's lines join the log, and the ring keeps the last.
LEMMA EmitKeeps ==
  ASSUME log \in Seq(LogLine), logsize \in Nat \ {0}, wrapped \in BOOLEAN,
         NEW lines \in Seq(LogLine), Emit(lines)
  PROVE  \E d : /\ Kept(log \o lines, log', d)
                /\ log' \in Seq(LogLine) /\ Len(log') <= logsize
                /\ wrapped' \in BOOLEAN
                /\ ~ wrapped' => ~ wrapped /\ log' = log \o lines
                /\ (lines # <<>> /\ log' # <<>>) \/ lines = <<>>
<1> DEFINE all == log \o lines
           n == Len(all)
<1>1. all \in Seq(LogLine) /\ logsize \in Int /\ logsize > 0
  OBVIOUS
<1>2. /\ log' = IF n <= logsize THEN all ELSE SubSeq(all, n - logsize + 1, n)
      /\ wrapped' = (wrapped \/ n > logsize)
  BY DEF Emit
<1>3. lines # <<>> => all # <<>>
  OBVIOUS
<1> HIDE DEF all
<1>4. n \in Int /\ n >= 0
  BY <1>1
<1>5. CASE n <= logsize
  <2>1. log' = all /\ wrapped' = wrapped
    <3>1. ~ n > logsize
      BY <1>1, <1>4, <1>5
    <3> QED
      BY <1>2, <1>5, <3>1
  <2>2. Kept(all, all, 0)
    BY <1>1, KeptAll
  <2> QED
    BY <1>1, <1>3, <1>5, <2>1, <2>2 DEF all
<1>6. CASE n > logsize
  <2>1. ~ n <= logsize
    BY <1>1, <1>4, <1>6
  <2>2. log' = LastOnes(all, logsize) /\ wrapped' = TRUE
    BY <1>2, <1>6, <2>1 DEF LastOnes
  <2>3. /\ log' \in Seq(LogLine) /\ Len(log') = logsize
        /\ Kept(all, log', n - logsize)
    BY <1>1, <1>6, <2>2, KeptLast
  <2>4. log' # <<>> /\ Len(log') <= logsize
    BY <1>1, <2>3
  <2> QED
    BY <2>2, <2>3, <2>4 DEF all
<1>7. n <= logsize \/ n > logsize
  BY <1>1, <1>4
<1> QED
  BY <1>5, <1>6, <1>7, Zenon

-----------------------------------------------------------------------------
(* What the script finds in it                                              *)

Data == {"wall", "cycles", "label"}

\* Line k comes after the last insertion that L tells of.
Recent(L, k) ==
  \E j \in 1 .. k - 1 :
    L[j].kind = "insert" /\ \A i \in j + 1 .. Len(L) : L[i].kind # "insert"

LastOf(L, k) ==
  \A j \in k + 1 .. Len(L) : ~ (L[j].kind = L[k].kind /\ L[j].row = L[k].row)

\* What is parsed when line k is found.
Word(L, k) == IF L[k].kind = "label" THEN L[k + 1].value ELSE L[k].value

LEMMA SinceLast ==
  ASSUME Proper(log)
  PROVE  \/ Since = 0 /\ \A j \in 1 .. Len(log) : log[j].kind # "insert"
         \/ /\ Since \in 1 .. Len(log) /\ log[Since].kind = "insert"
            /\ \A j \in Since + 1 .. Len(log) : log[j].kind # "insert"
<1> DEFINE I == {j \in 1 .. Len(log) : log[j].kind = "insert"}
<1>1. Since = IF I # {} THEN Max(I) ELSE 0
  BY DEF Since, SelectLastInSeq
<1>2. PICK n \in Nat : n = Len(log)
  BY DEF Proper
<1>3. CASE I = {}
  BY <1>1, <1>3
<1>4. CASE I # {}
  <2>1. Max(I) \in I /\ \A j \in I : j <= Max(I)
    BY <1>2, <1>4, Greatest
  <2>2. Since \in I /\ \A j \in I : j <= Since
    BY <1>1, <1>4, <2>1
  <2>3. ASSUME NEW j \in Since + 1 .. Len(log) PROVE log[j].kind # "insert"
    <3>1. j \in 1 .. Len(log) /\ ~ j <= Since
      BY <1>2, <2>2
    <3> QED
      BY <2>2, <3>1
  <2> QED
    BY <2>2, <2>3
<1> QED
  BY <1>3, <1>4

\* Found is the last of the lines looked for, if it is recent, or none is.
LEMMA FoundLast ==
  ASSUME Proper(log), NEW kind, NEW row, kind # "insert"
  PROVE  \/ /\ Found(kind, row) = 0
            /\ \A j \in 1 .. Len(log) :
                 ~ (Recent(log, j) /\ log[j].kind = kind /\ log[j].row = row)
         \/ /\ Found(kind, row) \in 1 .. Len(log)
            /\ LET k == Found(kind, row)
               IN  Recent(log, k) /\ LastOf(log, k) /\ log[k].kind = kind /\ log[k].row = row
<1> DEFINE I == {j \in 1 .. Len(log) : log[j].kind = kind /\ log[j].row = row}
           m == IF I # {} THEN Max(I) ELSE 0
<1>1. Found(kind, row) = IF Since > 0 /\ m > Since THEN m ELSE 0
  BY DEF Found, SelectLastInSeq
<1>2. PICK n \in Nat : n = Len(log)
  BY DEF Proper
<1>3. (m = 0 /\ I = {}) \/ (m \in I /\ \A j \in I : j <= m)
  <2>1. ASSUME I # {} PROVE Max(I) \in I /\ \A j \in I : j <= Max(I)
    BY <1>2, <2>1, Greatest
  <2> QED
    BY <2>1
<1> HIDE DEF m
<1>4. Since \in Int /\ m \in Int
  BY <1>2, <1>3, SinceLast
<1>5. ASSUME NEW j \in 1 .. Len(log), Recent(log, j)
      PROVE  Since > 0 /\ j > Since
  <2>1. PICK l \in 1 .. j - 1 :
          log[l].kind = "insert" /\ \A i \in l + 1 .. Len(log) : log[i].kind # "insert"
    BY <1>5 DEF Recent
  <2>2. l \in 1 .. Len(log)
    BY <1>2
  <2>3. Since \in 1 .. Len(log) /\ log[Since].kind = "insert"
    BY <2>1, <2>2, SinceLast
  <2>4. Since <= l
    BY <1>2, <2>1, <2>3
  <2> QED
    BY <1>2, <2>3, <2>4
<1>6. CASE Since > 0 /\ m > Since
  <2>1. Found(kind, row) = m /\ m \in I /\ \A j \in I : j <= m
    BY <1>1, <1>3, <1>4, <1>6
  <2>2. Recent(log, m)
    <3>1. Since \in 1 .. m - 1
      BY <1>4, <1>6
    <3> QED
      BY <1>4, <1>6, <3>1, SinceLast DEF Recent
  <2>3. LastOf(log, m)
    <3>1. ASSUME NEW j \in m + 1 .. Len(log), log[j].kind = kind, log[j].row = row PROVE FALSE
      <4>1. j \in 1 .. Len(log) /\ ~ j <= m
        BY <1>2, <2>1
      <4> QED
        BY <2>1, <3>1, <4>1
    <3> QED
      BY <2>1, <3>1 DEF LastOf
  <2> QED
    BY <2>1, <2>2, <2>3
<1>7. CASE ~ (Since > 0 /\ m > Since)
  <2>1. Found(kind, row) = 0
    BY <1>1, <1>7
  <2>2. ASSUME NEW j \in 1 .. Len(log), Recent(log, j), log[j].kind = kind, log[j].row = row
        PROVE  FALSE
    <3>1. Since > 0 /\ j > Since /\ j <= m /\ j \in Int
      BY <1>2, <1>3, <1>5, <2>2
    <3> QED
      BY <1>4, <1>7, <3>1
  <2> QED
    BY <2>1, <2>2
<1> QED
  BY <1>6, <1>7

\* What is parsed from a line that is found, of any kind.
LEMMA ParsedWord ==
  ASSUME Proper(log), NEW row
  PROVE  /\ wall_parse(row) = IF Found("wall", row) = 0 THEN NULL ELSE Word(log, Found("wall", row))
         /\ probe_parse(row) = IF Found("cycles", row) = 0 THEN NULL ELSE Word(log, Found("cycles", row))
         /\ nop_parse(row) = IF Found("label", row) = 0 THEN NULL ELSE Word(log, Found("label", row))
<1>1. wall_parse(row) = IF Found("wall", row) = 0 THEN NULL ELSE Word(log, Found("wall", row))
  BY FoundLast DEF wall_parse, ValueAt, Word
<1>2. probe_parse(row) = IF Found("cycles", row) = 0 THEN NULL ELSE Word(log, Found("cycles", row))
  BY FoundLast DEF probe_parse, ValueAt, Word
<1>3. nop_parse(row) = IF Found("label", row) = 0 THEN NULL ELSE Word(log, Found("label", row))
  <2> DEFINE k == Found("label", row)
  <2>1. k = 0 \/ (k \in 1 .. Len(log) /\ log[k].kind = "label")
    BY FoundLast
  <2>2. nop_parse(row) = ValueAt(IF k \in 1 .. Len(log) - 1 THEN k + 1 ELSE k)
    BY DEF nop_parse
  <2> HIDE DEF k
  <2>3. ASSUME k = 0 PROVE nop_parse(row) = NULL
    <3>1. ~ k \in 1 .. Len(log) - 1
      BY <2>3 DEF Proper
    <3> QED
      BY <2>2, <2>3, <3>1 DEF ValueAt
  <2>4. ASSUME k \in 1 .. Len(log), log[k].kind = "label"
        PROVE  k # 0 /\ nop_parse(row) = Word(log, k)
    <3>1. k < Len(log) /\ Len(log) \in Int
      BY <2>4 DEF Proper
    <3>2. k \in 1 .. Len(log) - 1 /\ k + 1 # 0 /\ k # 0
      BY <2>4, <3>1
    <3> QED
      BY <2>2, <2>4, <3>2 DEF ValueAt, Word
  <2> QED
    BY <2>1, <2>3, <2>4 DEF k
<1> QED
  BY <1>1, <1>2, <1>3

-----------------------------------------------------------------------------
(* What it may find: P pairs rows with values                               *)

Matches(P, r, w) == \E p \in P : p[1] = r /\ (w = p[2] \/ (p[2] = Zero /\ w = NULL))

\* Lines B insert nothing, and of this kind they report P and nothing else.
Reports(B, kind, P) ==
  /\ \A k \in 1 .. Len(B) :
       /\ B[k].kind # "insert"
       /\ B[k].kind = kind => Matches(P, B[k].row, Word(B, k))
  /\ \A p \in P : \E k \in 1 .. Len(B) : B[k].kind = kind /\ B[k].row = p[1]

\* What L says last of a row, since the last insertion, it says with a value of P.
Fresh(L, kind, P) ==
  \A k \in 1 .. Len(L) :
    Recent(L, k) /\ L[k].kind = kind /\ LastOf(L, k) => Matches(P, L[k].row, Word(L, k))

\* ... and it leaves no row of P out.
Shown(L, kind, P) ==
  \A p \in P : \E k \in 1 .. Len(L) : Recent(L, k) /\ L[k].kind = kind /\ L[k].row = p[1]

Inserted(L) == \E k \in 1 .. Len(L) : L[k].kind = "insert"

\* P, changed by Q, becomes R: what Q tells of a row replaces what P does.
Replaces(P, Q, R) ==
  /\ Q \subseteq R
  /\ \A p \in P : p \in R \/ \E q \in Q : q[1] = p[1]
  /\ \A r \in R : r \in Q \/ r \in P

LEMMA LastInsertion ==
  ASSUME NEW L \in Seq(LogLine), Inserted(L)
  PROVE  \E j \in 1 .. Len(L) :
           L[j].kind = "insert" /\ \A i \in j + 1 .. Len(L) : L[i].kind # "insert"
<1> DEFINE I == {j \in 1 .. Len(L) : L[j].kind = "insert"}
<1>1. PICK n \in Nat : n = Len(L)
  OBVIOUS
<1>2. Max(I) \in I /\ \A j \in I : j <= Max(I)
  BY <1>1, Greatest DEF Inserted
<1>3. PICK m \in I : \A j \in I : j <= m
  BY <1>2
<1>4. ASSUME NEW i \in m + 1 .. Len(L) PROVE L[i].kind # "insert"
  <2>1. i \in 1 .. Len(L) /\ ~ i <= m
    BY <1>1, <1>3
  <2> QED
    BY <1>3, <2>1
<1> QED
  BY <1>3, <1>4

\* A command that reports Q after others that reported P.
LEMMA AfterReport ==
  ASSUME NEW a, NEW b, NEW c, NEW p, Proper(a), Proper(b), Joined(c, a, b, p),
         c \in Seq(LogLine), NEW kind \in Data, NEW P, NEW Q, NEW R,
         Reports(b, kind, Q), Replaces(P, Q, R)
  PROVE  /\ Fresh(a, kind, P) => Fresh(c, kind, R)
         /\ Inserted(a) => Inserted(c)
         /\ Inserted(a) /\ Shown(a, kind, P) => Shown(c, kind, R)
<1>1. PICK m \in Nat : m = Len(a)
  BY DEF Proper
<1>2. PICK n \in Nat : n = Len(b)
  BY DEF Proper
<1>3. p = m /\ Len(c) = m + n
  BY <1>1, <1>2 DEF Joined
<1>4. \A j \in 1 .. m : c[j] = a[j]
  BY <1>1 DEF Joined
<1>5. \A i \in 1 .. n : c[m + i] = b[i]
  BY <1>1, <1>2 DEF Joined
<1>6. ASSUME NEW k \in 1 .. m, Recent(c, k) PROVE Recent(a, k)
  <2>1. PICK j \in 1 .. k - 1 :
          c[j].kind = "insert" /\ \A i \in j + 1 .. Len(c) : c[i].kind # "insert"
    BY <1>6 DEF Recent
  <2>2. a[j].kind = "insert"
    BY <1>4, <2>1
  <2>3. \A i \in j + 1 .. Len(a) : a[i].kind # "insert"
    BY <1>1, <1>3, <1>4, <2>1
  <2> QED
    BY <2>2, <2>3 DEF Recent
<1>7. ASSUME NEW k \in m + 1 .. m + n
      PROVE  k - m \in 1 .. n /\ c[k] = b[k - m] /\ Word(c, k) = Word(b, k - m)
  <2>1. k - m \in 1 .. n /\ m + (k - m) = k
    BY <1>2
  <2>2. c[k] = b[k - m]
    BY <1>5, <2>1
  <2>3. ASSUME b[k - m].kind = "label" PROVE c[k + 1] = b[(k - m) + 1]
    <3>1. k - m < n
      BY <1>2, <2>1, <2>3 DEF Proper
    <3>2. (k - m) + 1 \in 1 .. n /\ m + ((k - m) + 1) = k + 1
      BY <2>1, <3>1
    <3> QED
      BY <1>5, <3>2
  <2> QED
    BY <2>1, <2>2, <2>3 DEF Word
<1>8. \A k \in 1 .. Len(c) : k \in 1 .. m \/ k \in m + 1 .. m + n
  BY <1>3
<1>9. ASSUME NEW k \in 1 .. m PROVE Word(c, k) = Word(a, k)
  <2>1. c[k] = a[k]
    BY <1>4
  <2>2. ASSUME a[k].kind = "label" PROVE c[k + 1] = a[k + 1]
    <3>1. k < m
      BY <1>1, <2>2 DEF Proper
    <3>2. k + 1 \in 1 .. m
      BY <3>1
    <3> QED
      BY <1>4, <3>2
  <2> QED
    BY <2>1, <2>2 DEF Word
<1>10. ASSUME Fresh(a, kind, P) PROVE Fresh(c, kind, R)
  <2>1. ASSUME NEW k \in 1 .. Len(c), Recent(c, k), c[k].kind = kind, LastOf(c, k)
        PROVE  Matches(R, c[k].row, Word(c, k))
    <3>1. CASE k \in 1 .. m
      <4>1. LastOf(a, k)
        <5>1. ASSUME NEW j \in k + 1 .. m PROVE ~ (a[j].kind = a[k].kind /\ a[j].row = a[k].row)
          <6>1. j \in 1 .. m /\ j \in k + 1 .. Len(c)
            BY <1>3, <3>1
          <6> QED
            BY <1>4, <2>1, <3>1, <6>1 DEF LastOf
        <5> QED
          BY <1>1, <5>1 DEF LastOf
      <4>2. Recent(a, k) /\ c[k] = a[k]
        BY <1>4, <1>6, <2>1, <3>1
      <4>3. Matches(P, c[k].row, Word(c, k))
        BY <1>1, <1>9, <1>10, <2>1, <3>1, <4>1, <4>2 DEF Fresh
      <4>4. PICK q \in P : q[1] = c[k].row /\ (Word(c, k) = q[2] \/ (q[2] = Zero /\ Word(c, k) = NULL))
        BY <4>3 DEF Matches
      <4>5. ASSUME NEW x \in Q, x[1] = q[1] PROVE FALSE
        <5>1. PICK i \in 1 .. n : b[i].kind = kind /\ b[i].row = x[1]
          BY <1>2 DEF Reports
        <5>2. m + i \in k + 1 .. Len(c) /\ c[m + i] = b[i]
          BY <1>2, <1>3, <1>5, <3>1, <5>1
        <5> QED
          BY <2>1, <4>4, <4>5, <5>1, <5>2 DEF LastOf
      <4> QED
        BY <4>4, <4>5 DEF Matches, Replaces
    <3>2. CASE k \in m + 1 .. m + n
      <4>1. k - m \in 1 .. Len(b) /\ c[k] = b[k - m] /\ Word(c, k) = Word(b, k - m)
        BY <1>2, <1>7, <3>2
      <4>2. Matches(Q, c[k].row, Word(c, k))
        BY <2>1, <4>1 DEF Reports
      <4> QED
        BY <4>2 DEF Matches, Replaces
    <3> QED
      BY <1>8, <3>1, <3>2
  <2> QED
    BY <2>1 DEF Fresh
<1>11. ASSUME NEW j \in 1 .. m, a[j].kind = "insert", \A i \in j + 1 .. m : a[i].kind # "insert"
       PROVE  /\ j \in 1 .. Len(c) /\ c[j].kind = "insert"
              /\ \A i \in j + 1 .. Len(c) : c[i].kind # "insert"
  <2>1. j \in 1 .. Len(c) /\ c[j].kind = "insert"
    BY <1>3, <1>4, <1>11
  <2>2. ASSUME NEW i \in j + 1 .. Len(c) PROVE c[i].kind # "insert"
    <3>1. CASE i \in 1 .. m
      <4>1. i \in j + 1 .. m
        BY <3>1
      <4> QED
        BY <1>4, <1>11, <3>1, <4>1
    <3>2. CASE i \in m + 1 .. m + n
      BY <1>2, <1>7, <3>2 DEF Reports
    <3> QED
      BY <1>3, <1>8, <3>1, <3>2
  <2> QED
    BY <2>1, <2>2
<1>12. Inserted(a) => Inserted(c)
  BY <1>1, <1>3, <1>4 DEF Inserted
<1>13. ASSUME Inserted(a), Shown(a, kind, P) PROVE Shown(c, kind, R)
  <2>1. PICK j \in 1 .. m : a[j].kind = "insert" /\ \A i \in j + 1 .. m : a[i].kind # "insert"
    <3>1. a \in Seq(LogLine)
      BY DEF Proper
    <3> QED
      BY <1>1, <1>13, <3>1, LastInsertion
  <2>2. /\ j \in 1 .. Len(c) /\ c[j].kind = "insert"
        /\ \A i \in j + 1 .. Len(c) : c[i].kind # "insert"
    BY <1>11, <2>1
  <2>3. ASSUME NEW r \in R
        PROVE  \E k \in 1 .. Len(c) : Recent(c, k) /\ c[k].kind = kind /\ c[k].row = r[1]
    <3>1. CASE r \in Q
      <4>1. PICK i \in 1 .. n : b[i].kind = kind /\ b[i].row = r[1]
        BY <1>2, <3>1 DEF Reports
      <4>2. m + i \in 1 .. Len(c) /\ c[m + i] = b[i] /\ j \in 1 .. (m + i) - 1
        BY <1>2, <1>3, <1>5, <2>1, <4>1
      <4>3. Recent(c, m + i)
        BY <2>2, <4>2 DEF Recent
      <4> QED
        BY <4>1, <4>2, <4>3
    <3>2. CASE r \in P
      <4>1. PICK k \in 1 .. m : Recent(a, k) /\ a[k].kind = kind /\ a[k].row = r[1]
        BY <1>1, <1>13, <3>2 DEF Shown
      <4>2. PICK l \in 1 .. k - 1 : a[l].kind = "insert" /\ \A i \in l + 1 .. m : a[i].kind # "insert"
        BY <1>1, <4>1 DEF Recent
      <4>3. l \in 1 .. m
        OBVIOUS
      <4>4. Recent(c, k)
        BY <1>11, <4>2, <4>3 DEF Recent
      <4> QED
        BY <1>3, <1>4, <4>1, <4>4
    <3> QED
      BY <3>1, <3>2 DEF Replaces
  <2> QED
    BY <2>3 DEF Shown
<1> QED
  BY <1>10, <1>12, <1>13

\* What the ring loses comes before what it keeps.
LEMMA AfterLoss ==
  ASSUME NEW L, NEW M, NEW d, Proper(L), Proper(M), Kept(L, M, d), NEW kind, NEW P
  PROVE  /\ Fresh(L, kind, P) => Fresh(M, kind, P)
         /\ \A k \in 1 .. Len(M) : Recent(M, k) => k + d \in 1 .. Len(L) /\ Recent(L, k + d)
<1>1. PICK n \in Nat : n = Len(M)
  BY DEF Proper
<1>2. d \in Nat /\ Len(L) = n + d /\ Len(M) = n
  <2>1. Len(L) \in Int /\ d \in Nat /\ n = Len(L) - d
    BY <1>1 DEF Kept, Proper
  <2> QED
    BY <1>1, <2>1
<1>3. \A k \in 1 .. n : k + d \in 1 .. n + d /\ M[k] = L[k + d]
  BY <1>1, <1>2 DEF Kept
<1>4. ASSUME NEW k \in 1 .. n, Recent(M, k) PROVE Recent(L, k + d)
  <2>1. PICK j \in 1 .. k - 1 :
          M[j].kind = "insert" /\ \A i \in j + 1 .. n : M[i].kind # "insert"
    BY <1>2, <1>4 DEF Recent
  <2>2. j + d \in 1 .. (k + d) - 1 /\ L[j + d].kind = "insert"
    BY <1>2, <1>3, <2>1
  <2>3. ASSUME NEW i \in (j + d) + 1 .. n + d PROVE L[i].kind # "insert"
    <3>1. i - d \in j + 1 .. n /\ i - d \in 1 .. n /\ (i - d) + d = i
      BY <1>2
    <3> QED
      BY <1>3, <2>1, <3>1
  <2> QED
    BY <1>2, <2>2, <2>3 DEF Recent
<1>5. ASSUME NEW k \in 1 .. n, LastOf(M, k) PROVE LastOf(L, k + d)
  <2>1. ASSUME NEW j \in (k + d) + 1 .. n + d
        PROVE  ~ (L[j].kind = L[k + d].kind /\ L[j].row = L[k + d].row)
    <3>1. j - d \in k + 1 .. n /\ j - d \in 1 .. n /\ (j - d) + d = j
      BY <1>2
    <3>2. L[j] = M[j - d] /\ L[k + d] = M[k]
      BY <1>3, <3>1
    <3> QED
      BY <1>2, <1>5, <3>1, <3>2 DEF LastOf
  <2> QED
    BY <1>2, <2>1 DEF LastOf
<1>6. ASSUME NEW k \in 1 .. n PROVE Word(M, k) = Word(L, k + d)
  <2>1. M[k] = L[k + d]
    BY <1>3
  <2>2. ASSUME M[k].kind = "label" PROVE M[k + 1] = L[(k + d) + 1]
    <3>1. k + 1 \in 1 .. n /\ (k + 1) + d = (k + d) + 1
      <4>1. k < n
        BY <1>2, <2>2 DEF Proper
      <4> QED
        BY <1>2, <4>1
    <3> QED
      BY <1>3, <3>1
  <2> QED
    BY <2>1, <2>2 DEF Word
<1>7. \A k \in 1 .. n : Recent(M, k) => k + d \in 1 .. Len(L) /\ Recent(L, k + d)
  BY <1>2, <1>3, <1>4
<1>8. Fresh(L, kind, P) => Fresh(M, kind, P)
  BY <1>2, <1>3, <1>4, <1>5, <1>6 DEF Fresh
<1> QED
  BY <1>2, <1>7, <1>8

-----------------------------------------------------------------------------
(* What a command reports                                                   *)

\* The lines of one entry, which took p[2] for the row p[1].
Piece(b, kind, p) ==
  \/ kind # "label" /\ Len(b) = 1 /\ b[1] = Line(kind, p[1], p[2])
  \/ /\ kind = "label" /\ p[2] # Zero
     /\ Len(b) = 2 /\ b[1] = Line(kind, p[1], NULL) /\ b[2] = Line("count", NULL, p[2])
  \/ kind = "label" /\ p[2] = Zero /\ Len(b) = 1 /\ b[1] = Line(kind, p[1], Zero)

\* Line k of F is the piece's, and the script finds p in it.
Says(F, k, kind, p) ==
  \/ F[k].kind = "count"
  \/ /\ F[k].kind = kind /\ F[k].row = p[1]
     /\ kind # "label" => F[k].value = p[2]
     /\ kind = "label" /\ p[2] # Zero => k < Len(F) /\ F[k + 1].value = p[2]
     /\ kind = "label" /\ p[2] = Zero /\ k < Len(F) => F[k + 1].value \in {NULL, Zero}

\* Every line of F is a piece's, and every piece has one.
Spoken(F, ss, kind, pair) ==
  /\ \A k \in 1 .. Len(F) : \E q \in 1 .. Len(ss) : Says(F, k, kind, pair[q])
  /\ \A q \in 1 .. Len(ss) : \E k \in 1 .. Len(F) :
       F[k].kind = kind /\ F[k].row = pair[q][1]

LEMMA PiecesSay ==
  ASSUME NEW kind \in Data, NEW ss, NEW N \in Nat, N = Len(ss), NEW pair,
         NEW F, NEW n \in Nat, n = Len(F),
         NEW pos, Cut(ss, F, pos), \A q \in 1 .. N : Piece(ss[q], kind, pair[q])
  PROVE  Spoken(F, ss, kind, pair)
<1>1. N = Len(ss) /\ n = Len(F)
  OBVIOUS
<1>2. \A q \in 1 .. N : Piece(ss[q], kind, pair[q])
  OBVIOUS
<1>3. ASSUME NEW q \in 1 .. N
      PROVE  /\ Len(ss[q]) \in {1, 2} /\ pos[q] \in Nat /\ pos[q + 1] = pos[q] + Len(ss[q])
             /\ \A i \in 1 .. Len(ss[q]) : pos[q] + i \in 1 .. n /\ F[pos[q] + i] = ss[q][i]
  <2>1. Len(ss[q]) \in {1, 2}
    BY <1>2 DEF Piece
  <2>2. q \in 1 .. N + 1 /\ pos \in [1 .. N + 1 -> Nat]
    BY <1>1 DEF Cut
  <2>3. /\ pos[q + 1] = pos[q] + Len(ss[q])
        /\ \A i \in 1 .. Len(ss[q]) : pos[q] + i \in 1 .. n /\ F[pos[q] + i] = ss[q][i]
    BY <1>1 DEF Cut
  <2> QED
    BY <2>1, <2>2, <2>3
<1>4. ASSUME NEW q \in 1 .. N
      PROVE  /\ pos[q] + 1 \in 1 .. n /\ F[pos[q] + 1] = ss[q][1]
             /\ Len(ss[q]) = 2 => pos[q] + 2 \in 1 .. n /\ F[pos[q] + 2] = ss[q][2]
  <2>1. PICK m \in {1, 2} : m = Len(ss[q])
    BY <1>3
  <2>2. \A i \in 1 .. m : pos[q] + i \in 1 .. n /\ F[pos[q] + i] = ss[q][i]
    BY <1>3, <2>1, Zenon
  <2>3. 1 \in 1 .. m /\ (m = 2 => 2 \in 1 .. m)
    OBVIOUS
  <2> QED
    BY <2>1, <2>2, <2>3, Zenon
<1>5. ASSUME NEW q \in 1 .. N
      PROVE  F[pos[q] + 1].value \in {NULL, Zero} \/ kind # "label"
  <2>1. F[pos[q] + 1] = ss[q][1] /\ Piece(ss[q], kind, pair[q])
    BY <1>2, <1>4, Zenon
  <2>2. \A x : Line(kind, pair[q][1], x).value = x
    BY DEF Line
  <2> QED
    BY <2>1, <2>2 DEF Piece
<1>6. ASSUME NEW q \in 1 .. N, Len(ss[q]) = 1, pos[q] + 1 < n
      PROVE  q + 1 \in 1 .. N /\ pos[q] + 2 = pos[q + 1] + 1
  <2>1. pos[q + 1] = pos[q] + 1
    BY <1>3, <1>6
  <2>2. pos[N + 1] = n
    BY <1>1, <1>2 DEF Cut
  <2>3. q # N
    BY <1>3, <1>6, <2>1, <2>2
  <2> QED
    BY <1>3, <2>1, <2>3
<1>7. ASSUME NEW q \in 1 .. N
      PROVE  /\ Says(F, pos[q] + 1, kind, pair[q])
             /\ Len(ss[q]) = 2 => Says(F, pos[q] + 2, kind, pair[q])
             /\ F[pos[q] + 1].kind = kind /\ F[pos[q] + 1].row = pair[q][1]
  <2>1. CASE kind # "label" /\ Len(ss[q]) = 1 /\ ss[q][1] = Line(kind, pair[q][1], pair[q][2])
    <3>1. F[pos[q] + 1] = Line(kind, pair[q][1], pair[q][2]) /\ Len(ss[q]) = 1
      BY <1>4, <2>1
    <3> QED
      BY <2>1, <3>1 DEF Says, Line
  <2>2. CASE /\ kind = "label" /\ pair[q][2] # Zero
             /\ Len(ss[q]) = 2 /\ ss[q][1] = Line(kind, pair[q][1], NULL)
             /\ ss[q][2] = Line("count", NULL, pair[q][2])
    <3>1. /\ F[pos[q] + 1] = Line(kind, pair[q][1], NULL)
          /\ F[pos[q] + 2] = Line("count", NULL, pair[q][2])
          /\ pos[q] + 1 < n /\ (pos[q] + 1) + 1 = pos[q] + 2
      BY <1>3, <1>4, <2>2
    <3> QED
      BY <1>1, <2>2, <3>1 DEF Says, Line
  <2>3. CASE /\ kind = "label" /\ pair[q][2] = Zero
             /\ Len(ss[q]) = 1 /\ ss[q][1] = Line(kind, pair[q][1], Zero)
    <3>1. F[pos[q] + 1] = Line(kind, pair[q][1], Zero) /\ Len(ss[q]) = 1
      BY <1>4, <2>3
    <3>2. ASSUME pos[q] + 1 < n PROVE F[(pos[q] + 1) + 1].value \in {NULL, Zero}
      <4>1. q + 1 \in 1 .. N /\ (pos[q] + 1) + 1 = pos[q + 1] + 1
        BY <1>3, <1>6, <3>1, <3>2
      <4> QED
        BY <1>5, <2>3, <4>1
    <3> QED
      BY <1>1, <2>3, <3>1, <3>2 DEF Says, Line
  <2> QED
    BY <1>2, <2>1, <2>2, <2>3 DEF Piece
<1>8. ASSUME NEW k \in 1 .. n
      PROVE  \E q \in 1 .. N : Says(F, k, kind, pair[q])
  <2>1. PICK q \in 1 .. N : \E i \in 1 .. Len(ss[q]) : k = pos[q] + i
    BY <1>1, <1>2 DEF Cut
  <2>2. PICK m \in {1, 2} : m = Len(ss[q])
    BY <1>3
  <2>3. PICK i \in 1 .. m : k = pos[q] + i
    BY <2>1, <2>2, Zenon
  <2>4. k = pos[q] + 1 \/ (Len(ss[q]) = 2 /\ k = pos[q] + 2)
    <3>1. i = 1 \/ (m = 2 /\ i = 2)
      OBVIOUS
    <3> QED
      BY <2>2, <2>3, <3>1, Zenon
  <2> QED
    BY <1>7, <2>4
<1> QED
  BY <1>1, <1>2, <1>4, <1>7, <1>8 DEF Spoken

LEMMA BlockReports ==
  ASSUME NEW kind \in Data, NEW ss \in Seq(Seq(LogLine)), NEW pair,
         \A q \in 1 .. Len(ss) :
           Piece(ss[q], kind, pair[q]) /\ Tells(pair[q][2], pair[q][1])
  PROVE  /\ Proper(<<Other>> \o FlattenSeq(ss) \o <<Other>>)
         /\ Reports(<<Other>> \o FlattenSeq(ss) \o <<Other>>, kind,
                    {pair[q] : q \in 1 .. Len(ss)})
         /\ \A other \in Data \ {kind} :
              Reports(<<Other>> \o FlattenSeq(ss) \o <<Other>>, other, {})
<1> DEFINE F == FlattenSeq(ss)
           B == <<Other>> \o F \o <<Other>>
           P == {pair[q] : q \in 1 .. Len(ss)}
<1>1. F \in Seq(LogLine) /\ \E pos : Cut(ss, F, pos)
  BY FlattenCut
<1> HIDE DEF F
<1>2. PICK pos : Cut(ss, F, pos)
  BY <1>1
<1>3. PICK n \in Nat : n = Len(F)
  BY <1>1
<1>4. Other \in LogLine /\ Other.kind = "other" /\ Other.value = Zero
  BY OtherTyped
<1>5. /\ B \in Seq(LogLine) /\ Len(B) = n + 2 /\ B[1] = Other /\ B[n + 2] = Other
      /\ \A k \in 1 .. n : B[k + 1] = F[k]
  <2>1. <<Other>> \o F \in Seq(LogLine) /\ Len(<<Other>> \o F) = n + 1
    BY <1>1, <1>3, <1>4
  <2>2. (<<Other>> \o F)[1] = Other /\ \A k \in 1 .. n : (<<Other>> \o F)[k + 1] = F[k]
    BY <1>1, <1>3, <1>4
  <2> HIDE DEF F
  <2> DEFINE A == <<Other>> \o F
  <2> HIDE DEF A
  <2>3. A \in Seq(LogLine) /\ Len(A) = n + 1
    BY <2>1 DEF A
  <2>4. /\ A \o <<Other>> \in Seq(LogLine) /\ Len(A \o <<Other>>) = n + 2
        /\ (A \o <<Other>>)[n + 2] = Other
        /\ \A k \in 1 .. n + 1 : (A \o <<Other>>)[k] = A[k]
    BY <1>4, <2>3
  <2>5. B = A \o <<Other>>
    BY DEF A
  <2>6. \A k \in 1 .. n : k + 1 \in 1 .. n + 1
    OBVIOUS
  <2> QED
    BY <2>2, <2>4, <2>5, <2>6 DEF A
<1> HIDE DEF B
<1>6. /\ \A k \in 1 .. n : \E q \in 1 .. Len(ss) : Says(F, k, kind, pair[q])
      /\ \A q \in 1 .. Len(ss) : \E k \in 1 .. n : F[k].kind = kind /\ F[k].row = pair[q][1]
  <2>1. \A q \in 1 .. Len(ss) : Piece(ss[q], kind, pair[q])
    OBVIOUS
  <2>2. Spoken(F, ss, kind, pair)
    BY <1>1, <1>2, <1>3, <2>1, PiecesSay
  <2> QED
    BY <1>3, <2>2 DEF Spoken
<1>7. ASSUME NEW k \in 1 .. n
      PROVE  F[k].kind \in {"count", kind}
             /\ (F[k].kind = kind => Matches(P, F[k].row, Word(B, k + 1))
                                     /\ Tells(Word(B, k + 1), F[k].row))
  <2>1. PICK q \in 1 .. Len(ss) : Says(F, k, kind, pair[q])
    BY <1>6
  <2>2. pair[q] \in P /\ Tells(pair[q][2], pair[q][1])
    OBVIOUS
  <2> HIDE DEF P
  <2>3. CASE F[k].kind = "count"
    BY <2>3 DEF Data
  <2>4. CASE F[k].kind # "count"
    <3>1. F[k].kind = kind /\ F[k].row = pair[q][1]
      BY <2>1, <2>4 DEF Says
    <3>2. Word(B, k + 1) = IF kind = "label" THEN B[(k + 1) + 1].value ELSE F[k].value
      BY <1>5, <3>1 DEF Word
    <3>3. B[(k + 1) + 1] = IF k < n THEN F[k + 1] ELSE Other
      <4>1. CASE k < n
        <5>1. k + 1 \in 1 .. n
          BY <4>1
        <5> QED
          BY <1>5, <4>1, <5>1
      <4>2. CASE ~ k < n
        <5>1. (k + 1) + 1 = n + 2
          BY <4>2
        <5> QED
          BY <1>5, <4>2, <5>1
      <4> QED
        BY <4>1, <4>2
    <3>4. Word(B, k + 1) = pair[q][2] \/ (pair[q][2] = Zero /\ Word(B, k + 1) \in {NULL, Zero})
      BY <1>3, <1>4, <2>1, <2>4, <3>2, <3>3 DEF Says
    <3> QED
      BY <2>2, <3>1, <3>4 DEF Matches, Tells
  <2> QED
    BY <2>3, <2>4
<1>8. ASSUME NEW k \in 1 .. n + 2
      PROVE  \/ B[k] = Other
             \/ \E j \in 1 .. n : k = j + 1 /\ B[k] = F[j]
  <2>1. CASE k \in 2 .. n + 1
    <3>1. k - 1 \in 1 .. n /\ k = (k - 1) + 1
      BY <2>1
    <3> QED
      BY <1>5, <3>1
  <2>2. CASE k \notin 2 .. n + 1
    BY <1>5, <2>2
  <2> QED
    BY <2>1, <2>2
<1>9. ASSUME NEW k \in 1 .. n + 2
      PROVE  /\ B[k].kind \in {"other", "count", kind}
             /\ B[k].kind = kind => Matches(P, B[k].row, Word(B, k))
                                    /\ Tells(Word(B, k), B[k].row) /\ k < n + 2
  <2> HIDE DEF P
  <2>1. CASE B[k] = Other
    BY <1>4, <2>1 DEF Data
  <2>2. CASE \E j \in 1 .. n : k = j + 1 /\ B[k] = F[j]
    BY <1>7, <2>2
  <2> QED
    BY <1>8, <2>1, <2>2
<1> HIDE DEF P
<1>10. Proper(B)
  BY <1>5, <1>9 DEF Proper, Data, Word
<1>11. \A k \in 1 .. Len(B) :
         /\ B[k].kind # "insert"
         /\ B[k].kind \in Data => B[k].kind = kind
         /\ B[k].kind = kind => Matches(P, B[k].row, Word(B, k))
  BY <1>5, <1>9 DEF Data
<1>12. ASSUME NEW p \in P
       PROVE  \E k \in 1 .. Len(B) : B[k].kind = kind /\ B[k].row = p[1]
  <2>1. PICK q \in 1 .. Len(ss) : p = pair[q]
    BY DEF P
  <2>2. PICK k \in 1 .. n : F[k].kind = kind /\ F[k].row = p[1]
    BY <1>6, <2>1
  <2>3. k + 1 \in 1 .. n + 2
    OBVIOUS
  <2> QED
    BY <1>5, <2>2, <2>3
<1>13. Reports(B, kind, P)
  BY <1>11, <1>12 DEF Reports
<1>14. \A other \in Data \ {kind} : Reports(B, other, {})
  BY <1>11 DEF Reports
<1> QED
  BY <1>10, <1>13, <1>14 DEF B, F, P

\* The driver's messages, which report no row.
Messages(s) == {Other, Line("insert", NULL, Zero), Line("alloc", NULL, Zero), Line("address", NULL, s)}

LEMMA MessagesProper ==
  ASSUME NEW s \in Sessions, NEW lines \in Seq(Messages(s))
  PROVE  Proper(lines) /\ \A k \in 1 .. Len(lines) : lines[k].kind \notin Data
<1>1. ASSUME NEW l \in Messages(s)
      PROVE  l \in LogLine /\ l.kind \notin Data /\ (l.kind = "address" => l.value \in Sessions)
  <2>1. NULL \in Names /\ Zero \in Words /\ s \in Words
    BY LineWords, Zenon
  <2>2. {"insert", "alloc", "address"} \subseteq Kinds
    BY DEF Kinds
  <2>3. CASE l = Other
    BY <2>3, OtherTyped DEF Data
  <2>4. CASE l = Line("insert", NULL, Zero)
    <3>1. l \in LogLine /\ l.kind = "insert"
      BY <2>1, <2>2, <2>4, LineTyped
    <3> QED
      BY <3>1 DEF Data
  <2>5. CASE l = Line("alloc", NULL, Zero)
    <3>1. l \in LogLine /\ l.kind = "alloc"
      BY <2>1, <2>2, <2>5, LineTyped
    <3> QED
      BY <3>1 DEF Data
  <2>6. CASE l = Line("address", NULL, s)
    <3>1. l \in LogLine /\ l.kind = "address" /\ l.value = s
      BY <2>1, <2>2, <2>6, LineTyped
    <3> QED
      BY <3>1 DEF Data
  <2> QED
    BY <2>3, <2>4, <2>5, <2>6 DEF Messages
<1>2. PICK n \in Nat : n = Len(lines)
  OBVIOUS
<1>3. lines \in [1 .. n -> Messages(s)]
  BY <1>2
<1>4. \A k \in 1 .. n : lines[k] \in Messages(s)
  BY <1>3
<1>5. lines \in [1 .. n -> LogLine]
  BY <1>1, <1>3, <1>4
<1>6. lines \in Seq(LogLine)
  BY <1>5
<1>7. \A k \in 1 .. n : /\ lines[k].kind \notin Data
                        /\ lines[k].kind = "address" => lines[k].value \in Sessions
  BY <1>1, <1>4, Zenon
<1> QED
  BY <1>2, <1>6, <1>7 DEF Proper, Data

\* What mod_ioctl has the driver log, when it gets as far as entry n.
KindOf(series) == IF series = "nop" THEN "label" ELSE series
Told(s, n)     == {<<Entries(s)[k].row, Result(s, Entries(s)[k])>> : k \in 1 .. n}
Block(s, series, n) ==
  <<Other>> \o FlattenSeq([k \in 1 .. n |-> EntryLines(s, series, Entries(s)[k])]) \o <<Other>>

Command == [row : STRING, gated : BOOLEAN]

LEMMA EntriesTyped ==
  ASSUME ControlOK, NEW s \in Sessions
  PROVE  /\ Entries(s) \in Seq(Command) /\ Len(Entries(s)) \in Nat
         /\ DOMAIN Entries(s) = 1 .. Len(Entries(s))
         /\ \A k \in 1 .. Len(Entries(s)) : Entries(s)[k] \in Command
<1>1. args[s].mode \in Modes
  BY DEF ControlOK
<1>2. Entries(s) \in Seq(Command)
  BY <1>1, EcrScriptAssumption DEF Command, Entries
<1> QED
  BY <1>2

LEMMA EntryPiece ==
  ASSUME NEW s \in Sessions, NEW series \in Series, NEW e \in Command, round[s] \in 1 .. Rounds
  PROVE  /\ EntryLines(s, series, e) \in Seq(LogLine)
         /\ Piece(EntryLines(s, series, e), KindOf(series), <<e.row, Result(s, e)>>)
         /\ Tells(Result(s, e), e.row)
<1> DEFINE v == Result(s, e)
           r == e.row
<1>1. r \in STRING /\ r \in Names /\ NULL \in Names /\ NULL \in Words /\ Zero \in Words
  BY LineWords DEF Command
<1>2. v = Zero \/ v = <<s, round[s], r>>
  BY DEF Result
<1>3. v \in Words /\ Tells(v, r)
  BY <1>1, <1>2 DEF Words, Tells
<1> HIDE DEF v, r
<1>4. CASE series = "nop" /\ v # Zero
  <2>1. EntryLines(s, series, e) = <<Line("label", r, NULL), Line("count", NULL, v)>>
    BY <1>4 DEF EntryLines, v, r
  <2>2. "label" \in Kinds /\ "count" \in Kinds
    BY DEF Kinds
  <2>3. Line("label", r, NULL) \in LogLine /\ Line("count", NULL, v) \in LogLine
    BY <1>1, <1>3, <2>2, LineTyped
  <2>4. <<r, v>>[1] = r /\ <<r, v>>[2] = v
    OBVIOUS
  <2>5. Piece(EntryLines(s, series, e), KindOf(series), <<r, v>>)
    BY <1>4, <2>1, <2>4 DEF Piece, KindOf
  <2> QED
    BY <1>3, <2>1, <2>3, <2>5 DEF v, r
<1>5. CASE series = "nop" /\ v = Zero
  <2>1. EntryLines(s, series, e) = <<Line("label", r, Zero)>>
    BY <1>5 DEF EntryLines, v, r
  <2>2. "label" \in Kinds
    BY DEF Kinds
  <2>3. Line("label", r, Zero) \in LogLine
    BY <1>1, <2>2, LineTyped
  <2>4. <<r, v>>[1] = r /\ <<r, v>>[2] = v
    OBVIOUS
  <2>5. Piece(EntryLines(s, series, e), KindOf(series), <<r, v>>)
    BY <1>5, <2>1, <2>4 DEF Piece, KindOf
  <2> QED
    BY <1>3, <2>1, <2>3, <2>5 DEF v, r
<1>6. CASE series # "nop"
  <2>1. EntryLines(s, series, e) = <<Line(series, r, v)>>
    BY <1>6 DEF EntryLines, v, r
  <2>2. series \in Kinds /\ series # "label"
    BY <1>6 DEF Kinds, Series
  <2>3. Line(series, r, v) \in LogLine
    BY <1>1, <1>3, <2>2, LineTyped
  <2>4. <<r, v>>[1] = r /\ <<r, v>>[2] = v
    OBVIOUS
  <2>5. Piece(EntryLines(s, series, e), KindOf(series), <<r, v>>)
    BY <1>6, <2>1, <2>2, <2>4 DEF Piece, KindOf
  <2> QED
    BY <1>3, <2>1, <2>3, <2>5 DEF v, r
<1> QED
  BY <1>4, <1>5, <1>6

LEMMA CommandReports ==
  ASSUME ControlOK, NEW s \in Sessions, NEW series \in Series, round[s] \in 1 .. Rounds,
         NEW n \in 0 .. Len(Entries(s))
  PROVE  /\ Proper(Block(s, series, n))
         /\ Reports(Block(s, series, n), KindOf(series), Told(s, n))
         /\ \A other \in Data \ {KindOf(series)} : Reports(Block(s, series, n), other, {})
<1> DEFINE es == Entries(s)
           ss == [q \in 1 .. n |-> EntryLines(s, series, es[q])]
           pair == [q \in 1 .. n |-> <<es[q].row, Result(s, es[q])>>]
<1>1. n \in Nat /\ \A q \in 1 .. n : es[q] \in Command
  BY EntriesTyped
<1>2. ASSUME NEW q \in 1 .. n
      PROVE  /\ ss[q] \in Seq(LogLine) /\ Piece(ss[q], KindOf(series), pair[q])
             /\ Tells(pair[q][2], pair[q][1])
  <2>1. ss[q] = EntryLines(s, series, es[q]) /\ pair[q] = <<es[q].row, Result(s, es[q])>>
    OBVIOUS
  <2>2. pair[q][1] = es[q].row /\ pair[q][2] = Result(s, es[q])
    BY <2>1
  <2>3. es[q] \in Command
    BY <1>1
  <2> QED
    BY <2>1, <2>2, <2>3, EntryPiece
<1>3. Told(s, n) = {pair[q] : q \in 1 .. n}
  BY DEF Told
<1>4. Block(s, series, n) = <<Other>> \o FlattenSeq(ss) \o <<Other>>
  BY DEF Block
<1>5. ss \in [1 .. n -> Seq(LogLine)]
  BY <1>2
<1> HIDE DEF ss, pair
<1>6. ss \in Seq(Seq(LogLine)) /\ Len(ss) = n
  BY <1>1, <1>5
<1>7. KindOf(series) \in Data
  BY DEF KindOf, Series, Data
<1>8. \A q \in 1 .. Len(ss) :
         Piece(ss[q], KindOf(series), pair[q]) /\ Tells(pair[q][2], pair[q][1])
  BY <1>2, <1>6
<1>9. /\ Proper(<<Other>> \o FlattenSeq(ss) \o <<Other>>)
       /\ Reports(<<Other>> \o FlattenSeq(ss) \o <<Other>>, KindOf(series),
                  {pair[q] : q \in 1 .. Len(ss)})
       /\ \A other \in Data \ {KindOf(series)} :
            Reports(<<Other>> \o FlattenSeq(ss) \o <<Other>>, other, {})
  BY <1>6, <1>7, <1>8, BlockReports
<1> QED
  BY <1>3, <1>4, <1>6, <1>9

-----------------------------------------------------------------------------
(* Types                                                                    *)

Measurements == [series : Series, round : 1 .. Rounds, row : STRING, value : Words]

DataOK ==
  /\ ControlOK /\ Proper(log) /\ Len(log) <= logsize
  /\ logsize \in LogSizes /\ failures \in 0 .. MaxFailures
  /\ loaded \in BOOLEAN /\ vmem \in BOOLEAN /\ wrapped \in BOOLEAN /\ overlapped \in BOOLEAN
  /\ round \in [Sessions -> 1 .. Rounds]
  /\ shown \in [Sessions -> Sessions \cup {NULL}]
  /\ why \in [Sessions -> {"", "usage", "invalid", "alloc", "interrupt", "done"}]
  /\ read \in [Sessions -> SUBSET Results]
  /\ measured \in [Sessions -> SUBSET Measurements]

\* A command's lines are put behind the others, and the ring keeps the last.
LEMMA EmitProper ==
  ASSUME DataOK, NEW lines, Proper(lines), Emit(lines)
  PROVE  /\ Proper(log') /\ Len(log') <= logsize /\ wrapped' \in BOOLEAN
         /\ \E all, d : /\ Proper(all) /\ Joined(all, log, lines, Len(log)) /\ Kept(all, log', d)
                        /\ ~ wrapped' => ~ wrapped /\ log' = all
                        /\ lines # <<>> => log' # <<>>
<1>1. log \in Seq(LogLine) /\ lines \in Seq(LogLine)
  BY DEF DataOK, Proper
<1>2. logsize \in Nat \ {0}
  BY EcrScriptAssumption DEF DataOK
<1>3. PICK d : /\ Kept(log \o lines, log', d)
               /\ log' \in Seq(LogLine) /\ Len(log') <= logsize
               /\ wrapped' \in BOOLEAN
               /\ ~ wrapped' => ~ wrapped /\ log' = log \o lines
               /\ (lines # <<>> /\ log' # <<>>) \/ lines = <<>>
  BY <1>1, <1>2, EmitKeeps DEF DataOK
<1>4. log \o lines \in Seq(LogLine) /\ Joined(log \o lines, log, lines, Len(log))
  BY <1>1, Concatenation
<1>5. Proper(log \o lines)
  BY <1>4, ProperJoin DEF DataOK
<1>6. Proper(log')
  BY <1>3, <1>5, ProperKept
<1> QED
  BY <1>3, <1>4, <1>5, <1>6, Zenon

\* A command reports a beginning of its program, or it fails and says so or nothing.
Nothing ==
  measured' = measured /\ (UNCHANGED klog \/ Emit(<<Other, Other>>))

LEMMA Commanded ==
  ASSUME DataOK, NEW s \in Sessions, NEW series,
         mod_ioctl(s, series) \/ FaultsMidway(s, series)
  PROVE  (\E n \in 0 .. Len(Entries(s)) : Report(s, series, n)) \/ Nothing
<1>1. Len(Entries(s)) \in Nat /\ DOMAIN Entries(s) = 1 .. Len(Entries(s))
  BY EntriesTyped DEF DataOK
<1>2. CASE Completes(s, series)
  BY <1>1, <1>2 DEF Completes
<1>3. CASE FaultsMidway(s, series)
  <2>1. PICK k \in 1 .. Len(Entries(s)) : Report(s, series, k - 1)
    BY <1>1, <1>3 DEF FaultsMidway
  <2>2. k - 1 \in 0 .. Len(Entries(s))
    BY <1>1
  <2> QED
    BY <2>1, <2>2
<1>4. CASE Fails(series)
  BY <1>4 DEF Fails, Nothing
<1> QED
  BY <1>2, <1>3, <1>4 DEF mod_ioctl

\* Only so many commands fail.
LEMMA FailuresTyped ==
  ASSUME DataOK, UNCHANGED failures \/ GoesWrong
  PROVE  failures' \in 0 .. MaxFailures
<1>1. failures \in 0 .. MaxFailures /\ MaxFailures \in Nat
  BY EcrScriptAssumption DEF DataOK
<1>2. CASE UNCHANGED failures
  BY <1>1, <1>2
<1>3. CASE GoesWrong
  BY <1>1, <1>3 DEF GoesWrong
<1> QED
  BY <1>2, <1>3

LEMMA ReportLogs ==
  ASSUME NEW s, NEW series, NEW n, Report(s, series, n)
  PROVE  Emit(Block(s, series, n))
BY DEF Report, Block

\* What a step logs, if it does.
LEMMA StepLogs ==
  ASSUME DataOK, NEW s \in Sessions, Step(s)
  PROVE  UNCHANGED klog \/ \E lines : Proper(lines) /\ Emit(lines)
<1>0. Proper(<<Other, Other>>)
  <2>1. <<Other, Other>> \in Seq(Messages(s))
    BY DEF Messages
  <2> QED
    BY <2>1, MessagesProper
<1>1. ASSUME NEW series \in Series, mod_ioctl(s, series) \/ FaultsMidway(s, series)
      PROVE  UNCHANGED klog \/ \E all : Proper(all) /\ Emit(all)
  <2>1. CASE \E n \in 0 .. Len(Entries(s)) : Report(s, series, n)
    <3>1. PICK n \in 0 .. Len(Entries(s)) : Report(s, series, n)
      BY <2>1
    <3>2. Proper(Block(s, series, n)) /\ Emit(Block(s, series, n))
      BY <3>1, CommandReports, ReportLogs DEF DataOK
    <3> QED
      BY <3>2
  <2>2. CASE Nothing
    BY <1>0, <2>2 DEF Nothing
  <2> QED
    BY <1>1, <2>1, <2>2, Commanded
<1>2. ASSUME NEW it, RemoveModule(it)
      PROVE  UNCHANGED klog \/ \E all : Proper(all) /\ Emit(all)
  <2>1. <<Other>> \in Seq(Messages(s))
    BY DEF Messages
  <2>2. Proper(<<Other>>)
    BY <2>1, MessagesProper
  <2> QED
    BY <1>2, <2>2 DEF RemoveModule
<1>3. CASE insmod(s)
  <2>1. <<Line("insert", NULL, Zero)>> \in Seq(Messages(s))
    BY DEF Messages
  <2>2. Proper(<<Line("insert", NULL, Zero)>>)
    BY <2>1, MessagesProper
  <2>3. <<Line("insert", NULL, Zero), Other>> \in Seq(Messages(s))
    BY DEF Messages
  <2>4. Proper(<<Line("insert", NULL, Zero), Other>>)
    BY <2>3, MessagesProper
  <2> QED
    BY <1>3, <2>2, <2>4 DEF insmod
<1>4. CASE Kmalloc(s)
  <2> DEFINE alloc == Line("alloc", NULL, Zero)
             address == Line("address", NULL, s)
  <2>1. Other \in Messages(s) /\ alloc \in Messages(s) /\ address \in Messages(s)
    BY DEF Messages
  <2> HIDE DEF alloc, address
  <2>2. <<Other, alloc, Other, Other>> \in Seq(Messages(s))
    BY <2>1
  <2>3. <<Other, alloc, address, Other>> \in Seq(Messages(s))
    BY <2>1
  <2>4. Proper(<<Other, alloc, Other, Other>>) /\ Proper(<<Other, alloc, address, Other>>)
    BY <2>2, <2>3, MessagesProper
  <2> QED
    BY <1>0, <1>4, <2>4 DEF Kmalloc, Fails, alloc, address
<1>5. CASE Measure(s) \/ MeasureNop(s)
  BY <1>1, <1>5 DEF Measure, MeasureNop, Series
<1>6. CASE rmmod(s) \/ ctrl_c(s) \/ finish(s)
  BY <1>2, <1>6 DEF rmmod, ctrl_c, finish
<1>7. CASE Begin(s) \/ ReadAddress(s) \/ ReadWall(s) \/ ReadNop(s) \/ ReadProbe(s) \/ PrintTable(s)
  BY <1>7 DEF Begin, ReadAddress, ReadWall, ReadNop, ReadProbe, PrintTable, module
<1> QED
  BY <1>3, <1>4, <1>5, <1>6, <1>7 DEF Step

\* What is read of a row is a value of the row.
LEMMA ParsedTells ==
  ASSUME Proper(log), NEW row
  PROVE  /\ Tells(wall_parse(row), row) /\ Tells(nop_parse(row), row)
         /\ Tells(probe_parse(row), row)
<1>1. ASSUME NEW kind \in Data, Found(kind, row) # 0
      PROVE  Tells(Word(log, Found(kind, row)), row)
  <2>1. kind # "insert"
    BY DEF Data
  <2>2. /\ Found(kind, row) \in 1 .. Len(log)
        /\ log[Found(kind, row)].kind = kind /\ log[Found(kind, row)].row = row
    BY <1>1, <2>1, FoundLast
  <2> QED
    BY <2>2 DEF Proper, Word, Data
<1>2. Tells(NULL, row)
  BY DEF Tells
<1>3. {"wall", "label", "cycles"} \subseteq Data
  BY DEF Data
<1> QED
  BY <1>1, <1>2, <1>3, ParsedWord

LEMMA ReadTyped ==
  ASSUME DataOK, NEW s \in Sessions, NEW series \in Series, NEW values,
         \A r \in RowsOf(s) : Tells(values[r], r), Read(s, series, values)
  PROVE  read' \in [Sessions -> SUBSET Results]
<1>1. RowsOf(s) \subseteq Rows
  BY DEF RowsOf, Rows, DataOK, ControlOK
<1>2. \A r \in RowsOf(s) : values[r] \in Value
  BY <1>1 DEF Tells, Value
<1>3. ASSUME NEW r \in RowsOf(s)
      PROVE  Entry(series, round[s], r, values[r]) \in Results
  <2>1. round[s] \in 1 .. Rounds /\ r \in Rows /\ values[r] \in Value
    BY <1>1, <1>2 DEF DataOK
  <2> QED
    BY <2>1 DEF Entry, Results
<1>4. read[s] \cup {Entry(series, round[s], r, values[r]) : r \in RowsOf(s)} \in SUBSET Results
  BY <1>3 DEF DataOK
<1> QED
  BY <1>4, Zenon DEF Read, DataOK

\* What the first n entries add to what was measured.
NewOnes(s, series, n) ==
  {Entry(series, round[s], Entries(s)[k].row, Result(s, Entries(s)[k])) : k \in 1 .. n}

LEMMA NewTyped ==
  ASSUME DataOK, NEW s \in Sessions, NEW series \in Series, NEW n \in 0 .. Len(Entries(s))
  PROVE  NewOnes(s, series, n) \in SUBSET Measurements
<1>1. ASSUME NEW k \in 1 .. n
      PROVE  Entry(series, round[s], Entries(s)[k].row, Result(s, Entries(s)[k])) \in Measurements
  <2>1. Entries(s)[k].row \in STRING
    <3>1. Entries(s)[k] \in Command
      <4>1. ControlOK
        BY DEF DataOK
      <4>2. Len(Entries(s)) \in Nat
        BY <4>1, EntriesTyped
      <4>3. k \in 1 .. Len(Entries(s))
        BY <4>2
      <4> QED
        BY <4>1, <4>3, EntriesTyped
    <3> QED
      BY <3>1 DEF Command
  <2>2. round[s] \in 1 .. Rounds
    BY DEF DataOK
  <2>3. Result(s, Entries(s)[k]) \in Words
    BY <2>1, <2>2 DEF Result, Words
  <2> QED
    BY <2>1, <2>2, <2>3 DEF Entry, Measurements
<1> QED
  BY <1>1 DEF NewOnes

LEMMA MeasuredTyped ==
  ASSUME DataOK, NEW s \in Sessions, NEW series \in Series,
         mod_ioctl(s, series) \/ FaultsMidway(s, series)
  PROVE  measured' \in [Sessions -> SUBSET Measurements]
<1>1. CASE \E n \in 0 .. Len(Entries(s)) : Report(s, series, n)
  <2>1. PICK n \in 0 .. Len(Entries(s)) : Report(s, series, n)
    BY <1>1
  <2>2. measured' = [measured EXCEPT ![s] = @ \cup NewOnes(s, series, n)]
    BY <2>1 DEF Report, NewOnes
  <2>3. measured[s] \cup NewOnes(s, series, n) \in SUBSET Measurements
    BY NewTyped DEF DataOK
  <2> QED
    BY <2>2, <2>3, Zenon DEF DataOK
<1>2. CASE Nothing
  BY <1>2 DEF Nothing, DataOK
<1> QED
  BY <1>1, <1>2, Commanded

LEMMA AddressTyped ==
  ASSUME Proper(log)
  PROVE  address_parse \in Sessions \cup {NULL}
<1> DEFINE told(k) == log[k].kind = "address" /\ k > 1 /\ log[k - 1].kind = "alloc"
           K == {k \in DOMAIN log : told(k)}
<1>1. address_parse = IF K = {} THEN NULL ELSE log[Max(K)].value
  BY DEF address_parse
<1>2. PICK n \in Nat : n = Len(log)
  BY DEF Proper
<1>3. DOMAIN log = 1 .. n
  BY <1>2 DEF Proper
<1>4. K \in SUBSET (1 .. n)
  BY <1>3
<1>5. K # {} => Max(K) \in K
  BY <1>4, Greatest
<1>6. \A k \in K : log[k].value \in Sessions
  BY <1>2, <1>3 DEF Proper
<1> QED
  BY <1>1, <1>5, <1>6

TypeInv == RemovalInv /\ DataOK

LEMMA RoundsPositive == Rounds \in Nat /\ Rounds >= 1
BY EcrScriptAssumption

LEMMA TypeInit == Init => TypeInv
<1> SUFFICES ASSUME Init PROVE TypeInv
  OBVIOUS
<1>1. RemovalInv
  BY RemovalInit
<1>2. Proper(log) /\ Len(log) <= logsize
  <2>1. log = <<>> /\ logsize \in Nat
    BY EcrScriptAssumption DEF Init
  <2>2. log \in Seq(LogLine) /\ Len(log) = 0
    BY <2>1
  <2> QED
    BY <2>1, <2>2 DEF Proper
<1>3. round \in [Sessions -> 1 .. Rounds]
  <2>1. 1 \in 1 .. Rounds
    BY RoundsPositive
  <2> QED
    BY <2>1, Zenon DEF Init
<1>4. /\ shown \in [Sessions -> Sessions \cup {NULL}]
      /\ why \in [Sessions -> {"", "usage", "invalid", "alloc", "interrupt", "done"}]
      /\ read \in [Sessions -> SUBSET Results]
      /\ measured \in [Sessions -> SUBSET Measurements]
  BY DEF Init
<1>5. failures \in 0 .. MaxFailures
  <2>1. MaxFailures \in Nat /\ failures = 0
    BY EcrScriptAssumption DEF Init
  <2> QED
    BY <2>1
<1> QED
  BY <1>1, <1>2, <1>3, <1>4, <1>5 DEF Init, TypeInv, DataOK, RemovalInv

LEMMA StepTyped ==
  ASSUME DataOK, NEW s \in Sessions, Step(s)
  PROVE  /\ loaded' \in BOOLEAN /\ vmem' \in BOOLEAN
         /\ round' \in [Sessions -> 1 .. Rounds]
         /\ shown' \in [Sessions -> Sessions \cup {NULL}]
         /\ why' \in [Sessions -> {"", "usage", "invalid", "alloc", "interrupt", "done"}]
         /\ read' \in [Sessions -> SUBSET Results]
         /\ measured' \in [Sessions -> SUBSET Measurements]
<1>1. ASSUME NEW from, NEW reason \in {"usage", "invalid", "alloc", "interrupt", "done"},
             Exit(s, from, reason)
      PROVE  why' \in [Sessions -> {"", "usage", "invalid", "alloc", "interrupt", "done"}]
  BY <1>1 DEF Exit, DataOK
<1>2. ASSUME NEW series \in Series, mod_ioctl(s, series) \/ FaultsMidway(s, series)
      PROVE  measured' \in [Sessions -> SUBSET Measurements]
  BY <1>2, MeasuredTyped
<1>3. ASSUME NEW it \in BOOLEAN, RemoveModule(it)
      PROVE  loaded' \in BOOLEAN /\ vmem' = vmem
  BY <1>3 DEF RemoveModule, DataOK
<1>4. args[s].first \in BOOLEAN
  BY DEF DataOK, ControlOK
<1>5. \A r : /\ Tells(wall_parse(r), r) /\ Tells(nop_parse(r), r)
             /\ Tells(probe_parse(r), r)
  BY ParsedTells DEF DataOK
<1>6. CASE Begin(s)
  BY <1>1, <1>6 DEF Begin, DataOK, module
<1>7. CASE insmod(s)
  BY <1>1, <1>7 DEF insmod, DataOK, module
<1>8. CASE Kmalloc(s)
  BY <1>8 DEF Kmalloc, Fails, DataOK
<1>9. CASE ReadAddress(s)
  <2>1. address_parse \in Sessions \cup {NULL}
    BY AddressTyped DEF DataOK
  <2>2. shown' \in [Sessions -> Sessions \cup {NULL}]
    BY <1>9, <2>1 DEF ReadAddress, DataOK
  <2> QED
    BY <1>1, <1>9, <2>2 DEF ReadAddress, DataOK, module
<1>10. CASE Measure(s)
  BY <1>2, <1>10 DEF Measure, DataOK, Series
<1>11. CASE MeasureNop(s)
  BY <1>2, <1>11 DEF MeasureNop, DataOK, Series
<1>12. CASE ReadWall(s)
  <2>1. read' \in [Sessions -> SUBSET Results]
    BY <1>5, <1>12, ReadTyped DEF ReadWall, Series
  <2> QED
    BY <1>12, <2>1 DEF ReadWall, DataOK, module
<1>13. CASE ReadNop(s)
  <2>1. read' \in [Sessions -> SUBSET Results]
    BY <1>5, <1>13, ReadTyped DEF ReadNop, Series
  <2>2. round' \in [Sessions -> 1 .. Rounds]
    <3>1. round[s] \in 1 .. Rounds
      BY DEF DataOK
    <3>2. (IF round[s] < Rounds THEN round[s] + 1 ELSE round[s]) \in 1 .. Rounds
      BY <3>1, RoundsPositive
    <3> QED
      BY <1>13, <3>2, Zenon DEF ReadNop, DataOK
  <2> QED
    BY <1>13, <2>1, <2>2 DEF ReadNop, DataOK, module
<1>14. CASE ReadProbe(s)
  <2>1. read' \in [Sessions -> SUBSET Results]
    BY <1>5, <1>14, ReadTyped DEF ReadProbe, Series
  <2> QED
    BY <1>14, <2>1 DEF ReadProbe, DataOK, module
<1>15. CASE rmmod(s)
  BY <1>3, <1>15 DEF rmmod, DataOK
<1>16. CASE PrintTable(s)
  BY <1>1, <1>16 DEF PrintTable, DataOK, module
<1>17. CASE ctrl_c(s)
  BY <1>1, <1>3, <1>4, <1>17 DEF ctrl_c, DataOK
<1>18. CASE finish(s)
  BY <1>3, <1>4, <1>18 DEF finish, DataOK
<1> QED
  BY <1>6, <1>7, <1>8, <1>9, <1>10, <1>11, <1>12, <1>13, <1>14, <1>15, <1>16, <1>17, <1>18
     DEF Step

LEMMA StepFails ==
  ASSUME DataOK, NEW s \in Sessions, Step(s)
  PROVE  failures' \in 0 .. MaxFailures
<1>1. UNCHANGED failures \/ GoesWrong
  <2>1. CASE insmod(s) \/ Kmalloc(s) \/ Measure(s) \/ MeasureNop(s)
    BY <2>1 DEF insmod, Kmalloc, Measure, MeasureNop, mod_ioctl, Completes, FaultsMidway, Fails
  <2>2. CASE Begin(s) \/ ReadAddress(s) \/ ReadWall(s) \/ ReadNop(s) \/ ReadProbe(s)
    BY <2>2 DEF Begin, ReadAddress, ReadWall, ReadNop, ReadProbe
  <2>3. CASE rmmod(s) \/ PrintTable(s) \/ ctrl_c(s) \/ finish(s)
    BY <2>3 DEF rmmod, PrintTable, ctrl_c, finish
  <2> QED
    BY <2>1, <2>2, <2>3 DEF Step
<1> QED
  BY <1>1, FailuresTyped

LEMMA TypeStep == TypeInv /\ [Next]_vars => TypeInv'
<1> SUFFICES ASSUME TypeInv, [Next]_vars PROVE TypeInv'
  OBVIOUS
<1>1. RemovalInv'
  BY RemovalStep DEF TypeInv
<1>2. CASE Next
  <2>1. PICK s \in Sessions : Step(s)
    BY <1>2 DEF Next
  <2>2. Proper(log') /\ Len(log') <= logsize /\ wrapped' \in BOOLEAN
    <3>1. CASE UNCHANGED klog
      BY <3>1 DEF klog, TypeInv, DataOK, Proper
    <3>2. CASE \E lines : Proper(lines) /\ Emit(lines)
      BY <3>2, EmitProper DEF TypeInv
    <3> QED
      BY <2>1, <3>1, <3>2, StepLogs DEF TypeInv
  <2>3. /\ loaded' \in BOOLEAN /\ vmem' \in BOOLEAN
        /\ round' \in [Sessions -> 1 .. Rounds]
        /\ shown' \in [Sessions -> Sessions \cup {NULL}]
        /\ why' \in [Sessions -> {"", "usage", "invalid", "alloc", "interrupt", "done"}]
        /\ read' \in [Sessions -> SUBSET Results]
        /\ measured' \in [Sessions -> SUBSET Measurements]
    BY <2>1, StepTyped DEF TypeInv
  <2>4. overlapped' \in BOOLEAN /\ UNCHANGED logsize /\ failures' \in 0 .. MaxFailures
    BY <1>2, <2>1, StepFails DEF Next, TypeInv, DataOK
  <2> QED
    BY <1>1, <2>2, <2>3, <2>4 DEF TypeInv, DataOK, RemovalInv
<1>3. CASE UNCHANGED vars
  BY <1>1, <1>3 DEF vars, module, klog, session, TypeInv, RemovalInv, DataOK, Proper
<1> QED
  BY <1>2, <1>3

\* What the script parses, round by round, are values of the rows it asked for or
\* nothing, whatever the log has lost and whoever else writes to it; the ring never
\* holds more than it can.
THEOREM TypeCorrect == Spec => []TypeOK
<1>1. TypeInv => TypeOK
  BY DEF TypeInv, DataOK, ControlOK, Under, TypeOK
<1> QED
  BY TypeInit, TypeStep, <1>1, PTL DEF Spec

-----------------------------------------------------------------------------
(* How far a session is                                                     *)

\* So far, s has measured and read a series in earlier rounds only.
Done(s, series, i, j) ==
  /\ \A m \in measured[s] : m.series = series => m.round < i
  /\ \A e \in read[s] : e.series = series => e.round < j

Frontier(s) ==
  LET r == round[s]
  IN  /\ pc[s] \in {"idle", "insmod", "kmalloc", "address"} => measured[s] = {} /\ read[s] = {}
      /\ pc[s] = "measure" =>
           Done(s, "wall", r, r) /\ Done(s, "nop", r, r) /\ Done(s, "cycles", r, r)
      /\ pc[s] = "read_wall" =>
           Done(s, "wall", r + 1, r) /\ Done(s, "nop", r, r) /\ Done(s, "cycles", r, r)
      /\ pc[s] = "nop" =>
           Done(s, "wall", r + 1, r + 1) /\ Done(s, "nop", r, r) /\ Done(s, "cycles", r, r)
      /\ pc[s] = "read_nop" =>
           Done(s, "wall", r + 1, r + 1) /\ Done(s, "nop", r + 1, r) /\ Done(s, "cycles", r, r)
      /\ pc[s] = "read_probe" => Done(s, "cycles", r + 1, r)

\* A row is measured once in a round.
Same(m, n) == m.series = n.series /\ m.round = n.round /\ m.row = n.row
Unique(s)  == \A m, n \in measured[s] : Same(m, n) => m.value = n.value

FrontierInv == \A s \in Sessions : Frontier(s) /\ Unique(s)

\* What a command adds is of this round; one that fails adds nothing.
LEMMA Grows ==
  ASSUME DataOK, NEW s \in Sessions, NEW series,
         mod_ioctl(s, series) \/ FaultsMidway(s, series)
  PROVE  /\ \E n \in 0 .. Len(Entries(s)) : measured'[s] = measured[s] \cup NewOnes(s, series, n)
         /\ \A t \in Sessions : t # s => measured'[t] = measured[t]
<1>1. CASE \E n \in 0 .. Len(Entries(s)) : Report(s, series, n)
  <2>1. PICK n \in 0 .. Len(Entries(s)) : Report(s, series, n)
    BY <1>1
  <2>2. measured' = [measured EXCEPT ![s] = @ \cup NewOnes(s, series, n)]
    BY <2>1 DEF Report, NewOnes
  <2> QED
    BY <2>2, Zenon DEF DataOK
<1>2. CASE Nothing
  <2>1. NewOnes(s, series, 0) = {} /\ 0 \in 0 .. Len(Entries(s))
    <3>1. Len(Entries(s)) \in Nat
      BY EntriesTyped DEF DataOK
    <3> QED
      BY <3>1 DEF NewOnes
  <2> QED
    BY <1>2, <2>1 DEF Nothing
<1> QED
  BY <1>1, <1>2, Commanded

LEMMA NewOnesAre ==
  ASSUME NEW s, NEW series, NEW n
  PROVE  /\ \A m \in NewOnes(s, series, n) :
              /\ m.series = series /\ m.round = round[s]
              /\ \E k \in 1 .. n : m.row = Entries(s)[k].row /\ m.value = Result(s, Entries(s)[k])
         /\ \A k \in 1 .. n : \E m \in NewOnes(s, series, n) :
              m.row = Entries(s)[k].row /\ m.value = Result(s, Entries(s)[k])
<1>1. \A k \in 1 .. n : LET m == Entry(series, round[s], Entries(s)[k].row, Result(s, Entries(s)[k]))
                        IN  /\ m \in NewOnes(s, series, n)
                            /\ m.series = series /\ m.round = round[s]
                            /\ m.row = Entries(s)[k].row /\ m.value = Result(s, Entries(s)[k])
  BY DEF NewOnes, Entry
<1>2. \A m \in NewOnes(s, series, n) : \E k \in 1 .. n :
        m = Entry(series, round[s], Entries(s)[k].row, Result(s, Entries(s)[k]))
  BY DEF NewOnes
<1> QED
  BY <1>1, <1>2

\* Rows are measured once, so that one entry tells of a row.
LEMMA OnePair ==
  ASSUME ControlOK, NEW s \in Sessions,
         NEW j \in 1 .. Len(Entries(s)), NEW k \in 1 .. Len(Entries(s)),
         Entries(s)[j].row = Entries(s)[k].row
  PROVE  j = k
<1>1. args[s].mode \in Modes
  BY DEF ControlOK
<1>2. \A a, b \in DOMAIN Entries(s) : Entries(s)[a].row = Entries(s)[b].row => a = b
  BY <1>1, EcrScriptAssumption DEF Entries
<1> QED
  BY <1>2, EntriesTyped

LEMMA ReadNow ==
  ASSUME DataOK, NEW s \in Sessions, NEW series \in Series, NEW values, Read(s, series, values)
  PROVE  /\ read[s] \subseteq read'[s]
         /\ \A e \in read'[s] : e \in read[s] \/
              /\ e.series = series /\ e.round = round[s] /\ e.row \in RowsOf(s)
              /\ e.value = values[e.row]
<1>1. read'[s] = read[s] \cup {Entry(series, round[s], r, values[r]) : r \in RowsOf(s)}
  BY DEF Read, DataOK
<1>2. \A r \in RowsOf(s) : LET e == Entry(series, round[s], r, values[r])
                           IN  /\ e.series = series /\ e.round = round[s]
                               /\ e.row = r /\ e.value = values[r]
  BY DEF Entry
<1> QED
  BY <1>1, <1>2

LEMMA RoundsTyped ==
  ASSUME DataOK, NEW s \in Sessions
  PROVE  /\ round[s] \in Int
         /\ \A m \in measured[s] : m.round \in Int
         /\ \A e \in read[s] : e.round \in Int
<1>1. round[s] \in 1 .. Rounds
  BY DEF DataOK
<1>2. measured[s] \subseteq Measurements /\ read[s] \subseteq Results
  BY DEF DataOK
<1> QED
  BY <1>1, <1>2 DEF Measurements, Results

\* What the commands of the measurement do to the state.
LEMMA MeasureMoves ==
  ASSUME DataOK, NEW s \in Sessions, Measure(s)
  PROVE  /\ UNCHANGED <<vmem, args, round, read>> /\ pc[s] = "measure"
         /\ \/ pc'[s] = "read_probe" /\ mod_ioctl(s, "cycles")
            \/ pc'[s] = "read_wall" /\ (mod_ioctl(s, "wall") \/ FaultsMidway(s, "wall"))
BY DEF Measure, At, DataOK, ControlOK

LEMMA MeasureNopMoves ==
  ASSUME DataOK, NEW s \in Sessions, MeasureNop(s)
  PROVE  /\ UNCHANGED <<vmem, args, round, read>> /\ pc[s] = "nop"
         /\ pc'[s] \in {"hung", "read_nop"} /\ (mod_ioctl(s, "nop") \/ FaultsMidway(s, "nop"))
BY DEF MeasureNop, At, DataOK, ControlOK

LEMMA FrontierSession ==
  ASSUME DataOK, NEW s \in Sessions, Step(s), Frontier(s)
  PROVE  Frontier(s)'
<1> DEFINE r == round[s]
<1>1. /\ r \in Int /\ \A m \in measured[s] : m.round \in Int
      /\ \A e \in read[s] : e.round \in Int
  BY RoundsTyped
<1>2. ASSUME NEW series \in Series, mod_ioctl(s, series) \/ FaultsMidway(s, series)
      PROVE  \A m \in measured'[s] : m \in measured[s] \/ (m.series = series /\ m.round = r)
  BY <1>2, Grows, NewOnesAre
<1>3. CASE Begin(s) \/ insmod(s) \/ Kmalloc(s) \/ ReadAddress(s)
  <2>1. /\ UNCHANGED <<round, read, measured>>
        /\ pc[s] \in {"idle", "insmod", "kmalloc", "address"}
        /\ pc'[s] \in {"insmod", "kmalloc", "address", "measure", "exit"}
    BY <1>3 DEF Begin, insmod, Kmalloc, Fails, ReadAddress, Exit, At, DataOK, ControlOK
  <2>2. measured'[s] = {} /\ read'[s] = {}
    BY <2>1 DEF Frontier
  <2> QED
    BY <2>1, <2>2 DEF Frontier, Done
<1>4. CASE Measure(s)
  <2>1. UNCHANGED <<round, read>> /\ pc[s] = "measure" /\ {"cycles", "wall"} \subseteq Series
    BY <1>4, MeasureMoves DEF Series
  <2>2. CASE pc'[s] = "read_wall"
    <3>1. \A m \in measured'[s] : m \in measured[s] \/ (m.series = "wall" /\ m.round = r)
      BY <1>2, <1>4, <2>1, <2>2, MeasureMoves
    <3> QED
      BY <1>1, <2>1, <2>2, <3>1 DEF Frontier, Done
  <2>3. CASE pc'[s] = "read_probe"
    <3>1. \A m \in measured'[s] : m \in measured[s] \/ (m.series = "cycles" /\ m.round = r)
      BY <1>2, <1>4, <2>1, <2>3, MeasureMoves
    <3> QED
      BY <1>1, <2>1, <2>3, <3>1 DEF Frontier, Done
  <2> QED
    BY <1>4, <2>2, <2>3, MeasureMoves
<1>5. CASE ReadWall(s)
  <2>1. /\ UNCHANGED <<round, measured>> /\ pc[s] = "read_wall" /\ pc'[s] = "nop"
    BY <1>5 DEF ReadWall, At, DataOK, ControlOK
  <2>2. \A e \in read'[s] : e \in read[s] \/ (e.series = "wall" /\ e.round = r)
    BY <1>5, ReadNow DEF ReadWall, Series
  <2> QED
    BY <1>1, <2>1, <2>2 DEF Frontier, Done
<1>6. CASE MeasureNop(s)
  <2>1. /\ UNCHANGED <<round, read>> /\ pc[s] = "nop" /\ pc'[s] \in {"hung", "read_nop"}
        /\ "nop" \in Series
    BY <1>6, MeasureNopMoves DEF Series
  <2>2. \A m \in measured'[s] : m \in measured[s] \/ (m.series = "nop" /\ m.round = r)
    BY <1>2, <1>6, <2>1, MeasureNopMoves
  <2> QED
    BY <1>1, <2>1, <2>2 DEF Frontier, Done
<1>7. CASE ReadNop(s)
  <2>1. /\ UNCHANGED measured /\ pc[s] = "read_nop"
        /\ (pc'[s] = "measure" /\ round'[s] = r + 1) \/ pc'[s] = "rmmod"
    BY <1>7 DEF ReadNop, At, DataOK, ControlOK
  <2>2. \A e \in read'[s] : e \in read[s] \/ (e.series = "nop" /\ e.round = r)
    BY <1>7, ReadNow DEF ReadNop, Series
  <2>3. CASE pc'[s] = "rmmod"
    BY <2>3 DEF Frontier
  <2>4. CASE pc'[s] = "measure" /\ round'[s] = r + 1
    <3>1. ASSUME NEW m \in measured'[s], m.series \in {"wall", "nop", "cycles"}
          PROVE  m.round < r + 1
      BY <1>1, <2>1, <3>1 DEF Frontier, Done
    <3>2. ASSUME NEW e \in read'[s], e.series \in {"wall", "nop", "cycles"}
          PROVE  e.round < r + 1
      BY <1>1, <2>1, <2>2, <3>2 DEF Frontier, Done
    <3> QED
      BY <2>4, <3>1, <3>2 DEF Frontier, Done
  <2> QED
    BY <2>1, <2>3, <2>4
<1>8. CASE ReadProbe(s) \/ rmmod(s) \/ PrintTable(s) \/ ctrl_c(s) \/ finish(s)
  <2>1. pc'[s] \in {"rmmod", "print", "exit", "ended"}
    BY <1>8 DEF ReadProbe, rmmod, PrintTable, ctrl_c, finish, Exit, At, DataOK, ControlOK
  <2> QED
    BY <2>1 DEF Frontier
<1> QED
  BY <1>3, <1>4, <1>5, <1>6, <1>7, <1>8 DEF Step

\* A command comes before any other of its round and its series.
LEMMA UniqueGrows ==
  ASSUME DataOK, NEW s \in Sessions, NEW series,
         mod_ioctl(s, series) \/ FaultsMidway(s, series),
         \A m \in measured[s] : m.series = series => m.round < round[s], Unique(s)
  PROVE  Unique(s)'
<1>1. PICK n \in 0 .. Len(Entries(s)) : measured'[s] = measured[s] \cup NewOnes(s, series, n)
  BY Grows
<1>2. ASSUME NEW a \in NewOnes(s, series, n), NEW b \in NewOnes(s, series, n), Same(a, b)
      PROVE  a.value = b.value
  <2>1. PICK j \in 1 .. n : a.row = Entries(s)[j].row /\ a.value = Result(s, Entries(s)[j])
    BY NewOnesAre
  <2>2. PICK k \in 1 .. n : b.row = Entries(s)[k].row /\ b.value = Result(s, Entries(s)[k])
    BY NewOnesAre
  <2>3. Len(Entries(s)) \in Nat /\ ControlOK
    BY EntriesTyped DEF DataOK
  <2>4. j \in 1 .. Len(Entries(s)) /\ k \in 1 .. Len(Entries(s))
    BY <2>3
  <2>5. j = k
    BY <1>2, <2>1, <2>2, <2>3, <2>4, OnePair DEF Same
  <2> QED
    BY <2>1, <2>2, <2>5
<1>3. ASSUME NEW a \in NewOnes(s, series, n), NEW b \in measured[s]
      PROVE  ~ Same(a, b) /\ ~ Same(b, a)
  <2>1. a.series = series /\ a.round = round[s] /\ round[s] \in Int /\ b.round \in Int
    BY NewOnesAre, RoundsTyped
  <2>2. b.series = series => b.round # round[s]
    BY <2>1
  <2> QED
    BY <2>1, <2>2 DEF Same
<1>4. ASSUME NEW a \in measured'[s], NEW b \in measured'[s], Same(a, b) PROVE a.value = b.value
  <2>1. CASE a \in measured[s] /\ b \in measured[s]
    BY <1>4, <2>1 DEF Unique
  <2>2. CASE a \in NewOnes(s, series, n) /\ b \in NewOnes(s, series, n)
    BY <1>2, <1>4, <2>2
  <2> QED
    BY <1>1, <1>3, <1>4, <2>1, <2>2
<1> QED
  BY <1>4 DEF Unique, Same

LEMMA UniqueSession ==
  ASSUME DataOK, NEW s \in Sessions, Step(s), Frontier(s), Unique(s)
  PROVE  Unique(s)'
<1>1. ASSUME measured'[s] = measured[s] PROVE Unique(s)'
  BY <1>1 DEF Unique, Same
<1>2. CASE Measure(s)
  <2>1. pc[s] = "measure"
    BY <1>2, MeasureMoves
  <2>2. \A m \in measured[s] : m.series \in {"wall", "cycles"} => m.round < round[s]
    BY <2>1 DEF Frontier, Done
  <2> QED
    BY <1>2, <2>2, MeasureMoves, UniqueGrows
<1>3. CASE MeasureNop(s)
  <2>1. \A m \in measured[s] : m.series = "nop" => m.round < round[s]
    BY <1>3, MeasureNopMoves DEF Frontier, Done
  <2> QED
    BY <1>3, <2>1, MeasureNopMoves, UniqueGrows
<1>4. CASE Begin(s) \/ insmod(s) \/ Kmalloc(s) \/ ReadAddress(s) \/ ReadWall(s) \/ ReadNop(s)
  BY <1>1, <1>4 DEF Begin, insmod, Kmalloc, Fails, ReadAddress, ReadWall, ReadNop
<1>5. CASE ReadProbe(s) \/ rmmod(s) \/ PrintTable(s) \/ ctrl_c(s) \/ finish(s)
  BY <1>1, <1>5 DEF ReadProbe, rmmod, PrintTable, ctrl_c, finish
<1> QED
  BY <1>2, <1>3, <1>4, <1>5 DEF Step

\* A step is its session's: of the others, nothing changes.
LEMMA StepOthers ==
  ASSUME DataOK, NEW s \in Sessions, Step(s)
  PROVE  /\ \A t \in Sessions : t # s =>
              /\ pc'[t] = pc[t] /\ args'[t] = args[t] /\ round'[t] = round[t]
              /\ read'[t] = read[t] /\ measured'[t] = measured[t]
         /\ pc[s] \notin Under => Begin(s)
<1>1. ASSUME NEW series, mod_ioctl(s, series) \/ FaultsMidway(s, series)
      PROVE  \A t \in Sessions : t # s => measured'[t] = measured[t]
  BY <1>1, Grows
<1>2. ASSUME NEW series, NEW values, Read(s, series, values)
      PROVE  \A t \in Sessions : t # s => read'[t] = read[t]
  BY <1>2 DEF Read, DataOK
<1>3. ASSUME NEW from, NEW to, At(s, from, to)
      PROVE  /\ pc[s] = from
             /\ \A t \in Sessions : t # s => pc'[t] = pc[t]
  BY <1>3 DEF At, DataOK, ControlOK
<1>4. CASE Begin(s)
  BY <1>3, <1>4 DEF Begin, Exit, DataOK, ControlOK
<1>5. CASE insmod(s) \/ Kmalloc(s) \/ ReadAddress(s) \/ finish(s) \/ rmmod(s)
  BY <1>3, <1>5 DEF insmod, Kmalloc, Fails, ReadAddress, finish, rmmod, Exit, Under
<1>6. CASE Measure(s) \/ MeasureNop(s)
  BY <1>1, <1>3, <1>6 DEF Measure, MeasureNop, Under
<1>7. CASE ReadWall(s) \/ ReadProbe(s)
  BY <1>2, <1>3, <1>7 DEF ReadWall, ReadProbe, Under
<1>8. CASE ReadNop(s)
  BY <1>2, <1>3, <1>8 DEF ReadNop, Under, DataOK
<1>9. CASE PrintTable(s)
  BY <1>3, <1>9 DEF PrintTable, Exit, Under
<1>10. CASE ctrl_c(s)
  BY <1>3, <1>10 DEF ctrl_c, Exit, Under, DataOK, ControlOK
<1> QED
  BY <1>4, <1>5, <1>6, <1>7, <1>8, <1>9, <1>10 DEF Step

LEMMA FrontierInit == Init => FrontierInv
BY DEF Init, FrontierInv, Frontier, Unique

LEMMA FrontierStep == TypeInv /\ FrontierInv /\ [Next]_vars => FrontierInv'
<1> SUFFICES ASSUME TypeInv, FrontierInv, [Next]_vars, NEW t \in Sessions
             PROVE  Frontier(t)' /\ Unique(t)'
  BY DEF FrontierInv
<1>1. Frontier(t) /\ Unique(t) /\ DataOK
  BY DEF FrontierInv, TypeInv
<1>2. ASSUME pc'[t] = pc[t], round'[t] = round[t], read'[t] = read[t], measured'[t] = measured[t]
      PROVE  Frontier(t)' /\ Unique(t)'
  <2>1. Frontier(t)'
    BY <1>1, <1>2 DEF Frontier, Done
  <2>2. Unique(t)'
    BY <1>1, <1>2 DEF Unique, Same
  <2> QED
    BY <2>1, <2>2
<1>3. CASE Next
  <2>1. PICK s \in Sessions : Step(s)
    BY <1>3 DEF Next
  <2>2. CASE s = t
    BY <1>1, <2>1, <2>2, FrontierSession, UniqueSession
  <2>3. CASE s # t
    BY <1>1, <1>2, <2>1, <2>3, StepOthers
  <2> QED
    BY <2>2, <2>3
<1>4. CASE UNCHANGED vars
  BY <1>2, <1>4 DEF vars, session
<1> QED
  BY <1>3, <1>4

-----------------------------------------------------------------------------
(* Whose values are read                                                    *)

Holding == {"kmalloc", "address", "measure", "read_wall", "nop", "read_nop", "read_probe"}

\* What was measured last for each row, and the rows with the values.
Newest(s, series) ==
  {m \in measured[s] :
     m.series = series /\ \A n \in measured[s] :
       n.series = series /\ n.row = m.row => n.round <= m.round}
Pairs(s, series) == {<<m.row, m.value>> : m \in Newest(s, series)}

\* The log's last word on a row, since the session's insertion, is that value; and
\* it leaves no row out, as long as it holds the insertion.
LogFresh(s) == \A x \in Series : Fresh(log, KindOf(x), Pairs(s, x))
LogShown(s) == Inserted(log) /\ \A x \in Series : Shown(log, KindOf(x), Pairs(s, x))

Backed(s, e) ==
  e.value \in {NULL, Zero} \cup {m.value : m \in Latest(s, e.series, e.round, e.row)}
AllBacked(s) == \A e \in read[s] : Backed(s, e)

Agrees(s, e) ==
  LET own == Latest(s, e.series, e.round, e.row)
  IN  /\ own = {} => e.value = NULL
      /\ \A m \in own : e.value = m.value \/ (m.value = Zero /\ e.value = NULL)
AllAgree(s) == \A e \in read[s] : Agrees(s, e)

SessionOK(s) == (pc[s] \in Holding => LogFresh(s)) /\ AllBacked(s)

AloneOK ==
  /\ \A s, t \in Sessions : pc[s] \in Under /\ pc[t] \in Under => s = t
  /\ \A s \in Sessions : SessionOK(s)

AloneInv == ~ overlapped => AloneOK

\* As long as the ring loses nothing.
LosslessOK(s) == (pc[s] \in Holding => LogShown(s)) /\ AllAgree(s)
FullInv == Undisturbed => \A s \in Sessions : LosslessOK(s)

-----------------------------------------------------------------------------
(* What a command changes in it                                             *)

LEMMA PairsAre ==
  ASSUME NEW s, NEW series
  PROVE  /\ \A m \in Newest(s, series) : \E p \in Pairs(s, series) : p[1] = m.row /\ p[2] = m.value
         /\ \A p \in Pairs(s, series) : \E m \in Newest(s, series) :
              p = <<m.row, m.value>> /\ p[1] = m.row /\ p[2] = m.value
<1>1. \A m \in Newest(s, series) : <<m.row, m.value>> \in Pairs(s, series)
  BY DEF Pairs
<1>2. \A p \in Pairs(s, series) : \E m \in Newest(s, series) : p = <<m.row, m.value>>
  BY DEF Pairs
<1>3. \A x, y : <<x, y>>[1] = x /\ <<x, y>>[2] = y
  OBVIOUS
<1>4. ASSUME NEW m \in Newest(s, series)
      PROVE  \E p \in Pairs(s, series) : p[1] = m.row /\ p[2] = m.value
  <2> DEFINE q == <<m.row, m.value>>
  <2>1. q \in Pairs(s, series) /\ q[1] = m.row /\ q[2] = m.value
    BY <1>1, <1>3
  <2> HIDE DEF q
  <2> QED
    BY <2>1
<1>5. ASSUME NEW p \in Pairs(s, series)
      PROVE  \E m \in Newest(s, series) : p = <<m.row, m.value>> /\ p[1] = m.row /\ p[2] = m.value
  BY <1>2, <1>3
<1> QED
  BY <1>4, <1>5

LEMMA ToldAre ==
  ASSUME NEW s, NEW n
  PROVE  /\ \A k \in 1 .. n : \E q \in Told(s, n) : q[1] = Entries(s)[k].row
         /\ \A q \in Told(s, n) : \E k \in 1 .. n :
              q = <<Entries(s)[k].row, Result(s, Entries(s)[k])>>
<1>1. \A k \in 1 .. n : <<Entries(s)[k].row, Result(s, Entries(s)[k])>> \in Told(s, n)
  BY DEF Told
<1>2. \A x, y : <<x, y>>[1] = x
  OBVIOUS
<1>3. \A q \in Told(s, n) : \E k \in 1 .. n : q = <<Entries(s)[k].row, Result(s, Entries(s)[k])>>
  BY DEF Told
<1> QED
  BY <1>1, <1>2, <1>3

\* The new values replace the old ones of their rows.
LEMMA PairsMore ==
  ASSUME DataOK, NEW s \in Sessions, NEW series, NEW n,
         measured'[s] = measured[s] \cup NewOnes(s, series, n),
         \A m \in measured[s] : m.series = series => m.round < round[s]
  PROVE  /\ Replaces(Pairs(s, series), Told(s, n), Pairs(s, series)')
         /\ \A x : x # series => Pairs(s, x)' = Pairs(s, x)
<1> DEFINE new == NewOnes(s, series, n)
<1>1. /\ round[s] \in Int /\ \A m \in measured[s] : m.round \in Int
  BY RoundsTyped
<1>2. /\ \A m \in new : /\ m.series = series /\ m.round = round[s]
                        /\ \E k \in 1 .. n : m.row = Entries(s)[k].row /\ m.value = Result(s, Entries(s)[k])
      /\ \A k \in 1 .. n : \E m \in new :
           m.row = Entries(s)[k].row /\ m.value = Result(s, Entries(s)[k])
  BY NewOnesAre
<1>3. measured'[s] = measured[s] \cup new
  OBVIOUS
<1> HIDE DEF new
<1>4. \A m \in new : m \in Newest(s, series)'
  BY <1>1, <1>2, <1>3 DEF Newest
<1>5. ASSUME NEW x, x # series PROVE Newest(s, x)' = Newest(s, x)
  BY <1>2, <1>3, <1>5 DEF Newest
<1>6. ASSUME NEW q \in Told(s, n) PROVE q \in Pairs(s, series)'
  <2>1. PICK k \in 1 .. n : q = <<Entries(s)[k].row, Result(s, Entries(s)[k])>>
    BY ToldAre
  <2>2. PICK m \in new : m.row = Entries(s)[k].row /\ m.value = Result(s, Entries(s)[k])
    BY <1>2
  <2>3. m \in Newest(s, series)' /\ q = <<m.row, m.value>>
    BY <1>4, <2>1, <2>2
  <2> QED
    BY <2>3 DEF Pairs
<1>7. ASSUME NEW p \in Pairs(s, series)
      PROVE  p \in Pairs(s, series)' \/ \E q \in Told(s, n) : q[1] = p[1]
  <2>1. PICK m \in Newest(s, series) : p = <<m.row, m.value>> /\ p[1] = m.row
    BY PairsAre
  <2>2. CASE \E a \in new : a.row = m.row
    <3>1. PICK k \in 1 .. n : m.row = Entries(s)[k].row
      BY <1>2, <2>2
    <3> QED
      BY <2>1, <3>1, ToldAre
  <2>3. CASE \A a \in new : a.row # m.row
    <3>1. m \in Newest(s, series)'
      BY <1>3, <2>3 DEF Newest
    <3> QED
      BY <2>1, <3>1 DEF Pairs
  <2> QED
    BY <2>2, <2>3
<1>8. ASSUME NEW p \in Pairs(s, series)'
      PROVE  p \in Told(s, n) \/ p \in Pairs(s, series)
  <2>1. PICK m \in Newest(s, series)' : p = <<m.row, m.value>>
    BY DEF Pairs
  <2>2. CASE m \in new
    <3>1. PICK k \in 1 .. n : m.row = Entries(s)[k].row /\ m.value = Result(s, Entries(s)[k])
      BY <1>2, <2>2
    <3> QED
      BY <2>1, <3>1 DEF Told
  <2>3. CASE m \notin new
    <3>1. m \in Newest(s, series)
      BY <1>3, <2>3 DEF Newest
    <3> QED
      BY <2>1, <3>1 DEF Pairs
  <2> QED
    BY <2>2, <2>3
<1>9. \A x : x # series => Pairs(s, x)' = Pairs(s, x)
  BY <1>5 DEF Pairs
<1> QED
  BY <1>6, <1>7, <1>8, <1>9 DEF Replaces

\* What was known of an earlier round, or of another series, stays the latest of it.
LEMMA LatestStays ==
  ASSUME DataOK, NEW s \in Sessions, NEW series, NEW n,
         measured'[s] = measured[s] \cup NewOnes(s, series, n),
         NEW x, NEW i \in Int, x = series => i < round[s], NEW row
  PROVE  Latest(s, x, i, row)' = Latest(s, x, i, row)
<1>1. round[s] \in Int /\ \A m \in NewOnes(s, series, n) : m.series = series /\ m.round = round[s]
  BY NewOnesAre, RoundsTyped
<1>2. \A m \in NewOnes(s, series, n) : ~ (m.series = x /\ m.round <= i)
  BY <1>1
<1> DEFINE known == {m \in measured[s] : m.series = x /\ m.row = row /\ m.round <= i}
<1>3. {m \in measured'[s] : m.series = x /\ m.row = row /\ m.round <= i} = known
  BY <1>2
<1>4. /\ Latest(s, x, i, row) = {m \in known : \A a \in known : a.round <= m.round}
      /\ Latest(s, x, i, row)' = {m \in known : \A a \in known : a.round <= m.round}
  BY <1>3 DEF Latest
<1> QED
  BY <1>4

LEMMA ReadsStand ==
  ASSUME DataOK, NEW s \in Sessions, NEW series,
         mod_ioctl(s, series) \/ FaultsMidway(s, series), UNCHANGED read,
         \A e \in read[s] : e.series = series => e.round < round[s]
  PROVE  (AllBacked(s) => AllBacked(s)') /\ (AllAgree(s) => AllAgree(s)')
<1>1. PICK n : measured'[s] = measured[s] \cup NewOnes(s, series, n)
  BY Grows
<1>2. ASSUME NEW e \in read[s]
      PROVE  Latest(s, e.series, e.round, e.row)' = Latest(s, e.series, e.round, e.row)
  BY <1>1, LatestStays, RoundsTyped
<1>3. ASSUME AllBacked(s) PROVE AllBacked(s)'
  BY <1>2, <1>3 DEF AllBacked, Backed
<1>4. ASSUME AllAgree(s) PROVE AllAgree(s)'
  BY <1>2, <1>4 DEF AllAgree, Agrees
<1> QED
  BY <1>3, <1>4

-----------------------------------------------------------------------------
(* Steps of the log                                                         *)

LEMMA EmitReports ==
  ASSUME DataOK, NEW lines, Proper(lines), Emit(lines), NEW kind \in Data,
         NEW P, NEW Q, NEW R, Reports(lines, kind, Q), Replaces(P, Q, R)
  PROVE  /\ Fresh(log, kind, P) => Fresh(log', kind, R)
         /\ ~ wrapped' /\ Inserted(log) => Inserted(log')
         /\ ~ wrapped' /\ Inserted(log) /\ Shown(log, kind, P) => Shown(log', kind, R)
<1>1. PICK all, d : /\ Proper(all) /\ Joined(all, log, lines, Len(log)) /\ Kept(all, log', d)
                    /\ ~ wrapped' => ~ wrapped /\ log' = all
  BY EmitProper
<1>2. Proper(log) /\ Proper(log')
  BY EmitProper DEF DataOK
<1>3. all \in Seq(LogLine)
  BY <1>1 DEF Proper
<1>4. /\ Fresh(log, kind, P) => Fresh(all, kind, R)
      /\ Inserted(log) => Inserted(all)
      /\ Inserted(log) /\ Shown(log, kind, P) => Shown(all, kind, R)
  BY <1>1, <1>2, <1>3, AfterReport
<1>5. Fresh(all, kind, R) => Fresh(log', kind, R)
  BY <1>1, <1>2, AfterLoss
<1> QED
  BY <1>1, <1>4, <1>5

\* Messages other than the insertion report nothing.
LEMMA QuietReports ==
  ASSUME NEW s \in Sessions, NEW lines \in Seq(Messages(s)), NEW kind \in Data,
         \A k \in 1 .. Len(lines) : lines[k].kind # "insert"
  PROVE  Reports(lines, kind, {})
BY MessagesProper DEF Reports

LEMMA MessageKinds ==
  ASSUME NEW s \in Sessions
  PROVE  /\ Other.kind # "insert" /\ Line("alloc", NULL, Zero).kind # "insert"
         /\ Line("address", NULL, s).kind # "insert" /\ Line("insert", NULL, Zero).kind = "insert"
  BY DEF Other, Line

LEMMA KindsOf ==
  /\ \A x \in Series : KindOf(x) \in Data
  /\ \A x, y \in Series : KindOf(x) = KindOf(y) => x = y
  /\ KindOf("wall") = "wall" /\ KindOf("nop") = "label" /\ KindOf("cycles") = "cycles"
  /\ {"wall", "nop", "cycles"} \subseteq Series
BY DEF KindOf, Series, Data

LEMMA QuietKeeps ==
  ASSUME DataOK, NEW s \in Sessions, NEW lines \in Seq(Messages(s)), Emit(lines),
         \A k \in 1 .. Len(lines) : lines[k].kind # "insert", measured'[s] = measured[s]
  PROVE  /\ LogFresh(s) => LogFresh(s)'
         /\ ~ wrapped' /\ LogShown(s) => LogShown(s)'
<1>1. Proper(lines)
  BY MessagesProper
<1>2. ASSUME NEW x \in Series
      PROVE  /\ Fresh(log, KindOf(x), Pairs(s, x)) => Fresh(log', KindOf(x), Pairs(s, x)')
             /\ ~ wrapped' /\ Inserted(log) => Inserted(log')
             /\ ~ wrapped' /\ Inserted(log) /\ Shown(log, KindOf(x), Pairs(s, x))
                => Shown(log', KindOf(x), Pairs(s, x)')
  <2>1. KindOf(x) \in Data
    BY KindsOf
  <2>2. Reports(lines, KindOf(x), {})
    BY <2>1, QuietReports
  <2>3. Pairs(s, x)' = Pairs(s, x)
    BY DEF Pairs, Newest
  <2>4. Replaces(Pairs(s, x), {}, Pairs(s, x))
    BY DEF Replaces
  <2> QED
    BY <1>1, <2>1, <2>2, <2>3, <2>4, EmitReports
<1>3. "wall" \in Series
  BY KindsOf
<1> QED
  BY <1>2, <1>3 DEF LogFresh, LogShown

LEMMA NothingKeeps ==
  ASSUME DataOK, NEW s \in Sessions, UNCHANGED klog \/ Emit(<<Other, Other>>),
         measured'[s] = measured[s]
  PROVE  /\ LogFresh(s) => LogFresh(s)'
         /\ ~ wrapped' /\ LogShown(s) => LogShown(s)'
<1>1. CASE UNCHANGED klog
  BY <1>1 DEF klog, LogFresh, LogShown, Pairs, Newest
<1>2. CASE Emit(<<Other, Other>>)
  <2> DEFINE b == <<Other, Other>>
  <2>1. Other \in Messages(s) /\ Other.kind # "insert"
    BY MessageKinds DEF Messages
  <2>2. b \in Seq(Messages(s)) /\ Len(b) = 2 /\ b[1] = Other /\ b[2] = Other
    BY <2>1
  <2>3. Emit(b)
    BY <1>2
  <2> HIDE DEF b
  <2>4. \A k \in 1 .. Len(b) : b[k].kind # "insert"
    <3>1. \A k \in 1 .. 2 : k = 1 \/ k = 2
      OBVIOUS
    <3> QED
      BY <2>1, <2>2, <3>1
  <2> QED
    BY <2>2, <2>3, <2>4, QuietKeeps
<1> QED
  BY <1>1, <1>2

LEMMA EmitInsert ==
  ASSUME DataOK, NEW s \in Sessions, Emit(<<Line("insert", NULL, Zero)>>)
  PROVE  /\ \A kind : Fresh(log', kind, {})
         /\ ~ wrapped' => Inserted(log')
<1> DEFINE l == Line("insert", NULL, Zero)
           b == <<l>>
<1>1. l \in Messages(s) /\ l.kind = "insert"
  BY MessageKinds DEF Messages
<1> HIDE DEF l
<1>2. b \in Seq(Messages(s)) /\ Len(b) = 1 /\ b[1] = l
  BY <1>1
<1> HIDE DEF b
<1>3. Proper(b) /\ Emit(b)
  BY <1>2, MessagesProper DEF b, l
<1>4. PICK all, d : /\ Proper(all) /\ Joined(all, log, b, Len(log)) /\ Kept(all, log', d)
                    /\ ~ wrapped' => ~ wrapped /\ log' = all
  BY <1>3, EmitProper
<1>5. PICK n \in Nat : n = Len(log)
  <2>1. log \in Seq(LogLine)
    BY DEF DataOK, Proper
  <2> QED
    BY <2>1
<1>6. Len(all) = n + 1 /\ n + 1 \in 1 .. Len(all) /\ all[n + 1].kind = "insert"
  <2>1. Len(all) = n + 1 /\ \A i \in 1 .. 1 : all[n + i] = b[i]
    BY <1>2, <1>4, <1>5, Zenon DEF Joined
  <2>2. all[n + 1] = b[1]
    BY <2>1
  <2> QED
    BY <1>1, <1>2, <2>1, <2>2
<1>7. ASSUME NEW k \in 1 .. Len(all), Recent(all, k) PROVE FALSE
  <2>1. PICK j \in 1 .. k - 1 : \A i \in j + 1 .. Len(all) : all[i].kind # "insert"
    BY <1>7 DEF Recent
  <2>2. n + 1 \in j + 1 .. Len(all)
    BY <1>6
  <2> QED
    BY <1>6, <2>1, <2>2
<1>8. \A kind : Fresh(log', kind, {})
  <2>1. Proper(log')
    BY <1>3, EmitProper
  <2>2. \A k \in 1 .. Len(log') : Recent(log', k) => k + d \in 1 .. Len(all) /\ Recent(all, k + d)
    BY <1>4, <2>1, AfterLoss
  <2>3. \A k \in 1 .. Len(log') : ~ Recent(log', k)
    BY <1>7, <2>2
  <2> QED
    BY <2>3 DEF Fresh
<1>9. Inserted(all)
  BY <1>6 DEF Inserted
<1> QED
  BY <1>4, <1>8, <1>9

\* Command 7 says nothing of a row.
LEMMA KmallocLogs ==
  ASSUME DataOK, NEW s \in Sessions, Kmalloc(s)
  PROVE  /\ LogFresh(s) => LogFresh(s)'
         /\ ~ wrapped' /\ LogShown(s) => LogShown(s)'
<1> DEFINE alloc == Line("alloc", NULL, Zero)
           address == Line("address", NULL, s)
<1>1. /\ Other \in Messages(s) /\ alloc \in Messages(s) /\ address \in Messages(s)
      /\ Other.kind # "insert" /\ alloc.kind # "insert" /\ address.kind # "insert"
  BY MessageKinds DEF Messages
<1>2. /\ \/ UNCHANGED klog \/ Emit(<<Other, Other>>)
         \/ Emit(<<Other, alloc, Other, Other>>) \/ Emit(<<Other, alloc, address, Other>>)
      /\ measured' = measured
  BY DEF Kmalloc, Fails
<1> HIDE DEF alloc, address
<1>3. ASSUME NEW x \in {Other, address}, Emit(<<Other, alloc, x, Other>>)
      PROVE  /\ LogFresh(s) => LogFresh(s)'
             /\ ~ wrapped' /\ LogShown(s) => LogShown(s)'
  <2> DEFINE b == <<Other, alloc, x, Other>>
  <2>1. b \in Seq(Messages(s))
    BY <1>1
  <2>2. \A k \in 1 .. Len(b) : b[k].kind # "insert"
    <3>1. Len(b) = 4 /\ b[1] = Other /\ b[2] = alloc /\ b[3] = x /\ b[4] = Other
      OBVIOUS
    <3> HIDE DEF b
    <3>2. \A k \in 1 .. 4 : k = 1 \/ k = 2 \/ k = 3 \/ k = 4
      OBVIOUS
    <3> QED
      BY <1>1, <3>1, <3>2
  <2>3. Emit(b)
    BY <1>3
  <2> HIDE DEF b
  <2> QED
    BY <1>2, <2>1, <2>2, <2>3, QuietKeeps
<1> QED
  BY <1>2, <1>3, NothingKeeps

\* A command reports what it measures, as far as it gets, and nothing of other series.
LEMMA CommandLogs ==
  ASSUME DataOK, NEW s \in Sessions, NEW series \in Series,
         mod_ioctl(s, series) \/ FaultsMidway(s, series),
         \A m \in measured[s] : m.series = series => m.round < round[s]
  PROVE  /\ LogFresh(s) => LogFresh(s)'
         /\ ~ wrapped' /\ LogShown(s) => LogShown(s)'
<1>1. CASE \E n \in 0 .. Len(Entries(s)) : Report(s, series, n)
  <2>1. PICK n \in 0 .. Len(Entries(s)) : Report(s, series, n)
    BY <1>1
  <2> DEFINE b == Block(s, series, n)
  <2>2. Emit(b)
    BY <2>1, ReportLogs
  <2>3. measured' = [measured EXCEPT ![s] = @ \cup NewOnes(s, series, n)]
    BY <2>1 DEF Report, NewOnes
  <2>4. measured'[s] = measured[s] \cup NewOnes(s, series, n)
    BY <2>3, Zenon DEF DataOK
  <2>5. /\ Replaces(Pairs(s, series), Told(s, n), Pairs(s, series)')
        /\ \A x : x # series => Pairs(s, x)' = Pairs(s, x)
    BY <2>4, PairsMore
  <2>6. /\ Proper(b) /\ Reports(b, KindOf(series), Told(s, n))
        /\ \A other \in Data \ {KindOf(series)} : Reports(b, other, {})
    BY CommandReports DEF DataOK
  <2> HIDE DEF b
  <2>7. ASSUME NEW x \in Series
        PROVE  /\ Fresh(log, KindOf(x), Pairs(s, x)) => Fresh(log', KindOf(x), Pairs(s, x)')
               /\ ~ wrapped' /\ Inserted(log) => Inserted(log')
               /\ ~ wrapped' /\ Inserted(log) /\ Shown(log, KindOf(x), Pairs(s, x))
                  => Shown(log', KindOf(x), Pairs(s, x)')
    <3>1. KindOf(x) \in Data
      BY KindsOf
    <3>2. \E Q : Reports(b, KindOf(x), Q) /\ Replaces(Pairs(s, x), Q, Pairs(s, x)')
      <4>1. CASE x = series
        BY <2>5, <2>6, <4>1
      <4>2. CASE x # series
        <5>1. KindOf(x) \in Data \ {KindOf(series)} /\ Pairs(s, x)' = Pairs(s, x)
          BY <2>5, <3>1, <4>2, KindsOf
        <5>2. Reports(b, KindOf(x), {}) /\ Replaces(Pairs(s, x), {}, Pairs(s, x))
          BY <2>6, <5>1 DEF Replaces
        <5> QED
          BY <5>1, <5>2
      <4> QED
        BY <4>1, <4>2
    <3>3. PICK Q : Reports(b, KindOf(x), Q) /\ Replaces(Pairs(s, x), Q, Pairs(s, x)')
      BY <3>2
    <3> QED
      BY <2>2, <2>6, <3>1, <3>3, EmitReports
  <2>8. "wall" \in Series
    BY KindsOf
  <2> QED
    BY <2>7, <2>8 DEF LogFresh, LogShown
<1>2. CASE Nothing
  BY <1>2, NothingKeeps DEF Nothing
<1> QED
  BY <1>1, <1>2, Commanded

-----------------------------------------------------------------------------
(* What is read from it                                                     *)

\* The word that is read for a row: its last line's, or none.
Parsed(kind, row) == IF Found(kind, row) = 0 THEN NULL ELSE Word(log, Found(kind, row))

LEMMA ParsedAll ==
  ASSUME Proper(log), NEW r
  PROVE  /\ wall_parse(r) = Parsed("wall", r) /\ nop_parse(r) = Parsed("label", r)
         /\ probe_parse(r) = Parsed("cycles", r)
BY ParsedWord DEF Parsed

\* What is read from a log that tells what was measured last, was measured or is none.
LEMMA ReadsFresh ==
  ASSUME Proper(log), NEW kind \in Data, NEW P, Fresh(log, kind, P), NEW r
  PROVE  \/ Found(kind, r) = 0 /\ Parsed(kind, r) = NULL
         \/ \E p \in P : /\ p[1] = r
                         /\ Parsed(kind, r) = p[2] \/ (p[2] = Zero /\ Parsed(kind, r) = NULL)
<1>1. kind # "insert"
  BY DEF Data
<1>2. CASE Found(kind, r) = 0
  BY <1>2 DEF Parsed
<1>3. CASE Found(kind, r) # 0
  <2> DEFINE k == Found(kind, r)
  <2>1. k \in 1 .. Len(log) /\ Recent(log, k) /\ LastOf(log, k) /\ log[k].kind = kind /\ log[k].row = r
    BY <1>1, <1>3, FoundLast
  <2>2. Parsed(kind, r) = Word(log, k)
    BY <1>3 DEF Parsed
  <2> HIDE DEF k
  <2>3. Matches(P, r, Word(log, k))
    BY <2>1 DEF Fresh
  <2> QED
    BY <2>2, <2>3 DEF Matches
<1> QED
  BY <1>2, <1>3

\* The newest of a row is the latest of the round that is being read.
LEMMA NewestIsLatest ==
  ASSUME DataOK, NEW s \in Sessions, NEW series, NEW row,
         \A m \in measured[s] : m.series = series => m.round < round[s] + 1
  PROVE  Latest(s, series, round[s], row) = {m \in Newest(s, series) : m.row = row}
<1>1. round[s] \in Int /\ \A m \in measured[s] : m.round \in Int
  BY RoundsTyped
<1>2. \A m \in measured[s] : m.series = series => m.round <= round[s]
  BY <1>1
<1> DEFINE known == {m \in measured[s] : m.series = series /\ m.row = row}
<1>3. {m \in measured[s] : m.series = series /\ m.row = row /\ m.round <= round[s]} = known
  BY <1>2
<1>4. Latest(s, series, round[s], row) = {m \in known : \A n \in known : n.round <= m.round}
  BY <1>3 DEF Latest
<1>5. {m \in Newest(s, series) : m.row = row} = {m \in known : \A n \in known : n.round <= m.round}
  BY DEF Newest
<1> QED
  BY <1>4, <1>5

\* A value that is read in this round, for row r.
ReadIn(s, series, r, e) ==
  /\ e.series = series /\ e.round = round[s] /\ e.row = r
  /\ e.value = Parsed(KindOf(series), r)

LEMMA ReadBacked ==
  ASSUME DataOK, NEW s \in Sessions, NEW series \in Series, LogFresh(s),
         \A m \in measured[s] : m.series = series => m.round < round[s] + 1,
         NEW r, NEW e, ReadIn(s, series, r, e)
  PROVE  Backed(s, e)
<1>1. ASSUME e.value # NULL
      PROVE  e.value \in {m.value : m \in Latest(s, e.series, e.round, e.row)}
  <2>1. PICK p \in Pairs(s, series) : p[1] = r /\ e.value = p[2]
    <3>1. KindOf(series) \in Data /\ Fresh(log, KindOf(series), Pairs(s, series)) /\ Proper(log)
      BY KindsOf DEF LogFresh, DataOK
    <3>2. e.value = Parsed(KindOf(series), r)
      BY DEF ReadIn
    <3> QED
      BY <1>1, <3>1, <3>2, ReadsFresh
  <2>2. PICK m \in Newest(s, series) : p[1] = m.row /\ p[2] = m.value
    BY PairsAre
  <2>3. m \in Latest(s, series, round[s], r)
    BY <2>1, <2>2, NewestIsLatest
  <2> QED
    BY <2>1, <2>2, <2>3 DEF ReadIn
<1> QED
  BY <1>1 DEF Backed

LEMMA ReadAgrees ==
  ASSUME DataOK, NEW s \in Sessions, NEW series \in Series, LogFresh(s), LogShown(s), Unique(s),
         \A m \in measured[s] : m.series = series => m.round < round[s] + 1,
         NEW r, NEW e, ReadIn(s, series, r, e)
  PROVE  Agrees(s, e)
<1> DEFINE own == Latest(s, series, round[s], r)
           kind == KindOf(series)
<1>1. own = {m \in Newest(s, series) : m.row = r}
  BY NewestIsLatest
<1> HIDE DEF own
<1>2. kind \in Data /\ kind # "insert" /\ Proper(log) /\ e.value = Parsed(kind, r)
  BY KindsOf DEF DataOK, ReadIn, Data
<1>3. Fresh(log, kind, Pairs(s, series)) /\ Shown(log, kind, Pairs(s, series))
  BY DEF LogFresh, LogShown
<1> HIDE DEF kind
<1>4. \/ Found(kind, r) = 0 /\ e.value = NULL
      \/ \E m \in own : e.value = m.value \/ (m.value = Zero /\ e.value = NULL)
  <2>1. CASE Found(kind, r) = 0
    BY <1>2, <2>1 DEF Parsed
  <2>2. CASE Found(kind, r) # 0
    <3>1. PICK p \in Pairs(s, series) : p[1] = r /\ (e.value = p[2] \/ (p[2] = Zero /\ e.value = NULL))
      BY <1>2, <1>3, <2>2, ReadsFresh
    <3>2. PICK m \in Newest(s, series) : p[1] = m.row /\ p[2] = m.value
      BY PairsAre
    <3>3. m \in own
      BY <1>1, <3>1, <3>2
    <3> QED
      BY <3>1, <3>2, <3>3
  <2> QED
    BY <2>1, <2>2
<1>5. ASSUME NEW m \in own
      PROVE  e.value = m.value \/ (m.value = Zero /\ e.value = NULL)
  <2>1. m \in Newest(s, series) /\ m.row = r
    BY <1>1
  <2>2. PICK p \in Pairs(s, series) : p[1] = r
    BY <2>1, PairsAre
  <2>3. PICK j \in 1 .. Len(log) : Recent(log, j) /\ log[j].kind = kind /\ log[j].row = r
    BY <1>3, <2>2 DEF Shown
  <2>4. Found(kind, r) # 0
    BY <1>2, <2>3, FoundLast
  <2>5. PICK a \in own : e.value = a.value \/ (a.value = Zero /\ e.value = NULL)
    BY <1>4, <2>4
  <2>6. a \in Newest(s, series) /\ a.row = r
    BY <1>1
  <2>7. /\ a \in measured[s] /\ m \in measured[s] /\ a.series = series /\ m.series = series
        /\ a.round <= m.round /\ m.round <= a.round
    BY <2>1, <2>6 DEF Newest
  <2>8. Same(a, m)
    BY <2>1, <2>6, <2>7, RoundsTyped DEF Same
  <2>9. a.value = m.value
    BY <2>7, <2>8 DEF Unique
  <2> QED
    BY <2>5, <2>9
<1>6. own = {} => e.value = NULL
  BY <1>4
<1> QED
  BY <1>5, <1>6 DEF Agrees, ReadIn, own

\* What a session reads of a series, and how far it is then.
Reading(s, series) ==
  /\ pc[s] = IF series = "wall" THEN "read_wall" ELSE IF series = "nop" THEN "read_nop" ELSE "read_probe"
  /\ \E values : /\ Read(s, series, values)
                 /\ \A r \in RowsOf(s) : values[r] = Parsed(KindOf(series), r)
  /\ UNCHANGED <<log, measured>>
  /\ pc'[s] \in {"nop", "measure", "rmmod"}

LEMMA ReadsAre ==
  ASSUME DataOK, NEW s \in Sessions, ReadWall(s) \/ ReadNop(s) \/ ReadProbe(s)
  PROVE  \E series \in Series : Reading(s, series)
<1>1. \A r : /\ wall_parse(r) = Parsed("wall", r) /\ nop_parse(r) = Parsed("label", r)
             /\ probe_parse(r) = Parsed("cycles", r)
  BY ParsedAll DEF DataOK
<1>2. CASE ReadWall(s)
  <2> DEFINE v == [r \in RowsOf(s) |-> wall_parse(r)]
  <2>1. Read(s, "wall", v) /\ \A r \in RowsOf(s) : v[r] = Parsed(KindOf("wall"), r)
    BY <1>1, <1>2, KindsOf DEF ReadWall
  <2> HIDE DEF v
  <2>2. pc[s] = "read_wall" /\ pc'[s] = "nop" /\ UNCHANGED <<log, measured>>
    BY <1>2 DEF ReadWall, At, DataOK, ControlOK, module, klog
  <2> QED
    BY <2>1, <2>2, KindsOf DEF Reading
<1>3. CASE ReadNop(s)
  <2> DEFINE v == [r \in RowsOf(s) |-> nop_parse(r)]
  <2>1. Read(s, "nop", v) /\ \A r \in RowsOf(s) : v[r] = Parsed(KindOf("nop"), r)
    BY <1>1, <1>3, KindsOf DEF ReadNop
  <2> HIDE DEF v
  <2>2. pc[s] = "read_nop" /\ pc'[s] \in {"measure", "rmmod"} /\ UNCHANGED <<log, measured>>
    BY <1>3 DEF ReadNop, At, DataOK, ControlOK, module, klog
  <2> QED
    BY <2>1, <2>2, KindsOf DEF Reading
<1>4. CASE ReadProbe(s)
  <2> DEFINE v == [r \in RowsOf(s) |-> probe_parse(r)]
  <2>1. Read(s, "cycles", v) /\ \A r \in RowsOf(s) : v[r] = Parsed(KindOf("cycles"), r)
    BY <1>1, <1>4, KindsOf DEF ReadProbe
  <2> HIDE DEF v
  <2>2. pc[s] = "read_probe" /\ pc'[s] = "rmmod" /\ UNCHANGED <<log, measured>>
    BY <1>4 DEF ReadProbe, At, DataOK, ControlOK, module, klog
  <2> QED
    BY <2>1, <2>2, KindsOf DEF Reading
<1> QED
  BY <1>2, <1>3, <1>4

\* Nothing is read before it is measured.
LEMMA ReadingNow ==
  ASSUME NEW s \in Sessions, NEW series \in Series, Reading(s, series), Frontier(s)
  PROVE  /\ \A m \in measured[s] : m.series = series => m.round < round[s] + 1
         /\ pc[s] \in Holding
<1>1. series = "wall" \/ series = "nop" \/ series = "cycles"
  BY DEF Series
<1> QED
  BY <1>1 DEF Reading, Frontier, Done, Holding

-----------------------------------------------------------------------------
(* A session alone                                                          *)

LEMMA SessionReads ==
  ASSUME DataOK, NEW s \in Sessions, NEW series \in Series, Reading(s, series), Frontier(s)
  PROVE  /\ SessionOK(s) => SessionOK(s)'
         /\ SessionOK(s) /\ Unique(s) /\ LosslessOK(s) => LosslessOK(s)'
<1>1. PICK values : /\ Read(s, series, values)
                    /\ \A r \in RowsOf(s) : values[r] = Parsed(KindOf(series), r)
  BY DEF Reading
<1>2. \A e \in read'[s] : e \in read[s] \/ \E r : ReadIn(s, series, r, e)
  BY <1>1, ReadNow DEF ReadIn
<1>3. /\ UNCHANGED <<log, measured>> /\ pc[s] \in Holding
      /\ \A m \in measured[s] : m.series = series => m.round < round[s] + 1
  BY ReadingNow DEF Reading
<1>4. \A e : (Backed(s, e) => Backed(s, e)') /\ (Agrees(s, e) => Agrees(s, e)')
  BY <1>3 DEF Backed, Agrees, Latest
<1>5. ASSUME SessionOK(s) PROVE SessionOK(s)'
  <2>1. LogFresh(s) /\ AllBacked(s)
    BY <1>3, <1>5 DEF SessionOK
  <2>2. LogFresh(s)'
    BY <1>3, <2>1 DEF LogFresh, Pairs, Newest
  <2>3. \A e \in read'[s] : Backed(s, e)
    BY <1>2, <1>3, <2>1, ReadBacked DEF AllBacked
  <2>4. AllBacked(s)'
    BY <1>4, <2>3 DEF AllBacked
  <2> QED
    BY <2>2, <2>4 DEF SessionOK
<1>6. ASSUME SessionOK(s), Unique(s), LosslessOK(s) PROVE LosslessOK(s)'
  <2>1. LogFresh(s) /\ LogShown(s) /\ AllAgree(s)
    BY <1>3, <1>6 DEF SessionOK, LosslessOK
  <2>2. LogShown(s)'
    BY <1>3, <2>1 DEF LogShown, Pairs, Newest
  <2>3. \A e \in read'[s] : Agrees(s, e)
    BY <1>2, <1>3, <1>6, <2>1, ReadAgrees DEF AllAgree
  <2>4. AllAgree(s)'
    BY <1>4, <2>3 DEF AllAgree
  <2> QED
    BY <2>2, <2>4 DEF LosslessOK
<1> QED
  BY <1>5, <1>6

LEMMA SessionMeasures ==
  ASSUME DataOK, NEW s \in Sessions, Measure(s) \/ MeasureNop(s), Frontier(s)
  PROVE  /\ SessionOK(s) => SessionOK(s)'
         /\ ~ wrapped' /\ LosslessOK(s) => LosslessOK(s)'
<1>1. \E series \in Series :
        /\ mod_ioctl(s, series) \/ FaultsMidway(s, series)
        /\ \A m \in measured[s] : m.series = series => m.round < round[s]
        /\ \A e \in read[s] : e.series = series => e.round < round[s]
  <2>1. CASE Measure(s)
    <3>1. pc[s] = "measure" /\ (mod_ioctl(s, "cycles") \/ mod_ioctl(s, "wall") \/ FaultsMidway(s, "wall"))
      BY <2>1, MeasureMoves
    <3>2. Done(s, "wall", round[s], round[s]) /\ Done(s, "cycles", round[s], round[s])
      BY <3>1 DEF Frontier
    <3> QED
      BY <3>1, <3>2, KindsOf DEF Done
  <2>2. CASE MeasureNop(s)
    <3>1. pc[s] = "nop" /\ (mod_ioctl(s, "nop") \/ FaultsMidway(s, "nop"))
      BY <2>2, MeasureNopMoves
    <3>2. Done(s, "nop", round[s], round[s])
      BY <3>1 DEF Frontier
    <3> QED
      BY <3>1, <3>2, KindsOf DEF Done
  <2> QED
    BY <2>1, <2>2
<1>2. PICK series \in Series :
        /\ mod_ioctl(s, series) \/ FaultsMidway(s, series)
        /\ \A m \in measured[s] : m.series = series => m.round < round[s]
        /\ \A e \in read[s] : e.series = series => e.round < round[s]
  BY <1>1
<1>3. UNCHANGED read /\ pc[s] \in Holding
  BY MeasureMoves, MeasureNopMoves DEF Holding
<1>4. /\ LogFresh(s) => LogFresh(s)'
      /\ ~ wrapped' /\ LogShown(s) => LogShown(s)'
  BY <1>2, CommandLogs
<1>5. (AllBacked(s) => AllBacked(s)') /\ (AllAgree(s) => AllAgree(s)')
  BY <1>2, <1>3, ReadsStand
<1> QED
  BY <1>3, <1>4, <1>5 DEF SessionOK, LosslessOK

\* Insertion, allocation and the wait for Enter: the log says nothing of a row yet.
LEMMA SessionStarts ==
  ASSUME DataOK, NEW s \in Sessions, insmod(s) \/ Kmalloc(s) \/ ReadAddress(s), Frontier(s)
  PROVE  /\ SessionOK(s) => SessionOK(s)'
         /\ ~ wrapped' /\ LosslessOK(s) => LosslessOK(s)'
<1>1. UNCHANGED <<read, measured>>
  BY DEF insmod, Kmalloc, Fails, ReadAddress
<1>2. (AllBacked(s) => AllBacked(s)') /\ (AllAgree(s) => AllAgree(s)')
  BY <1>1 DEF AllBacked, Backed, AllAgree, Agrees, Latest
<1>3. CASE insmod(s)
  <2>1. pc[s] = "insmod" /\ pc'[s] \in {"kmalloc", "measure", "exit"}
    BY <1>3 DEF insmod, Exit, At, DataOK, ControlOK
  <2>2. ASSUME pc'[s] # "exit" PROVE LogFresh(s)' /\ (~ wrapped' => LogShown(s)')
    <3>1. Emit(<<Line("insert", NULL, Zero)>>)
      BY <1>3, <2>2 DEF insmod, Exit, At, DataOK, ControlOK
    <3>2. \A x : Pairs(s, x)' = {}
      BY <1>1, <2>1 DEF Frontier, Pairs, Newest
    <3>3. (\A kind : Fresh(log', kind, {})) /\ (~ wrapped' => Inserted(log'))
      BY <3>1, EmitInsert
    <3> QED
      BY <3>2, <3>3 DEF LogFresh, LogShown, Shown
  <2> QED
    BY <1>2, <2>1, <2>2 DEF SessionOK, LosslessOK, Holding
<1>4. CASE Kmalloc(s)
  <2>1. pc[s] = "kmalloc"
    BY <1>4 DEF Kmalloc, At
  <2> QED
    BY <1>2, <1>4, <2>1, KmallocLogs DEF SessionOK, LosslessOK, Holding
<1>5. CASE ReadAddress(s)
  <2>1. /\ pc[s] = "address" /\ log' = log
    BY <1>5 DEF ReadAddress, Exit, At, module, klog
  <2>2. (LogFresh(s) => LogFresh(s)') /\ (LogShown(s) => LogShown(s)')
    BY <1>1, <2>1 DEF LogFresh, LogShown, Pairs, Newest
  <2> QED
    BY <1>2, <2>1, <2>2 DEF SessionOK, LosslessOK, Holding
<1> QED
  BY <1>3, <1>4, <1>5

\* A session that neither measures nor reads again may lose the module.
LEMMA SessionEnds ==
  ASSUME DataOK, NEW s \in Sessions,
         Begin(s) \/ rmmod(s) \/ PrintTable(s) \/ ctrl_c(s) \/ finish(s)
  PROVE  (SessionOK(s) => SessionOK(s)') /\ (LosslessOK(s) => LosslessOK(s)')
<1>1. UNCHANGED <<read, measured>>
  BY DEF Begin, rmmod, PrintTable, ctrl_c, finish
<1>2. (AllBacked(s) => AllBacked(s)') /\ (AllAgree(s) => AllAgree(s)')
  BY <1>1 DEF AllBacked, Backed, AllAgree, Agrees, Latest
<1>3. pc'[s] \in {"insmod", "print", "exit", "ended"}
  BY DEF Begin, rmmod, PrintTable, ctrl_c, finish, Exit, At, DataOK, ControlOK
<1> QED
  BY <1>2, <1>3 DEF SessionOK, LosslessOK, Holding

\* While no two sessions are under way at once, the others stand still.
LEMMA Alone ==
  ASSUME TypeInv, TypeInv', AloneOK, NEW s \in Sessions, Step(s), ~ overlapped',
         overlapped' = (overlapped \/ Cardinality(Active') > 1)
  PROVE  \A t \in Sessions : t # s => pc[t] \notin Under /\ pc'[t] \notin Under
<1> SUFFICES ASSUME NEW t \in Sessions, t # s, pc[t] \in Under PROVE FALSE
  BY StepOthers DEF TypeInv
<1>1. Begin(s) /\ pc[s] \notin Under
  BY StepOthers DEF AloneOK, TypeInv
<1>2. pc'[s] \in Under /\ \A x \in Sessions : x # s => pc'[x] = pc[x]
  BY <1>1 DEF Begin, Exit, At, Under, TypeInv, DataOK, ControlOK
<1>3. \A x \in Sessions : x # s /\ x # t => pc[x] \notin Under
  BY DEF AloneOK
<1>4. pc \in [Sessions -> Under \cup {"idle", "ended"}]
  BY DEF TypeInv, DataOK, ControlOK
<1>5. Active' = {s, t}
  <2>1. ASSUME NEW x \in Sessions, x # s, x # t PROVE pc'[x] \in {"idle", "ended"}
    BY <1>2, <1>3, <1>4, <2>1
  <2>2. pc'[s] \notin {"idle", "ended"} /\ pc'[t] \notin {"idle", "ended"}
    BY <1>2 DEF Under
  <2> QED
    BY <2>1, <2>2 DEF Active
<1>6. Cardinality({s, t}) = 2
  <2>1. IsFiniteSet({s}) /\ Cardinality({s}) = 1
    BY FS_Singleton
  <2>2. Cardinality({s} \cup {t}) = 1 + 1
    BY <2>1, FS_AddElement
  <2>3. {s, t} = {s} \cup {t}
    OBVIOUS
  <2> QED
    BY <2>2, <2>3
<1>7. ~ (Cardinality(Active') > 1)
  OBVIOUS
<1>8. Cardinality(Active') = 2
  BY <1>5, <1>6, Zenon
<1> QED
  BY <1>7, <1>8

\* Another session, which stands still.
LEMMA SessionRests ==
  ASSUME NEW t \in Sessions, pc'[t] \notin Under, read'[t] = read[t], measured'[t] = measured[t]
  PROVE  (SessionOK(t) => SessionOK(t)') /\ (LosslessOK(t) => LosslessOK(t)')
<1>1. (AllBacked(t) => AllBacked(t)') /\ (AllAgree(t) => AllAgree(t)')
  BY DEF AllBacked, Backed, AllAgree, Agrees, Latest
<1> QED
  BY <1>1 DEF SessionOK, LosslessOK, Holding, Under

LEMMA SessionStutters ==
  ASSUME NEW s \in Sessions, UNCHANGED <<pc, log, round, read, measured>>
  PROVE  (SessionOK(s) => SessionOK(s)') /\ (LosslessOK(s) => LosslessOK(s)')
<1>1. (AllBacked(s) => AllBacked(s)') /\ (AllAgree(s) => AllAgree(s)')
  BY DEF AllBacked, Backed, AllAgree, Agrees, Latest
<1>2. (LogFresh(s) => LogFresh(s)') /\ (LogShown(s) => LogShown(s)')
  BY DEF LogFresh, LogShown, Pairs, Newest
<1> QED
  BY <1>1, <1>2 DEF SessionOK, LosslessOK

LEMMA AloneInit == Init => AloneInv
<1> SUFFICES ASSUME Init PROVE AloneOK
  BY DEF AloneInv
<1>1. \A s \in Sessions : pc[s] = "idle" /\ read[s] = {}
  BY DEF Init
<1> QED
  BY <1>1 DEF AloneOK, SessionOK, AllBacked, Holding, Under

LEMMA AloneStep == TypeInv /\ TypeInv' /\ FrontierInv /\ AloneInv /\ [Next]_vars => AloneInv'
<1> SUFFICES ASSUME TypeInv, TypeInv', FrontierInv, AloneInv, [Next]_vars, ~ overlapped'
             PROVE  AloneOK'
  BY DEF AloneInv
<1>1. CASE Next
  <2>1. PICK s \in Sessions : Step(s)
    BY <1>1 DEF Next
  <2>2. overlapped' = (overlapped \/ Cardinality(Active') > 1)
    BY <1>1 DEF Next
  <2>3. AloneOK /\ DataOK /\ Frontier(s)
    BY <2>2 DEF AloneInv, TypeInv, FrontierInv
  <2>4. \A t \in Sessions : t # s => pc[t] \notin Under /\ pc'[t] \notin Under
    BY <2>1, <2>2, <2>3, Alone
  <2>5. SessionOK(s)'
    <3>1. SessionOK(s)
      BY <2>3 DEF AloneOK
    <3>2. CASE ReadWall(s) \/ ReadNop(s) \/ ReadProbe(s)
      BY <2>3, <3>1, <3>2, ReadsAre, SessionReads
    <3> QED
      BY <2>1, <2>3, <3>1, <3>2, SessionMeasures, SessionStarts, SessionEnds DEF Step
  <2>6. ASSUME NEW t \in Sessions, t # s PROVE SessionOK(t)'
    BY <2>1, <2>3, <2>4, <2>6, StepOthers, SessionRests DEF AloneOK
  <2> QED
    BY <2>4, <2>5, <2>6 DEF AloneOK
<1>2. CASE UNCHANGED vars
  <2>1. UNCHANGED <<pc, log, round, read, measured, overlapped>>
    BY <1>2 DEF vars, module, klog, session
  <2>2. AloneOK
    BY <2>1 DEF AloneInv
  <2>3. \A s \in Sessions : SessionOK(s)'
    BY <2>1, <2>2, SessionStutters DEF AloneOK
  <2> QED
    BY <2>1, <2>2, <2>3 DEF AloneOK
<1> QED
  BY <1>1, <1>2

\* When sessions take turns, no size of the log makes the script take another
\* session's value or another row's for its own, nor a value older than the last
\* that was measured for the row: what it parses is that, or nothing, or a zero.
THEOREM ReadsItsOwn == Spec => []OwnOrNothing
<1>1. AloneInv => OwnOrNothing
  BY DEF AloneInv, AloneOK, SessionOK, AllBacked, Backed, OwnOrNothing
<1> QED
  BY TypeInit, TypeStep, FrontierInit, FrontierStep, AloneInit, AloneStep, <1>1, PTL DEF Spec

-----------------------------------------------------------------------------
(* As long as the ring loses nothing                                        *)

LEMMA WrappedStays ==
  ASSUME DataOK, NEW s \in Sessions, Step(s), ~ wrapped'
  PROVE  ~ wrapped
<1>1. CASE UNCHANGED klog
  BY <1>1 DEF klog
<1>2. CASE \E lines : Proper(lines) /\ Emit(lines)
  BY <1>2 DEF Emit
<1> QED
  BY <1>1, <1>2, StepLogs

LEMMA FullInit == Init => FullInv
<1> SUFFICES ASSUME Init PROVE \A s \in Sessions : LosslessOK(s)
  BY DEF FullInv
<1>1. \A s \in Sessions : pc[s] = "idle" /\ read[s] = {}
  BY DEF Init
<1> QED
  BY <1>1 DEF LosslessOK, AllAgree, Holding

LEMMA FullStep ==
  TypeInv /\ TypeInv' /\ FrontierInv /\ AloneInv /\ FullInv /\ [Next]_vars => FullInv'
<1> SUFFICES ASSUME TypeInv, TypeInv', FrontierInv, AloneInv, FullInv, [Next]_vars,
                    ~ wrapped', ~ overlapped', NEW t \in Sessions
             PROVE  LosslessOK(t)'
  BY DEF FullInv, Undisturbed
<1>1. CASE Next
  <2>1. PICK s \in Sessions : Step(s)
    BY <1>1 DEF Next
  <2>2. overlapped' = (overlapped \/ Cardinality(Active') > 1)
    BY <1>1 DEF Next
  <2>3. AloneOK /\ DataOK /\ Frontier(s) /\ Unique(s)
    BY <2>2 DEF AloneInv, TypeInv, FrontierInv
  <2>4. \A x \in Sessions : LosslessOK(x) /\ SessionOK(x)
    BY <2>1, <2>2, <2>3, WrappedStays DEF FullInv, Undisturbed, AloneOK
  <2>5. CASE t = s
    <3>1. CASE ReadWall(s) \/ ReadNop(s) \/ ReadProbe(s)
      BY <2>3, <2>4, <2>5, <3>1, ReadsAre, SessionReads
    <3> QED
      BY <2>1, <2>3, <2>4, <2>5, <3>1, SessionMeasures, SessionStarts, SessionEnds DEF Step
  <2>6. CASE t # s
    <3>1. pc'[t] \notin Under
      BY <2>1, <2>2, <2>3, <2>6, Alone
    <3> QED
      BY <2>1, <2>3, <2>4, <2>6, <3>1, StepOthers, SessionRests
  <2> QED
    BY <2>5, <2>6
<1>2. CASE UNCHANGED vars
  <2>1. UNCHANGED <<pc, log, wrapped, round, read, measured, overlapped>>
    BY <1>2 DEF vars, module, klog, session
  <2> QED
    BY <2>1, SessionStutters DEF FullInv, Undisturbed
<1> QED
  BY <1>1, <1>2

\* When besides the ring has lost nothing, the script misses no measurement either:
\* it reads for every row the last value that the driver measured for it by then, which
\* is this round's unless the command failed, and nothing for a row without one.
THEOREM ReadsWhatWasMeasured == Spec => []OwnValues
<1>1. FullInv => OwnValues
  BY DEF FullInv, LosslessOK, AllAgree, Agrees, OwnValues
<1> QED
  BY TypeInit, TypeStep, FrontierInit, FrontierStep, AloneInit, AloneStep, FullInit, FullStep,
     <1>1, PTL DEF Spec

-----------------------------------------------------------------------------
(* What a session has when it prints                                        *)

\* What an entry gives in round i, as long as the buffer stays.
ResultIn(s, i, e) == IF Runs(e) THEN <<s, i, e.row>> ELSE Zero

\* All that was measured is a result of one of the entries.
Taken(s) ==
  \A m \in measured[s] : \E k \in 1 .. Len(Entries(s)) :
    m.row = Entries(s)[k].row /\ m.value = ResultIn(s, m.round, Entries(s)[k])

IsFor(e, series, i, row) == e.series = series /\ e.round = i /\ e.row = row

\* One word for each row was read in round i, and in the rounds 1 .. b.
ReadOnce(s, series, i) ==
  \A row \in RowsOf(s) : \E e \in read[s] : \A f \in read[s] : IsFor(f, series, i, row) <=> f = e
Passed(s, series, b) == \A i \in 1 .. b : ReadOnce(s, series, i)

Steady(s) ==
  LET r == round[s]
  IN  /\ pc[s] \in {"idle", "insmod", "kmalloc", "address"} => r = 1
      /\ pc[s] \in {"measure", "read_wall"} => Passed(s, "wall", r - 1) /\ Passed(s, "nop", r - 1)
      /\ pc[s] \in {"nop", "read_nop"} => Passed(s, "wall", r) /\ Passed(s, "nop", r - 1)
      /\ pc[s] = "read_probe" => args[s].mode \in Probing
      /\ pc[s] \in {"rmmod", "print"} /\ args[s].mode \notin Probing =>
           Passed(s, "wall", Rounds) /\ Passed(s, "nop", Rounds)
      /\ pc[s] \in {"measure", "read_wall", "nop", "read_nop", "read_probe", "rmmod", "print"} =>
           Taken(s)

SteadyInv == ~ overlapped => \A s \in Sessions : Steady(s)

\* The table comes last.
Unprinted ==
  DOMAIN printed = Sessions /\ \A s \in Sessions : pc[s] \notin {"exit", "ended"} => printed[s] = <<>>

LEMMA PassedStays ==
  ASSUME NEW s \in Sessions, NEW series, NEW b, args'[s] = args[s],
         read[s] \subseteq read'[s],
         \A e \in read'[s] : e.series = series /\ e.round \in 1 .. b => e \in read[s],
         Passed(s, series, b)
  PROVE  Passed(s, series, b)'
<1>1. RowsOf(s)' = RowsOf(s)
  BY DEF RowsOf
<1>2. ASSUME NEW i \in 1 .. b, NEW row \in RowsOf(s)
      PROVE  \E e \in read'[s] : \A f \in read'[s] : IsFor(f, series, i, row) <=> f = e
  <2>1. PICK e \in read[s] : \A f \in read[s] : IsFor(f, series, i, row) <=> f = e
    BY DEF Passed, ReadOnce
  <2>2. \A f \in read'[s] : IsFor(f, series, i, row) => f \in read[s]
    BY DEF IsFor
  <2> QED
    BY <2>1, <2>2
<1> QED
  BY <1>1, <1>2 DEF Passed, ReadOnce, IsFor

LEMMA TakenStays ==
  ASSUME NEW s \in Sessions, args'[s] = args[s], vmem' = vmem, measured'[s] = measured[s], Taken(s)
  PROVE  Taken(s)'
BY DEF Taken, ResultIn, Runs, Entries

LEMMA TakenGrows ==
  ASSUME DataOK, NEW s \in Sessions, NEW series, UNCHANGED <<args, vmem>>, Taken(s),
         mod_ioctl(s, series) \/ FaultsMidway(s, series)
  PROVE  Taken(s)'
<1>1. PICK n \in 0 .. Len(Entries(s)) : measured'[s] = measured[s] \cup NewOnes(s, series, n)
  BY Grows
<1>2. Entries(s)' = Entries(s) /\ Len(Entries(s)) \in Nat
  BY EntriesTyped DEF Entries, DataOK
<1>3. \A i, e : ResultIn(s, i, e)' = ResultIn(s, i, e)
  BY DEF ResultIn, Runs
<1>4. ASSUME NEW m \in NewOnes(s, series, n)
      PROVE  \E k \in 1 .. Len(Entries(s)) :
               m.row = Entries(s)[k].row /\ m.value = ResultIn(s, m.round, Entries(s)[k])
  <2>1. m.round = round[s]
    BY NewOnesAre
  <2>2. PICK k \in 1 .. n : m.row = Entries(s)[k].row /\ m.value = Result(s, Entries(s)[k])
    BY NewOnesAre
  <2>3. k \in 1 .. Len(Entries(s))
    BY <1>2
  <2>4. Result(s, Entries(s)[k]) = ResultIn(s, m.round, Entries(s)[k])
    BY <2>1 DEF Result, ResultIn
  <2> QED
    BY <2>2, <2>3, <2>4
<1>5. \A m \in measured'[s] : \E k \in 1 .. Len(Entries(s)) :
        m.row = Entries(s)[k].row /\ m.value = ResultIn(s, m.round, Entries(s)[k])
  BY <1>1, <1>4 DEF Taken
<1> QED
  BY <1>2, <1>3, <1>5 DEF Taken

LEMMA LastRound ==
  ASSUME NEW r \in Int, NEW i \in 1 .. r
  PROVE  i = r \/ i \in 1 .. r - 1
OBVIOUS

\* A reading adds one word for each row.
LEMMA ReadsOnce ==
  ASSUME DataOK, NEW s \in Sessions, NEW series, NEW values, Read(s, series, values), UNCHANGED args,
         NEW r, r = round[s], \A e \in read[s] : ~ (e.series = series /\ e.round = r)
  PROVE  ReadOnce(s, series, r)'
<1>1. read'[s] = read[s] \cup {Entry(series, r, q, values[q]) : q \in RowsOf(s)}
  BY DEF Read, DataOK
<1>2. RowsOf(s)' = RowsOf(s)
  BY DEF RowsOf
<1> SUFFICES ASSUME NEW row \in RowsOf(s)
             PROVE  \E e \in read'[s] : \A f \in read'[s] : IsFor(f, series, r, row) <=> f = e
  BY <1>2 DEF ReadOnce
<1> DEFINE e == Entry(series, r, row, values[row])
<1>3. e \in read'[s] /\ IsFor(e, series, r, row)
  BY <1>1 DEF Entry, IsFor
<1>4. ASSUME NEW f \in read'[s], IsFor(f, series, r, row) PROVE f = e
  <2>1. f \notin read[s]
    BY <1>4 DEF IsFor
  <2>2. PICK q \in RowsOf(s) : f = Entry(series, r, q, values[q])
    BY <1>1, <2>1
  <2>3. q = row
    BY <1>4, <2>2 DEF Entry, IsFor
  <2> QED
    BY <2>2, <2>3
<1> QED
  BY <1>3, <1>4

LEMMA SteadyMeasure ==
  ASSUME DataOK, NEW s \in Sessions, Measure(s) \/ MeasureNop(s), Steady(s)
  PROVE  Steady(s)'
<1>1. UNCHANGED <<vmem, args, round, read>>
  BY MeasureMoves, MeasureNopMoves
<1>2. \A series, b : Passed(s, series, b) => Passed(s, series, b)'
  BY <1>1, PassedStays
<1>3. CASE Measure(s)
  <2>1. pc[s] = "measure" /\ pc'[s] \in {"read_probe", "read_wall"}
    BY <1>3, MeasureMoves
  <2>2. Taken(s)'
    BY <1>1, <1>3, <2>1, MeasureMoves, TakenGrows DEF Steady
  <2>3. pc'[s] = "read_probe" => args[s].mode \in Probing
    BY <1>3 DEF Measure, At, DataOK, ControlOK
  <2>4. Passed(s, "wall", round[s] - 1) /\ Passed(s, "nop", round[s] - 1)
    BY <2>1 DEF Steady
  <2> QED
    BY <1>1, <1>2, <2>1, <2>2, <2>3, <2>4 DEF Steady
<1>4. CASE MeasureNop(s)
  <2>1. pc[s] = "nop" /\ pc'[s] \in {"hung", "read_nop"}
    BY <1>4, MeasureNopMoves
  <2>2. Taken(s)'
    BY <1>1, <1>4, <2>1, MeasureNopMoves, TakenGrows DEF Steady
  <2>3. Passed(s, "wall", round[s]) /\ Passed(s, "nop", round[s] - 1)
    BY <2>1 DEF Steady
  <2> QED
    BY <1>1, <1>2, <2>1, <2>2, <2>3 DEF Steady
<1> QED
  BY <1>3, <1>4

\* The words of round r join those of the rounds before.
LEMMA PassedMore ==
  ASSUME DataOK, NEW s \in Sessions, NEW series \in Series, NEW values, Read(s, series, values),
         UNCHANGED args, \A e \in read[s] : e.series = series => e.round < round[s]
  PROVE  /\ Passed(s, series, round[s] - 1) => \A i \in 1 .. round[s] : ReadOnce(s, series, i)'
         /\ \A x, b : x # series /\ Passed(s, x, b) => Passed(s, x, b)'
<1>1. PICK r \in Int : r = round[s]
  BY RoundsTyped
<1>2. /\ read[s] \subseteq read'[s]
      /\ \A e \in read'[s] : e \in read[s] \/ (e.series = series /\ e.round = r)
  BY <1>1, ReadNow
<1>3. \A e \in read[s] : ~ (e.series = series /\ e.round = r)
  BY <1>1
<1>4. ReadOnce(s, series, r)'
  BY <1>1, <1>3, ReadsOnce
<1>5. ASSUME Passed(s, series, r - 1) PROVE Passed(s, series, r - 1)'
  BY <1>2, <1>5, PassedStays
<1>6. ASSUME NEW x, NEW b, x # series, Passed(s, x, b) PROVE Passed(s, x, b)'
  BY <1>2, <1>6, PassedStays
<1> QED
  BY <1>1, <1>4, <1>5, <1>6, LastRound DEF Passed

LEMMA SteadyRead ==
  ASSUME DataOK, NEW s \in Sessions, ReadWall(s) \/ ReadNop(s) \/ ReadProbe(s), Frontier(s),
         Steady(s)
  PROVE  Steady(s)'
<1>1. PICK r \in Int : r = round[s]
  BY RoundsTyped
<1>2. /\ UNCHANGED <<vmem, args, measured>>
      /\ pc[s] \in {"read_wall", "read_nop", "read_probe"}
  BY DEF ReadWall, ReadNop, ReadProbe, At, module
<1>3. Taken(s)'
  BY <1>2, TakenStays DEF Steady
<1>4. CASE ReadWall(s)
  <2>1. /\ pc[s] = "read_wall" /\ pc'[s] = "nop" /\ round'[s] = r
        /\ Read(s, "wall", [q \in RowsOf(s) |-> wall_parse(q)]) /\ "wall" \in Series
    BY <1>1, <1>4 DEF ReadWall, At, DataOK, ControlOK, Series
  <2>2. \A e \in read[s] : e.series = "wall" => e.round < round[s]
    BY <2>1 DEF Frontier, Done
  <2>3. Passed(s, "wall", r - 1) /\ Passed(s, "nop", r - 1)
    BY <1>1, <2>1 DEF Steady
  <2>4. (\A i \in 1 .. r : ReadOnce(s, "wall", i)') /\ Passed(s, "nop", r - 1)'
    BY <1>1, <1>2, <2>1, <2>2, <2>3, PassedMore
  <2> QED
    BY <1>3, <2>1, <2>4 DEF Steady, Passed
<1>5. CASE ReadNop(s)
  <2>1. r \in 1 .. Rounds /\ Rounds \in Int
    <3>1. round[s] \in 1 .. Rounds
      BY DEF DataOK
    <3> QED
      BY <1>1, <3>1, RoundsPositive
  <2>2. /\ pc[s] = "read_nop"
        /\ \/ pc'[s] = "measure" /\ round'[s] = r + 1
           \/ pc'[s] = "rmmod" /\ r = Rounds
        /\ Read(s, "nop", [q \in RowsOf(s) |-> nop_parse(q)]) /\ "nop" \in Series
    <3>1. /\ pc[s] = "read_nop" /\ pc'[s] = (IF r < Rounds THEN "measure" ELSE "rmmod")
          /\ round'[s] = (IF r < Rounds THEN r + 1 ELSE r)
      BY <1>1, <1>5 DEF ReadNop, At, DataOK, ControlOK
    <3>2. Read(s, "nop", [q \in RowsOf(s) |-> nop_parse(q)]) /\ "nop" \in Series
      BY <1>5 DEF ReadNop, Series
    <3>3. r < Rounds \/ r = Rounds
      BY <2>1
    <3> QED
      BY <2>1, <3>1, <3>2, <3>3
  <2>3. \A e \in read[s] : e.series = "nop" => e.round < round[s]
    BY <2>2 DEF Frontier, Done
  <2>4. Passed(s, "wall", r) /\ Passed(s, "nop", r - 1)
    BY <1>1, <2>2 DEF Steady
  <2>5. (\A i \in 1 .. r : ReadOnce(s, "nop", i)') /\ Passed(s, "wall", r)'
    BY <1>1, <1>2, <2>2, <2>3, <2>4, PassedMore
  <2>6. (r + 1) - 1 = r
    OBVIOUS
  <2> QED
    BY <1>3, <2>2, <2>5, <2>6 DEF Steady, Passed
<1>6. CASE ReadProbe(s)
  <2>1. pc[s] = "read_probe" /\ pc'[s] = "rmmod"
    BY <1>6 DEF ReadProbe, At, DataOK, ControlOK
  <2> QED
    BY <1>2, <1>3, <2>1 DEF Steady
<1> QED
  BY <1>4, <1>5, <1>6

LEMMA SteadyStart ==
  ASSUME DataOK, NEW s \in Sessions, Begin(s) \/ insmod(s) \/ Kmalloc(s) \/ ReadAddress(s),
         Frontier(s), Steady(s)
  PROVE  Steady(s)'
<1>1. /\ pc[s] \in {"idle", "insmod", "kmalloc", "address"} /\ UNCHANGED <<round, measured>>
      /\ pc'[s] \in {"insmod", "kmalloc", "address", "measure", "exit"}
  BY DEF Begin, insmod, Kmalloc, Fails, ReadAddress, Exit, At, DataOK, ControlOK
<1>2. round'[s] = 1 /\ 1 - 1 = 0 /\ measured'[s] = {}
  BY <1>1 DEF Steady, Frontier
<1>3. \A series : Passed(s, series, 0)'
  <2>1. 1 .. 0 = {}
    OBVIOUS
  <2> QED
    BY <2>1 DEF Passed
<1>4. Taken(s)'
  BY <1>2 DEF Taken
<1> QED
  BY <1>1, <1>2, <1>3, <1>4 DEF Steady

LEMMA SteadyEnd ==
  ASSUME DataOK, NEW s \in Sessions, rmmod(s) \/ PrintTable(s) \/ ctrl_c(s) \/ finish(s), Steady(s)
  PROVE  Steady(s)'
<1>1. CASE rmmod(s)
  <2>1. /\ pc[s] = "rmmod" /\ pc'[s] = "print"
        /\ UNCHANGED <<args, vmem, read, measured>>
    BY <1>1 DEF rmmod, At, RemoveModule, DataOK, ControlOK
  <2>2. ASSUME args[s].mode \notin Probing
        PROVE  Passed(s, "wall", Rounds)' /\ Passed(s, "nop", Rounds)'
    BY <2>1, <2>2, PassedStays DEF Steady
  <2>3. Taken(s)'
    BY <2>1, TakenStays DEF Steady
  <2> QED
    BY <2>1, <2>2, <2>3 DEF Steady
<1>2. CASE PrintTable(s) \/ ctrl_c(s) \/ finish(s)
  <2>1. pc'[s] \in {"exit", "ended"}
    BY <1>2 DEF PrintTable, ctrl_c, finish, Exit, At, DataOK, ControlOK
  <2> QED
    BY <2>1 DEF Steady
<1> QED
  BY <1>1, <1>2

LEMMA SteadyInit == Init => SteadyInv
BY DEF Init, SteadyInv, Steady

LEMMA SteadyStep == TypeInv /\ TypeInv' /\ FrontierInv /\ AloneInv /\ SteadyInv /\ [Next]_vars => SteadyInv'
<1> SUFFICES ASSUME TypeInv, TypeInv', FrontierInv, AloneInv, SteadyInv, [Next]_vars,
                    ~ overlapped', NEW t \in Sessions
             PROVE  Steady(t)'
  BY DEF SteadyInv
<1>1. CASE Next
  <2>1. PICK s \in Sessions : Step(s)
    BY <1>1 DEF Next
  <2>2. overlapped' = (overlapped \/ Cardinality(Active') > 1)
    BY <1>1 DEF Next
  <2>3. AloneOK /\ DataOK /\ Steady(t) /\ Frontier(t)
    BY <2>2 DEF AloneInv, TypeInv, SteadyInv, FrontierInv
  <2>4. CASE t = s
    BY <2>1, <2>3, <2>4, SteadyMeasure, SteadyRead, SteadyStart, SteadyEnd DEF Step
  <2>5. CASE t # s
    <3>1. pc'[t] \notin Under /\ pc'[t] = pc[t] /\ round'[t] = round[t]
      BY <2>1, <2>2, <2>3, <2>5, Alone, StepOthers
    <3> QED
      BY <2>3, <3>1 DEF Steady, Under
  <2> QED
    BY <2>4, <2>5
<1>2. CASE UNCHANGED vars
  <2>1. /\ UNCHANGED <<pc, vmem, args, round, read, measured, overlapped>>
    BY <1>2 DEF vars, module, klog, session
  <2>2. Steady(t)
    BY <2>1 DEF SteadyInv
  <2>3. \A series, b : Passed(t, series, b) => Passed(t, series, b)'
    BY <2>1, PassedStays
  <2>4. Taken(t) => Taken(t)'
    BY <2>1, TakenStays
  <2> QED
    BY <2>1, <2>2, <2>3, <2>4 DEF Steady
<1> QED
  BY <1>1, <1>2

-----------------------------------------------------------------------------
(* What it prints                                                           *)

WordOf(s, series, i, row) ==
  (CHOOSE e \in read[s] : e.series = series /\ e.round = i /\ e.row = row).value

LEMMA WordRead ==
  ASSUME NEW s \in Sessions, NEW series, NEW i, NEW row \in RowsOf(s), ReadOnce(s, series, i)
  PROVE  \E e \in read[s] : IsFor(e, series, i, row) /\ WordOf(s, series, i, row) = e.value
<1> DEFINE c == CHOOSE e \in read[s] : e.series = series /\ e.round = i /\ e.row = row
<1>1. \E e \in read[s] : e.series = series /\ e.round = i /\ e.row = row
  BY DEF ReadOnce, IsFor
<1>2. c \in read[s] /\ c.series = series /\ c.round = i /\ c.row = row
  BY <1>1
<1>3. WordOf(s, series, i, row) = c.value
  BY DEF WordOf
<1> QED
  BY <1>2, <1>3 DEF IsFor

LEMMA NumbersOf ==
  ASSUME NEW s, NEW series, NEW row
  PROVE  Numbers(s, series, row) =
           FlattenSeq([i \in 1 .. Rounds |->
             IF WordOf(s, series, i, row) = NULL THEN <<>>
             ELSE <<Number(series, WordOf(s, series, i, row))>>])
BY DEF Numbers, WordOf

\* The measurements of a row, and the word that goes with one.
OfRow(s, series, row) == {m \in measured[s] : m.series = series /\ m.row = row}
Fits(w, v) == w = v \/ (v = Zero /\ w = NULL)

LEMMA RoundOf ==
  ASSUME DataOK, NEW s \in Sessions, NEW m \in measured[s]
  PROVE  m.round \in 1 .. Rounds
<1>1. measured[s] \subseteq Measurements
  BY DEF DataOK
<1> QED
  BY <1>1 DEF Measurements

\* From the round of the first measurement on, a row has a latest one, and not before.
LEMMA LatestOf ==
  ASSUME DataOK, NEW s \in Sessions, NEW series, NEW row
  PROVE  /\ \A i : Latest(s, series, i, row) \subseteq OfRow(s, series, row)
         /\ OfRow(s, series, row) # {} =>
              \E c \in 0 .. Rounds - 1 : \A i \in 1 .. Rounds : Latest(s, series, i, row) # {} <=> i > c
<1> DEFINE own == OfRow(s, series, row)
           known(i) == {m \in own : m.round <= i}
<1>1. Rounds \in Nat /\ Rounds >= 1
  BY RoundsPositive
<1>2. \A i : Latest(s, series, i, row) = {m \in known(i) : \A a \in known(i) : a.round <= m.round}
  BY DEF Latest, OfRow
<1>3. \A m \in own : m.round \in 1 .. Rounds
  BY RoundOf DEF OfRow
<1>4. \A i : Latest(s, series, i, row) \subseteq own
  BY <1>2
<1> HIDE DEF own
<1>5. ASSUME NEW i \in 1 .. Rounds, known(i) # {} PROVE Latest(s, series, i, row) # {}
  <2> DEFINE I == {m.round : m \in known(i)}
  <2>1. I \in SUBSET (1 .. Rounds) /\ I # {}
    BY <1>3, <1>5
  <2>2. Max(I) \in I /\ \A k \in I : k <= Max(I)
    <3> HIDE DEF I
    <3> QED
      BY <1>1, <2>1, Greatest
  <2>3. PICK m \in known(i) : m.round = Max(I)
    BY <2>2
  <2>4. \A a \in known(i) : a.round <= m.round
    BY <2>2, <2>3
  <2> QED
    BY <1>2, <2>4
<1>6. ASSUME own # {}
      PROVE  \E c \in 0 .. Rounds - 1 : \A i \in 1 .. Rounds : Latest(s, series, i, row) # {} <=> i > c
  <2> DEFINE I == {m.round : m \in own}
  <2>1. I \in SUBSET (1 .. Rounds) /\ I # {}
    BY <1>3, <1>6
  <2>2. PICK f \in I : \A k \in I : f <= k
    <3> HIDE DEF I
    <3>1. I \in SUBSET Nat
      BY <2>1
    <3> QED
      BY <2>1, <3>1, Least
  <2>3. f \in 1 .. Rounds
    BY <2>1, <2>2
  <2>4. PICK a \in own : a.round = f
    BY <2>2
  <2>5. ASSUME NEW i \in 1 .. Rounds PROVE Latest(s, series, i, row) # {} <=> i > f - 1
    <3>1. CASE f <= i
      <4>1. a \in known(i)
        BY <2>4, <3>1
      <4>2. Latest(s, series, i, row) # {}
        BY <1>5, <4>1
      <4> QED
        BY <2>3, <3>1, <4>2
    <3>2. CASE ~ f <= i
      <4>1. \A m \in own : f <= m.round
        BY <2>2
      <4>2. known(i) = {}
        BY <1>3, <2>3, <3>2, <4>1
      <4>3. Latest(s, series, i, row) = {}
        BY <1>2, <4>2
      <4> QED
        BY <2>3, <3>2, <4>3
    <3> QED
      BY <3>1, <3>2
  <2>6. f - 1 \in 0 .. Rounds - 1
    BY <1>1, <2>3
  <2> QED
    BY <2>5, <2>6
<1> QED
  BY <1>4, <1>6 DEF own

\* The word of a round is that of the latest measurement, and no word if there is none.
LEMMA WordFits ==
  ASSUME NEW s \in Sessions, AllAgree(s), NEW series, Passed(s, series, Rounds),
         NEW row \in RowsOf(s), NEW i \in 1 .. Rounds
  PROVE  LET own == Latest(s, series, i, row)
         IN  /\ own = {} => WordOf(s, series, i, row) = NULL
             /\ \A m \in own : Fits(WordOf(s, series, i, row), m.value)
<1>1. PICK e \in read[s] : IsFor(e, series, i, row) /\ WordOf(s, series, i, row) = e.value
  BY WordRead DEF Passed
<1>2. Agrees(s, e) /\ Latest(s, e.series, e.round, e.row) = Latest(s, series, i, row)
  BY <1>1 DEF AllAgree, IsFor
<1> QED
  BY <1>1, <1>2 DEF Agrees, Fits

\* For a row that was not measured, no number is read.
LEMMA UnmeasuredRow ==
  ASSUME DataOK, NEW s \in Sessions, AllAgree(s), NEW series, Passed(s, series, Rounds),
         NEW row \in RowsOf(s), OfRow(s, series, row) = {}
  PROVE  Totals(s, series, row).n = 0 /\ Numbers(s, series, row) = <<>>
<1>1. \A i : Latest(s, series, i, row) = {}
  BY LatestOf
<1>2. Totals(s, series, row).n = 0
  <2>1. {i \in 1 .. Rounds : Latest(s, series, i, row) # {}} = {}
    BY <1>1
  <2>2. Totals(s, series, row).n = Cardinality({i \in 1 .. Rounds : Latest(s, series, i, row) # {}})
    BY DEF Totals
  <2> QED
    BY <2>1, <2>2, FS_EmptySet
<1>3. ASSUME NEW i \in 1 .. Rounds PROVE WordOf(s, series, i, row) = NULL
  BY <1>1, WordFits
<1> DEFINE ss == [i \in 1 .. Rounds |->
                   IF WordOf(s, series, i, row) = NULL THEN <<>>
                   ELSE <<Number(series, WordOf(s, series, i, row))>>]
<1>4. ss = [i \in 1 .. Rounds |-> <<>>]
  BY <1>3
<1>5. ss \in Seq(Seq({}))
  BY <1>4, RoundsPositive
<1>6. Numbers(s, series, row) = FlattenSeq(ss)
  BY NumbersOf
<1> HIDE DEF ss
<1>7. FlattenSeq(ss) \in Seq({})
  BY <1>5, FlattenTyped
<1>8. \A f \in Seq({}) : f = <<>>
  OBVIOUS
<1> QED
  BY <1>2, <1>6, <1>7, <1>8

\* The rounds by which a row was measured, and what counts for it in them.
RoundsOf(s, series, row) == {i \in 1 .. Rounds : Latest(s, series, i, row) # {}}
TimeOf(s, series, i, row) == Number(series, (CHOOSE m \in Latest(s, series, i, row) : TRUE).value)

\* The sum over a set is that over a sequence of its members.
LEMMA TotalsOf ==
  ASSUME NEW s \in Sessions, NEW series, NEW row, NEW n \in Nat,
         NEW h, Enumerates(h, n, RoundsOf(s, series, row)),
         NEW t \in [1 .. n -> Int], \A j \in 1 .. n : TimeOf(s, series, h[j], row) = t[j]
  PROVE  Totals(s, series, row) =
           [n |-> n, sum |-> Sum(t), squares |-> Sum([i \in 1 .. n |-> t[i] * t[i]])]
<1> DEFINE own == RoundsOf(s, series, row)
           num(i) == TimeOf(s, series, i, row)
           square(m) == num(m) * num(m)
           F == [m \in own |-> num(m)]
           F2 == [m \in own |-> square(m)]
           sum == MapThenSumSet(num, own)
           squares == MapThenSumSet(LAMBDA m : num(m) * num(m), own)
<1>1. Totals(s, series, row) = [n |-> Cardinality(own), sum |-> sum, squares |-> squares]
  BY DEF Totals, RoundsOf, TimeOf
<1>2. Enumerates(h, n, own) /\ \A i \in 1 .. n : num(h[i]) = t[i]
  OBVIOUS
<1> HIDE DEF own, num, sum, squares
<1>3. IsFiniteSet(own) /\ Cardinality(own) = n
  <2>1. IsFiniteSet(1 .. n) /\ Cardinality(1 .. n) = n
    BY FS_Interval
  <2>2. h \in Bijection(1 .. n, own)
    BY <1>2 DEF Enumerates, Bijection, Injection, Surjection, IsInjective
  <2>3. ExistsBijection(1 .. n, own)
    BY <2>2 DEF ExistsBijection
  <2> QED
    BY <2>1, <2>3, FS_Bijection
<1>4. /\ F \in [own -> Int] /\ F2 \in [own -> Int]
      /\ \A m \in own : F[m] = num(m) /\ F2[m] = square(m)
  <2>1. \A k \in Int : k * k \in Int
    OBVIOUS
  <2>2. \A m \in own : num(m) \in Int
    BY <1>2 DEF Enumerates
  <2> QED
    BY <2>1, <2>2
<1> HIDE DEF F, F2
<1>5. /\ [i \in 1 .. n |-> F[h[i]]] = t
      /\ [i \in 1 .. n |-> F2[h[i]]] = [i \in 1 .. n |-> t[i] * t[i]]
  BY <1>2, <1>4 DEF Enumerates, square
<1> HIDE DEF square
<1>6. sum = Sum(t)
  <2> DEFINE f == CHOOSE g : g = [u \in SUBSET own |->
                    IF u = {} THEN 0 ELSE num(OneOf(u)) + g[u \ {OneOf(u)}]]
  <2>1. sum = f[own]
    BY DEF MapThenSumSet, MapThenFoldSet, OneOf, sum
  <2>2. PICK G \in [SUBSET own -> Int] : Adds(G, own, F) /\ G[own] = Sum([i \in 1 .. n |-> F[h[i]]])
    <3>1. AddsUp(own, F, Sum([i \in 1 .. n |-> F[h[i]]]))
      BY <1>2, <1>4, SumOfSet
    <3> QED
      BY <3>1 DEF AddsUp
  <2>3. \A u \in SUBSET own : u # {} => F[OneOf(u)] = num(OneOf(u))
    BY <1>4, OneOfMany
  <2>4. G = [u \in SUBSET own |-> IF u = {} THEN 0 ELSE num(OneOf(u)) + G[u \ {OneOf(u)}]]
    <3>1. \A u \in SUBSET own :
            G[u] = IF u = {} THEN 0 ELSE num(OneOf(u)) + G[u \ {OneOf(u)}]
      BY <2>2, <2>3 DEF Adds
    <3> QED
      BY <3>1
  <2>5. f = [u \in SUBSET own |-> IF u = {} THEN 0 ELSE num(OneOf(u)) + f[u \ {OneOf(u)}]]
    BY <2>4
  <2> HIDE DEF f
  <2>6. Adds(f, own, F)
    <3>1. \A u \in SUBSET own :
            f[u] = IF u = {} THEN 0 ELSE num(OneOf(u)) + f[u \ {OneOf(u)}]
      BY <2>5
    <3> QED
      BY <2>3, <3>1 DEF Adds
  <2>7. f[own] = G[own]
    BY <1>3, <2>2, <2>6, AddsAlike
  <2> QED
    BY <1>5, <2>1, <2>2, <2>7
<1>7. squares = Sum([i \in 1 .. n |-> t[i] * t[i]])
  <2> DEFINE f == CHOOSE g : g = [u \in SUBSET own |->
                    IF u = {} THEN 0 ELSE square(OneOf(u)) + g[u \ {OneOf(u)}]]
  <2>1. squares = f[own]
    BY DEF MapThenSumSet, MapThenFoldSet, OneOf, squares, square
  <2>2. PICK G \in [SUBSET own -> Int] : Adds(G, own, F2) /\ G[own] = Sum([i \in 1 .. n |-> F2[h[i]]])
    <3>1. AddsUp(own, F2, Sum([i \in 1 .. n |-> F2[h[i]]]))
      BY <1>2, <1>4, SumOfSet
    <3> QED
      BY <3>1 DEF AddsUp
  <2>3. \A u \in SUBSET own : u # {} => F2[OneOf(u)] = square(OneOf(u))
    BY <1>4, OneOfMany
  <2>4. G = [u \in SUBSET own |-> IF u = {} THEN 0 ELSE square(OneOf(u)) + G[u \ {OneOf(u)}]]
    <3>1. \A u \in SUBSET own :
            G[u] = IF u = {} THEN 0 ELSE square(OneOf(u)) + G[u \ {OneOf(u)}]
      BY <2>2, <2>3 DEF Adds
    <3> QED
      BY <3>1
  <2>5. f = [u \in SUBSET own |-> IF u = {} THEN 0 ELSE square(OneOf(u)) + f[u \ {OneOf(u)}]]
    BY <2>4
  <2> HIDE DEF f
  <2>6. Adds(f, own, F2)
    <3>1. \A u \in SUBSET own :
            f[u] = IF u = {} THEN 0 ELSE square(OneOf(u)) + f[u \ {OneOf(u)}]
      BY <2>5
    <3> QED
      BY <2>3, <3>1 DEF Adds
  <2>7. f[own] = G[own]
    BY <1>3, <2>2, <2>6, AddsAlike
  <2> QED
    BY <1>5, <2>1, <2>2, <2>7
<1> QED
  BY <1>1, <1>3, <1>6, <1>7

\* The times of a command's entries are numbers.
LEMMA EntryTimes ==
  ASSUME DataOK, NEW s \in Sessions, NEW series \in {"wall", "nop"}, args[s].mode \notin Probing,
         NEW k \in 1 .. Len(Entries(s))
  PROVE  /\ Entries(s)[k].row \in STRING
         /\ \A i \in 1 .. Rounds : Time[series][Entries(s)[k].row][i] \in Int
<1>1. PICK m \in Modes \ Probing : m = args[s].mode
  BY DEF DataOK, ControlOK
<1>2. Entries(s)[k] \in Command /\ k \in DOMAIN Program[m] /\ Entries(s)[k] = Program[m][k]
  <2>1. Entries(s) = Program[m] /\ DOMAIN Entries(s) = 1 .. Len(Entries(s))
    BY <1>1, EntriesTyped DEF DataOK, Entries
  <2>2. Entries(s)[k] \in Command
    BY EntriesTyped DEF DataOK
  <2> QED
    BY <2>1, <2>2
<1>3. \A i \in 1 .. Rounds : Time[series][Program[m][k].row][i] \in Nat
  BY <1>2, EcrScriptAssumption
<1> QED
  BY <1>2, <1>3 DEF Command

\* An average and a variance that are those of t.
AsFor(numbers, t) ==
  average(numbers) = average(t) /\ variance(average(t), numbers) = variance(average(t), t)

LEMMA VarianceOfZeros ==
  ASSUME NEW values \in Seq({0})
  PROVE  average(values) = 0 /\ variance(0, values) = 0
<1> DEFINE x == [i \in DOMAIN values |-> (values[i] - 0) * (values[i] - 0)]
<1>1. x \in Seq({0})
  <2>1. PICK n \in Nat : n = Len(values)
    OBVIOUS
  <2>2. \A i \in 1 .. n : values[i] = 0 /\ (values[i] - 0) * (values[i] - 0) = 0
    BY <2>1
  <2>3. DOMAIN values = 1 .. n
    BY <2>1
  <2>4. x \in [1 .. n -> {0}]
    BY <2>2, <2>3
  <2> QED
    BY <2>4
<1>2. variance(0, values) = average(x)
  BY DEF variance
<1> HIDE DEF x
<1> QED
  BY <1>1, <1>2, SumOfZeros

\* A measurement of an entry's row is the entry's.
LEMMA ValueOf ==
  ASSUME DataOK, NEW s \in Sessions, Taken(s), NEW series, NEW k \in 1 .. Len(Entries(s)),
         NEW m \in OfRow(s, series, Entries(s)[k].row)
  PROVE  m.round \in 1 .. Rounds /\ m.value = ResultIn(s, m.round, Entries(s)[k])
<1>1. m \in measured[s] /\ m.row = Entries(s)[k].row
  BY DEF OfRow
<1>2. PICK j \in 1 .. Len(Entries(s)) :
        m.row = Entries(s)[j].row /\ m.value = ResultIn(s, m.round, Entries(s)[j])
  BY <1>1 DEF Taken
<1>3. j = k
  BY <1>1, <1>2, OnePair DEF DataOK
<1> QED
  BY <1>1, <1>2, <1>3, RoundOf

\* What the script has of a row that was measured has the average and the variance of
\* what was measured last for it, round by round: numbers, or zeros, of which some drop out.
LEMMA ColumnOf ==
  ASSUME DataOK, NEW s \in Sessions, AllAgree(s), Taken(s), NEW series \in {"wall", "nop"},
         args[s].mode \notin Probing, Passed(s, series, Rounds),
         NEW row \in RowsOf(s), OfRow(s, series, row) # {}
  PROVE  LET numbers == Numbers(s, series, row)
         IN  /\ numbers \in Seq(Int)
             /\ \E n \in Nat \ {0} : \E t \in [1 .. n -> Int] :
                  /\ Totals(s, series, row) =
                       [n |-> n, sum |-> Sum(t), squares |-> Sum([i \in 1 .. n |-> t[i] * t[i]])]
                  /\ AsFor(numbers, t)
<1> DEFINE latest(i) == Latest(s, series, i, row)
           word(i) == WordOf(s, series, i, row)
           value(i) == (CHOOSE m \in latest(i) : TRUE).value
           words == [i \in 1 .. Rounds |-> IF word(i) = NULL THEN <<>> ELSE <<Number(series, word(i))>>]
           numbers == Numbers(s, series, row)
<1>1. Rounds \in Nat \ {0}
  BY RoundsPositive
<1>2. PICK c \in 0 .. Rounds - 1 : \A i \in 1 .. Rounds : latest(i) # {} <=> i > c
  BY LatestOf
<1>3. PICK k \in 1 .. Len(Entries(s)) : Entries(s)[k].row = row
  <2>1. PICK m \in measured[s] : m.row = row
    BY DEF OfRow
  <2> QED
    BY <2>1 DEF Taken
<1>4. row \in STRING /\ \A i \in 1 .. Rounds : Time[series][row][i] \in Int
  BY <1>3, EntryTimes
<1>5. ASSUME NEW i \in 1 .. Rounds, i > c
      PROVE  \E j \in 1 .. Rounds : /\ value(i) = ResultIn(s, j, Entries(s)[k])
                                    /\ Fits(word(i), value(i))
  <2>1. PICK m : m = CHOOSE x \in latest(i) : TRUE
    OBVIOUS
  <2>2. m \in latest(i)
    BY <1>2, <1>5, <2>1
  <2>3. m \in OfRow(s, series, row)
    BY <2>2, LatestOf
  <2>4. m.round \in 1 .. Rounds /\ m.value = ResultIn(s, m.round, Entries(s)[k])
    BY <1>3, <2>3, ValueOf
  <2>5. Fits(word(i), m.value)
    BY <2>2, WordFits
  <2> QED
    BY <2>1, <2>4, <2>5
<1>6. ASSUME NEW i \in 1 .. Rounds, ~ i > c PROVE word(i) = NULL
  BY <1>2, <1>6, WordFits
<1>7. numbers = FlattenSeq(words)
  BY NumbersOf
<1>8. \A i : TimeOf(s, series, i, row) = Number(series, value(i))
  BY DEF TimeOf
<1> DEFINE n == Rounds - c
           h == [j \in 1 .. n |-> c + j]
           t == [j \in 1 .. n |-> Number(series, value(c + j))]
<1>9. n \in Nat \ {0}
  BY <1>1
<1>10. Enumerates(h, n, RoundsOf(s, series, row))
  <2>1. RoundsOf(s, series, row) = {i \in 1 .. Rounds : i > c}
    BY <1>2 DEF RoundsOf
  <2>2. \A j \in 1 .. n : c + j \in {i \in 1 .. Rounds : i > c}
    BY <1>1
  <2>3. \A i \in {x \in 1 .. Rounds : x > c} : i - c \in 1 .. n /\ h[i - c] = i
    BY <1>1
  <2>4. \A i, j \in 1 .. n : h[i] = h[j] => i = j
    BY <1>1
  <2>5. h \in [1 .. n -> {i \in 1 .. Rounds : i > c}]
    BY <2>2
  <2> HIDE DEF n, h
  <2> QED
    BY <2>1, <2>3, <2>4, <2>5 DEF Enumerates
<1>11. \A j \in 1 .. n : TimeOf(s, series, h[j], row) = t[j]
  BY <1>8
<1>12. \A i \in 1 .. Rounds : i > c => i - c \in 1 .. n /\ c + (i - c) = i
  BY <1>1
<1>13. \A j \in 1 .. n : c + j \in 1 .. Rounds /\ c + j > c
  BY <1>1
<1> HIDE DEF latest, word, value, numbers
<1>14. CASE Runs(Entries(s)[k])
  <2>1. ASSUME NEW i \in 1 .. Rounds, i > c
        PROVE  word(i) = value(i) /\ word(i) # NULL /\ Number(series, value(i)) \in Int
    <3>1. PICK j \in 1 .. Rounds : value(i) = <<s, j, row>> /\ Fits(word(i), value(i))
      BY <1>3, <1>5, <1>14, <2>1 DEF ResultIn
    <3>2. <<s, j, row>> \in Sessions \X (1 .. Rounds) \X STRING
      BY <1>4
    <3>3. <<s, j, row>> # Zero
      BY DEF Zero
    <3>4. NULL \notin Sessions \X (1 .. Rounds) \X STRING
      BY EcrScriptAssumption
    <3>5. Number(series, <<s, j, row>>) = Time[series][row][j]
      BY DEF Number, Zero
    <3> QED
      BY <1>4, <3>1, <3>2, <3>3, <3>4, <3>5 DEF Fits
  <2>2. t \in [1 .. n -> Int]
    BY <1>13, <2>1
  <2>3. words = [i \in 1 .. Rounds |-> IF i <= c THEN <<>> ELSE <<t[i - c]>>]
    <3>1. ASSUME NEW i \in 1 .. Rounds
          PROVE  (IF word(i) = NULL THEN <<>> ELSE <<Number(series, word(i))>>) =
                   (IF i <= c THEN <<>> ELSE <<t[i - c]>>)
      <4>1. CASE i > c
        <5>1. t[i - c] = Number(series, value(i)) /\ ~ i <= c
          BY <1>12, <4>1
        <5> HIDE DEF t
        <5> QED
          BY <2>1, <4>1, <5>1
      <4>2. CASE ~ i > c
        <5>1. i <= c
          BY <4>2
        <5> QED
          BY <1>6, <4>2, <5>1
      <4> QED
        BY <4>1, <4>2
    <3> HIDE DEF t
    <3> QED
      BY <3>1
  <2> HIDE DEF t, words, h
  <2>4. numbers = t
    BY <1>1, <1>7, <2>2, <2>3, FlattenTail
  <2>5. Totals(s, series, row) =
          [n |-> n, sum |-> Sum(t), squares |-> Sum([i \in 1 .. n |-> t[i] * t[i]])]
    <3> HIDE DEF n
    <3> QED
      BY <1>9, <1>10, <1>11, <2>2, TotalsOf
  <2>6. AsFor(numbers, t) /\ numbers \in Seq(Int)
    BY <1>9, <2>2, <2>4 DEF AsFor
  <2> HIDE DEF n
  <2> QED
    BY <1>9, <2>2, <2>5, <2>6 DEF numbers
<1>15. CASE ~ Runs(Entries(s)[k])
  <2>1. ASSUME NEW i \in 1 .. Rounds
        PROVE  word(i) \in {Zero, NULL} /\ (i > c => value(i) = Zero)
    <3>1. CASE i > c
      BY <1>5, <1>15, <3>1 DEF ResultIn, Fits
    <3> QED
      BY <1>6, <3>1
  <2>2. Number(series, Zero) = 0
    BY DEF Number
  <2>3. words \in [1 .. Rounds -> Seq({0})]
    <3>1. ASSUME NEW i \in 1 .. Rounds
          PROVE  (IF word(i) = NULL THEN <<>> ELSE <<Number(series, word(i))>>) \in Seq({0})
      <4>1. CASE word(i) = NULL
        BY <4>1
      <4>2. CASE word(i) # NULL
        <5>1. word(i) = Zero
          BY <2>1, <4>2
        <5>2. <<0>> \in Seq({0})
          OBVIOUS
        <5> QED
          BY <2>2, <4>2, <5>1, <5>2
      <4> QED
        BY <4>1, <4>2
    <3> QED
      BY <3>1
  <2>4. words \in Seq(Seq({0}))
    <3> HIDE DEF words
    <3> QED
      BY <1>1, <2>3
  <2>5. t \in [1 .. n -> {0}]
    BY <1>13, <2>1, <2>2
  <2> HIDE DEF t, words, h
  <2>6. t \in Seq({0})
    <3> HIDE DEF n
    <3> QED
      BY <1>9, <2>5
  <2>7. t \in [1 .. n -> Int]
    <3> HIDE DEF n
    <3> QED
      BY <2>5
  <2>8. numbers \in Seq({0})
    BY <1>7, <2>4, FlattenTyped
  <2>9. Totals(s, series, row) =
          [n |-> n, sum |-> Sum(t), squares |-> Sum([i \in 1 .. n |-> t[i] * t[i]])]
    <3> HIDE DEF n
    <3> QED
      BY <1>9, <1>10, <1>11, <2>7, TotalsOf
  <2>10. AsFor(numbers, t)
    BY <2>6, <2>8, VarianceOfZeros DEF AsFor
  <2>11. numbers \in Seq(Int)
    BY <2>8
  <2> HIDE DEF n
  <2> QED
    BY <1>9, <2>9, <2>10, <2>11, <2>7 DEF numbers
<1> QED
  BY <1>14, <1>15

\* An average and a variance as StatisticsTrue has them.
TrueTo(own, avg, var) ==
  LET off == own.n * own.n * var - (own.n * own.squares - own.sum * own.sum)
  IN  IF own.n = 0 THEN avg = 0 /\ var = 0
      ELSE /\ own.n * avg <= own.sum /\ own.sum < own.n * (avg + 1)
           /\ off \in - (own.n * own.n) .. own.n * own.n

LEMMA RowStatistics ==
  ASSUME DataOK, NEW s \in Sessions, AllAgree(s), Taken(s), NEW series \in {"wall", "nop"},
         args[s].mode \notin Probing, Passed(s, series, Rounds), NEW row \in RowsOf(s)
  PROVE  LET numbers == Numbers(s, series, row)
         IN  /\ average(numbers) \in Int
             /\ TrueTo(Totals(s, series, row), average(numbers), variance(average(numbers), numbers))
<1>1. CASE OfRow(s, series, row) = {}
  <2>1. Totals(s, series, row).n = 0 /\ Numbers(s, series, row) = <<>>
    BY <1>1, UnmeasuredRow
  <2>2. <<>> \in Seq({0})
    OBVIOUS
  <2>3. average(<<>>) = 0 /\ variance(0, <<>>) = 0
    BY <2>2, VarianceOfZeros
  <2> QED
    BY <2>1, <2>3 DEF TrueTo
<1>2. CASE OfRow(s, series, row) # {}
  <2> DEFINE numbers == Numbers(s, series, row)
  <2>1. PICK n \in Nat \ {0} : \E t \in [1 .. n -> Int] :
          /\ Totals(s, series, row) =
               [n |-> n, sum |-> Sum(t), squares |-> Sum([i \in 1 .. n |-> t[i] * t[i]])]
          /\ AsFor(numbers, t)
    BY <1>2, ColumnOf
  <2>2. PICK t \in [1 .. n -> Int] :
          /\ Totals(s, series, row) =
               [n |-> n, sum |-> Sum(t), squares |-> Sum([i \in 1 .. n |-> t[i] * t[i]])]
          /\ AsFor(numbers, t)
    BY <2>1
  <2> DEFINE own == Totals(s, series, row)
             squares == Sum([i \in 1 .. n |-> t[i] * t[i]])
  <2>3. own.n = n /\ own.sum = Sum(t) /\ own.squares = squares
    BY <2>2
  <2>4. average(numbers) = average(t) /\ variance(average(numbers), numbers) = variance(average(t), t)
    BY <2>2 DEF AsFor
  <2>5. /\ Sum(t) \in Int /\ average(t) \in Int
        /\ n * average(t) <= Sum(t) /\ Sum(t) < n * average(t) + n
    BY AverageOf
  <2>6. n * n * variance(average(t), t) - (n * squares - Sum(t) * Sum(t)) \in - (n * n) .. n * n
    BY VarianceOf
  <2> HIDE DEF own, squares, numbers
  <2>7. n * (average(t) + 1) = n * average(t) + n
    BY <2>5
  <2>8. n # 0
    OBVIOUS
  <2>9. TrueTo(own, average(t), variance(average(t), t))
    BY <2>3, <2>5, <2>6, <2>7, <2>8 DEF TrueTo
  <2> QED
    BY <2>4, <2>5, <2>9 DEF own, numbers
<1> QED
  BY <1>1, <1>2

LEMMA ExitsNear ==
  ASSUME NEW t \in Int, NEW low \in Int, NEW high \in Int
  PROVE  /\ low < high => (Exits(t, low, high) <=> Near(t, low, high))
         /\ Exits(t, 0, 0) <=> t > 0
BY DEF Exits, Near, Distance

\* The mark counts the measurements in which a row is near.
LEMMA MarkOf ==
  ASSUME NEW near \in SUBSET {"wall", "nop"}
  PROVE  <<"", "?", "X">>[Cardinality(near) + 1] =
           IF "wall" \in near /\ "nop" \in near THEN "X"
           ELSE IF "wall" \in near \/ "nop" \in near THEN "?" ELSE ""
<1>1. near = {} \/ near = {"wall"} \/ near = {"nop"} \/ near = {"wall"} \cup {"nop"}
  OBVIOUS
<1>2. /\ Cardinality({}) = 0 /\ Cardinality({"wall"}) = 1 /\ Cardinality({"nop"}) = 1
      /\ Cardinality({"wall"} \cup {"nop"}) = 2
  <2>1. IsFiniteSet({"wall"}) /\ Cardinality({"wall"}) = 1 /\ Cardinality({"nop"}) = 1
    BY FS_Singleton
  <2>2. Cardinality({"wall"} \cup {"nop"}) = Cardinality({"wall"}) + 1
    BY <2>1, FS_AddElement
  <2> QED
    BY <2>1, <2>2, FS_EmptySet
<1>3. <<"", "?", "X">>[0 + 1] = "" /\ <<"", "?", "X">>[1 + 1] = "?" /\ <<"", "?", "X">>[2 + 1] = "X"
  OBVIOUS
<1>4. CASE near = {}
  <2>1. Cardinality(near) = 0
    BY <1>2, <1>4
  <2>2. ~ ("wall" \in near) /\ ~ ("nop" \in near)
    BY <1>4
  <2>3. <<"", "?", "X">>[Cardinality(near) + 1] = ""
    BY <1>3, <2>1, Zenon
  <2> QED
    BY <2>2, <2>3, Zenon
<1>5. CASE near = {"wall"}
  <2>1. Cardinality(near) = 1
    BY <1>2, <1>5
  <2>2. "wall" \in near /\ ~ ("nop" \in near)
    BY <1>5
  <2>3. <<"", "?", "X">>[Cardinality(near) + 1] = "?"
    BY <1>3, <2>1, Zenon
  <2> QED
    BY <2>2, <2>3, Zenon
<1>6. CASE near = {"nop"}
  <2>1. Cardinality(near) = 1
    BY <1>2, <1>6
  <2>2. ~ ("wall" \in near) /\ "nop" \in near
    BY <1>6
  <2>3. <<"", "?", "X">>[Cardinality(near) + 1] = "?"
    BY <1>3, <2>1, Zenon
  <2> QED
    BY <2>2, <2>3, Zenon
<1>7. CASE near = {"wall"} \cup {"nop"}
  <2>1. Cardinality(near) = 2
    BY <1>2, <1>7
  <2>2. "wall" \in near /\ "nop" \in near
    BY <1>7
  <2>3. <<"", "?", "X">>[Cardinality(near) + 1] = "X"
    BY <1>3, <2>1, Zenon
  <2> QED
    BY <2>2, <2>3, Zenon
<1> QED
  BY <1>1, <1>4, <1>5, <1>6, <1>7

\* The table of a session, as the two properties have it.
StatisticsOf(s) ==
  \A row \in DOMAIN printed[s], series \in {"wall", "nop"} :
    TrueTo(Totals(s, series, row), printed[s][row].avg[series], printed[s][row].var[series])

NearIn(table, mode, row) ==
  {series \in {"wall", "nop"} :
     IF mode = "flush" THEN table[row].avg[series] > 0
     ELSE Near(table[row].avg[series], table["XOR"].avg[series], table["CPUID"].avg[series])}
ClearIn(table, mode) ==
  mode = "flush" \/
    \A series \in {"wall", "nop"} : table["XOR"].avg[series] < table["CPUID"].avg[series]
MarksIn(table, mode) ==
  \A row \in DOMAIN table \ {"INB", "OUTB"} :
    ClearIn(table, mode) => table[row].exit = <<"", "?", "X">>[Cardinality(NearIn(table, mode, row)) + 1]

LEMMA SummaryOf ==
  ASSUME NEW s, NEW S, S = Summary(s)
  PROVE  /\ DOMAIN S = RowsOf(s)
         /\ \A row \in RowsOf(s) :
              /\ \A series \in {"wall", "nop"} :
                   LET numbers == Numbers(s, series, row)
                   IN  /\ S[row].avg[series] = average(numbers)
                       /\ S[row].var[series] = variance(average(numbers), numbers)
              /\ row \notin {"INB", "OUTB"} =>
                   LET time(r) == IF r \in RowsOf(s) THEN S[r].avg ELSE [wall |-> 0, nop |-> 0]
                   IN  S[row].exit = evaluate_exiting(S[row].avg, time("XOR"), time("CPUID"))
<1> DEFINE avg(series, r) == average(Numbers(s, series, r))
           time(r) == IF r \in RowsOf(s) THEN [wall |-> avg("wall", r), nop |-> avg("nop", r)]
                      ELSE [wall |-> 0, nop |-> 0]
           var(r) == [wall |-> variance(avg("wall", r), Numbers(s, "wall", r)),
                      nop  |-> variance(avg("nop", r), Numbers(s, "nop", r))]
<1>1. S = [r \in RowsOf(s) |->
             [avg |-> time(r), var |-> var(r),
              exit |-> IF r \in {"INB", "OUTB"} THEN "-"
                       ELSE evaluate_exiting(time(r), time("XOR"), time("CPUID"))]]
  BY DEF Summary
<1>2. ASSUME NEW r \in RowsOf(s)
      PROVE  /\ time(r).wall = avg("wall", r) /\ time(r).nop = avg("nop", r)
             /\ var(r).wall = variance(avg("wall", r), Numbers(s, "wall", r))
             /\ var(r).nop = variance(avg("nop", r), Numbers(s, "nop", r))
  OBVIOUS
<1>3. \A r : r \notin RowsOf(s) => time(r) = [wall |-> 0, nop |-> 0]
  OBVIOUS
<1> HIDE DEF time, var
<1>4. DOMAIN S = RowsOf(s)
  BY <1>1
<1>5. ASSUME NEW r \in RowsOf(s)
      PROVE  /\ S[r].avg = time(r) /\ S[r].var = var(r)
             /\ r \notin {"INB", "OUTB"} =>
                  S[r].exit = evaluate_exiting(time(r), time("XOR"), time("CPUID"))
  BY <1>1
<1> DEFINE told(r) == IF r \in RowsOf(s) THEN S[r].avg ELSE [wall |-> 0, nop |-> 0]
<1>6. told("XOR") = time("XOR") /\ told("CPUID") = time("CPUID")
  BY <1>3, <1>5
<1> HIDE DEF told
<1>7. ASSUME NEW row \in RowsOf(s), NEW series \in {"wall", "nop"}
      PROVE  /\ S[row].avg[series] = avg(series, row)
             /\ S[row].var[series] = variance(avg(series, row), Numbers(s, series, row))
  BY <1>2, <1>5
<1>8. ASSUME NEW row \in RowsOf(s), row \notin {"INB", "OUTB"}
      PROVE  S[row].exit = evaluate_exiting(S[row].avg, told("XOR"), told("CPUID"))
  BY <1>5, <1>6, <1>8
<1> QED
  BY <1>4, <1>7, <1>8 DEF told

LEMMA SummaryMarks ==
  ASSUME NEW s \in Sessions, ControlOK, args[s].mode \notin Probing, NEW S, S = Summary(s),
         \A row \in RowsOf(s), series \in {"wall", "nop"} : S[row].avg[series] \in Int
  PROVE  MarksIn(S, args[s].mode)
<1>1. PICK mode \in {"standard", "flush"} : mode = args[s].mode
  BY DEF ControlOK, Modes, Probing
<1>2. DOMAIN S = RowsOf(s) /\ RowsOf(s) = Table[mode]
  BY <1>1, SummaryOf DEF RowsOf
<1> SUFFICES ASSUME NEW row \in RowsOf(s), row \notin {"INB", "OUTB"}, ClearIn(S, mode)
             PROVE  S[row].exit = <<"", "?", "X">>[Cardinality(NearIn(S, mode, row)) + 1]
  BY <1>1, <1>2 DEF MarksIn
<1> DEFINE near == NearIn(S, mode, row)
           time(r) == IF r \in RowsOf(s) THEN S[r].avg ELSE [wall |-> 0, nop |-> 0]
           exits(series) == Exits(S[row].avg[series], time("XOR")[series], time("CPUID")[series])
<1>3. S[row].exit = evaluate_exiting(S[row].avg, time("XOR"), time("CPUID"))
  BY SummaryOf
<1>4. ASSUME NEW series \in {"wall", "nop"} PROVE exits(series) <=> series \in near
  <2>1. CASE mode = "flush"
    <3>1. "XOR" \notin RowsOf(s) /\ "CPUID" \notin RowsOf(s)
      BY <1>2, <2>1, EcrScriptAssumption
    <3>2. time("XOR")[series] = 0 /\ time("CPUID")[series] = 0
      BY <3>1
    <3>3. series \in near <=> S[row].avg[series] > 0
      BY <2>1 DEF NearIn
    <3>4. S[row].avg[series] \in Int
      OBVIOUS
    <3> QED
      BY <3>2, <3>3, <3>4, ExitsNear
  <2>2. CASE mode = "standard"
    <3>1. "XOR" \in RowsOf(s) /\ "CPUID" \in RowsOf(s)
      BY <1>2, <2>2, EcrScriptAssumption
    <3>2. time("XOR")[series] = S["XOR"].avg[series] /\ time("CPUID")[series] = S["CPUID"].avg[series]
      BY <3>1
    <3>3. series \in near <=>
            Near(S[row].avg[series], S["XOR"].avg[series], S["CPUID"].avg[series])
      BY <2>2 DEF NearIn
    <3>4. S["XOR"].avg[series] < S["CPUID"].avg[series]
      BY <2>2 DEF ClearIn
    <3>5. /\ S[row].avg[series] \in Int /\ S["XOR"].avg[series] \in Int
          /\ S["CPUID"].avg[series] \in Int
      BY <3>1
    <3> QED
      BY <3>2, <3>3, <3>4, <3>5, ExitsNear
  <2> QED
    BY <2>1, <2>2
<1>5. S[row].exit = IF exits("wall") /\ exits("nop") THEN "X"
                    ELSE IF exits("wall") \/ exits("nop") THEN "?" ELSE ""
  BY <1>3 DEF evaluate_exiting
<1>6. near \in SUBSET {"wall", "nop"}
  BY DEF NearIn
<1> HIDE DEF near, exits, time
<1>7. S[row].exit = IF "wall" \in near /\ "nop" \in near THEN "X"
                    ELSE IF "wall" \in near \/ "nop" \in near THEN "?" ELSE ""
  <2>1. (exits("wall") <=> "wall" \in near) /\ (exits("nop") <=> "nop" \in near)
    BY <1>4
  <2> QED
    BY <1>5, <2>1
<1>8. <<"", "?", "X">>[Cardinality(near) + 1] =
        IF "wall" \in near /\ "nop" \in near THEN "X"
        ELSE IF "wall" \in near \/ "nop" \in near THEN "?" ELSE ""
  BY <1>6, MarkOf
<1>9. S[row].exit = <<"", "?", "X">>[Cardinality(near) + 1]
  BY <1>7, <1>8, Zenon
<1> QED
  BY <1>9 DEF near

ToldOK(s) == StatisticsOf(s) /\ MarksIn(printed[s], args[s].mode)
ToldInv   == Undisturbed => \A s \in Sessions : ToldOK(s)

LEMMA NothingTold ==
  ASSUME NEW s, printed[s] = <<>>
  PROVE  ToldOK(s)
<1>1. DOMAIN <<>> = {}
  OBVIOUS
<1> QED
  BY <1>1 DEF ToldOK, StatisticsOf, MarksIn

LEMMA TotalsStay ==
  ASSUME NEW s, NEW series, NEW row, measured'[s] = measured[s]
  PROVE  Totals(s, series, row)' = Totals(s, series, row)
BY DEF Totals, Latest, Number, Zero, MapThenSumSet, MapThenFoldSet

\* The table of a session that has read every round.
LEMMA PrintTells ==
  ASSUME DataOK, Unprinted, NEW s \in Sessions, PrintTable(s), Steady(s), AllAgree(s)
  PROVE  ToldOK(s)'
<1>1. /\ pc[s] = "print" /\ UNCHANGED <<args, measured>>
      /\ printed'[s] = IF args[s].mode \in Probing THEN printed[s] ELSE Summary(s)
  BY DEF PrintTable, Exit, At, Unprinted
<1>2. CASE args[s].mode \in Probing
  <2>1. printed'[s] = <<>>
    BY <1>1, <1>2 DEF Unprinted
  <2>2. DOMAIN <<>> = {}
    OBVIOUS
  <2> QED
    BY <2>1, <2>2 DEF ToldOK, StatisticsOf, MarksIn
<1>3. CASE args[s].mode \notin Probing
  <2>1. PICK S : S = Summary(s)
    OBVIOUS
  <2>2. printed'[s] = S /\ args' = args
    BY <1>1, <1>3, <2>1
  <2>3. DOMAIN S = RowsOf(s)
    BY <2>1, SummaryOf
  <2>4. ASSUME NEW row \in RowsOf(s), NEW series \in {"wall", "nop"}
        PROVE  /\ S[row].avg[series] \in Int
               /\ TrueTo(Totals(s, series, row), S[row].avg[series], S[row].var[series])
    <3>1. Passed(s, series, Rounds) /\ Taken(s)
      BY <1>1, <1>3 DEF Steady
    <3>2. /\ S[row].avg[series] = average(Numbers(s, series, row))
          /\ S[row].var[series] = variance(average(Numbers(s, series, row)), Numbers(s, series, row))
      BY <2>1, SummaryOf
    <3> QED
      BY <1>3, <3>1, <3>2, RowStatistics
  <2>5. \A series, row : Totals(s, series, row)' = Totals(s, series, row)
    BY <1>1, TotalsStay
  <2>6. StatisticsOf(s)'
    BY <2>2, <2>3, <2>4, <2>5 DEF StatisticsOf
  <2>7. MarksIn(S, args[s].mode)
    BY <1>3, <2>1, <2>4, SummaryMarks DEF DataOK
  <2> QED
    BY <2>2, <2>6, <2>7 DEF ToldOK
<1> QED
  BY <1>2, <1>3

\* Nobody prints but the session, and then nothing changes that its table is about.
LEMMA TablesStay ==
  ASSUME DataOK, Unprinted, NEW s \in Sessions, Step(s), NEW t \in Sessions,
         ~ (t = s /\ PrintTable(s))
  PROVE  /\ DOMAIN printed' = Sessions /\ printed'[t] = printed[t]
         /\ pc[t] \in {"exit", "ended"} =>
              /\ pc'[t] \in {"exit", "ended"} /\ measured'[t] = measured[t] /\ args'[t] = args[t]
<1>1. DOMAIN printed' = Sessions /\ printed'[t] = printed[t]
  <2>1. CASE PrintTable(s)
    BY <2>1 DEF PrintTable, Unprinted
  <2>2. CASE ~ PrintTable(s)
    <3>1. printed' = printed
      BY <2>2 DEF Step, Begin, insmod, Kmalloc, ReadAddress, Measure, ReadWall, MeasureNop,
                  ReadNop, ReadProbe, rmmod, ctrl_c, finish
    <3> QED
      BY <3>1 DEF Unprinted
  <2> QED
    BY <2>1, <2>2
<1>2. CASE t # s
  BY <1>1, <1>2, StepOthers
<1>3. ASSUME t = s, pc[t] \in {"exit", "ended"}
      PROVE  pc'[t] \in {"exit", "ended"} /\ measured'[t] = measured[t] /\ args'[t] = args[t]
  <2>1. finish(s)
    BY <1>3 DEF Step, Begin, insmod, Kmalloc, ReadAddress, Measure, ReadWall, MeasureNop,
                ReadNop, ReadProbe, rmmod, PrintTable, ctrl_c, Exit, At
  <2> QED
    BY <1>3, <2>1 DEF finish, At, DataOK, ControlOK
<1> QED
  BY <1>1, <1>2, <1>3

LEMMA UnprintedInit == Init => Unprinted
BY DEF Init, Unprinted

LEMMA UnprintedStep == TypeInv /\ Unprinted /\ [Next]_vars => Unprinted'
<1> SUFFICES ASSUME TypeInv, Unprinted, [Next]_vars PROVE Unprinted'
  OBVIOUS
<1>1. DataOK
  BY DEF TypeInv
<1>2. CASE Next
  <2>1. PICK s \in Sessions : Step(s)
    BY <1>2 DEF Next
  <2>2. ASSUME NEW t \in Sessions
        PROVE  DOMAIN printed' = Sessions /\ (pc'[t] \notin {"exit", "ended"} => printed'[t] = <<>>)
    <3>1. CASE t = s /\ PrintTable(s)
      <4>1. pc'[t] = "exit" /\ DOMAIN printed' = DOMAIN printed
        BY <1>1, <3>1 DEF PrintTable, Exit, At, DataOK, ControlOK
      <4> QED
        BY <4>1 DEF Unprinted
    <3>2. CASE ~ (t = s /\ PrintTable(s))
      BY <1>1, <2>1, <3>2, TablesStay DEF Unprinted
    <3> QED
      BY <3>1, <3>2
  <2> QED
    BY <2>2 DEF Unprinted
<1>3. CASE UNCHANGED vars
  BY <1>3 DEF vars, session, Unprinted
<1> QED
  BY <1>2, <1>3

LEMMA ToldInit == Init => ToldInv
<1> SUFFICES ASSUME Init, NEW s \in Sessions PROVE ToldOK(s)
  BY DEF ToldInv
<1>1. printed[s] = <<>>
  BY DEF Init
<1> QED
  BY <1>1, NothingTold

LEMMA ToldStep ==
  TypeInv /\ AloneInv /\ FullInv /\ SteadyInv /\ Unprinted /\ Unprinted' /\ ToldInv /\ [Next]_vars
    => ToldInv'
<1> SUFFICES ASSUME TypeInv, AloneInv, FullInv, SteadyInv, Unprinted, Unprinted', ToldInv,
                    [Next]_vars, ~ wrapped', ~ overlapped', NEW t \in Sessions
             PROVE  ToldOK(t)'
  BY DEF ToldInv, Undisturbed
<1>1. DataOK
  BY DEF TypeInv
<1>2. ASSUME printed'[t] = printed[t], measured'[t] = measured[t], args'[t] = args[t], ToldOK(t)
      PROVE  ToldOK(t)'
  <2>1. \A series, row : Totals(t, series, row)' = Totals(t, series, row)
    BY <1>2, TotalsStay
  <2>2. StatisticsOf(t)'
    BY <1>2, <2>1 DEF ToldOK, StatisticsOf
  <2> QED
    BY <1>2, <2>2 DEF ToldOK
<1>3. CASE Next
  <2>1. PICK s \in Sessions : Step(s)
    BY <1>3 DEF Next
  <2>2. ~ overlapped
    BY <1>3 DEF Next
  <2>3. ~ wrapped
    BY <1>1, <2>1, WrappedStays
  <2>4. ToldOK(t) /\ Steady(t) /\ AllAgree(t)
    BY <2>2, <2>3 DEF ToldInv, SteadyInv, FullInv, LosslessOK, Undisturbed
  <2>5. CASE t = s /\ PrintTable(s)
    BY <1>1, <2>4, <2>5, PrintTells
  <2>6. CASE ~ (t = s /\ PrintTable(s))
    <3>1. CASE pc[t] \in {"exit", "ended"}
      BY <1>1, <1>2, <2>1, <2>4, <2>6, <3>1, TablesStay
    <3>2. CASE pc[t] \notin {"exit", "ended"}
      <4>1. printed'[t] = <<>>
        BY <1>1, <2>1, <2>6, <3>2, TablesStay DEF Unprinted
      <4>2. DOMAIN <<>> = {}
        OBVIOUS
      <4> QED
        BY <4>1, <4>2 DEF ToldOK, StatisticsOf, MarksIn
    <3> QED
      BY <3>1, <3>2
  <2> QED
    BY <2>5, <2>6
<1>4. CASE UNCHANGED vars
  BY <1>2, <1>4 DEF vars, module, klog, session, ToldInv, Undisturbed
<1> QED
  BY <1>3, <1>4

\* The averages that the script prints are those of what was measured last for the row,
\* round by round: of the values, when every command of the session works, and a value
\* counts again in each round whose command fails.  They are rounded down, and the
\* variances are within one of theirs.
THEOREM PrintsTheStatistics == Spec => []StatisticsTrue
<1>1. ToldInv => StatisticsTrue
  BY DEF ToldInv, ToldOK, StatisticsOf, TrueTo, StatisticsTrue
<1> QED
  BY TypeInit, TypeStep, FrontierInit, FrontierStep, AloneInit, AloneStep, FullInit, FullStep,
     SteadyInit, SteadyStep, UnprintedInit, UnprintedStep, ToldInit, ToldStep, <1>1, PTL DEF Spec

\* The marks name the rows whose averages are nearer to CPUID's than to XOR's.
THEOREM MarksTheExits == Spec => []MarksTell
<1>1. ToldInv => MarksTell
  BY DEF ToldInv, ToldOK, MarksIn, ClearIn, NearIn, MarksTell
<1> QED
  BY TypeInit, TypeStep, FrontierInit, FrontierStep, AloneInit, AloneStep, FullInit, FullStep,
     SteadyInit, SteadyStep, UnprintedInit, UnprintedStep, ToldInit, ToldStep, <1>1, PTL DEF Spec

=============================================================================
