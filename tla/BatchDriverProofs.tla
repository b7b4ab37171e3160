--------------------------- MODULE BatchDriverProofs ---------------------------
(***************************************************************************)
(* The batch driver gives every experiment its own parameters and leaves none   *)
(* out, for any number of experiments and of crashes, wherever they happen.     *)
(***************************************************************************)
EXTENDS BatchDriver, FiniteSetTheorems, TLAPS

\* The first n experiments have been started.
Done(n) == \A e \in 0 .. n - 1 : launched[e] > 0

\* The counters and the file are numbers; the file never points past the end.
Kinds ==
    /\ c \in Nat /\ k \in Int /\ idx \in Int
    /\ conf \in [idx : Int, k : Int] /\ conf.idx \in -1 .. Total
    /\ launched \in [0 .. Total - 1 -> Nat]

\* The distance goes with the loop counter.
Distance == k = firstK + steplen * (c \div runtimes)

\* How the number in the file, the number read and the loop counter go together
\* at each statement.  A start finds its own number or one ahead of it, so that
\* "c >= idx" is true exactly at the experiment whose turn it is.
InStep ==
    /\ pc \in {"read", "open", "write", "run", "save", "close", "next"} => c < Total
    /\ conf = Empty \/ conf.idx >= 0
    /\ pc = "read" => conf = Empty \/ conf.idx >= c
    /\ pc = "next" => conf.idx > c
    /\ pc \in {"open", "write", "run", "save", "close"} => idx = c
    /\ pc = "open" => conf.idx = c
    /\ pc \in {"run", "save"} => conf = Line(c, k)
    /\ pc \in {"write", "close", "last"} => conf = Empty

\* What has been started, also while the file is empty.
Progress ==
    /\ pc \notin {"last", "end"} => Done(conf.idx)
    /\ pc \in {"open", "write", "run", "save", "close"} => Done(c)
    /\ pc \in {"save", "close"} => launched[c] > 0

DriverInv == Kinds /\ Distance /\ InStep /\ Progress

\* There is at least one experiment.
LEMMA TotalPositive == Total \in Nat \ {0}
  BY BatchAssumption, SMTT(30) DEF Total

\* The counter of distances moves on with every runtimes-th experiment.
LEMMA NextDistance ==
    ASSUME NEW n \in Nat
    PROVE  /\ n \div runtimes \in Int
           /\ (n + 1) \div runtimes = IF (n + 1) % runtimes = 0 THEN (n \div runtimes) + 1
                                                                ELSE n \div runtimes
  <1>1. runtimes \in Nat \ {0}
    BY BatchAssumption
  <1>2. /\ n \div runtimes \in Int /\ n = runtimes * (n \div runtimes) + (n % runtimes)
        /\ n % runtimes \in 0 .. runtimes - 1
    BY <1>1, SMTT(30)
  <1>3. CASE (n + 1) % runtimes = 0
    <2>1. n + 1 = runtimes * ((n + 1) \div runtimes)
      BY <1>1, <1>3, SMTT(30)
    <2> QED
      BY <1>1, <1>2, <1>3, <2>1, SMTT(30)
  <1>4. CASE (n + 1) % runtimes # 0
    BY <1>1, <1>2, <1>4, SMTT(30)
  <1> QED
    BY <1>2, <1>3, <1>4

\* The first distance.
LEMMA FirstDistance == firstK = firstK + steplen * (0 \div runtimes)
  <1>1. runtimes \in Nat \ {0} /\ steplen \in Nat /\ firstK \in Nat
    BY BatchAssumption
  <1>2. 0 \div runtimes = 0
    BY <1>1, SMTT(30)
  <1> QED
    BY <1>1, <1>2

\* The file of the repository starts with experiment 0.
LEMMA DriverInit == ASSUME Init PROVE DriverInv
  <1>1. firstK \in Nat /\ steplen \in Nat /\ testnum \in Nat \ {0}
    BY BatchAssumption
  <1>2. firstK + steplen * (testnum - 1) \in Int
    BY <1>1, SMTT(30)
  <1>3. conf = [idx |-> 0, k |-> firstK + steplen * (testnum - 1)]
    BY DEF Init, Line
  <1>4. launched \in [0 .. Total - 1 -> Nat]
    BY DEF Init
  <1>5. Kinds
    BY <1>1, <1>2, <1>3, <1>4, TotalPositive DEF Init, Kinds
  <1>6. Distance
    BY FirstDistance DEF Init, Distance
  <1>7. InStep
    BY <1>3, TotalPositive DEF Init, InStep
  <1>8. Progress
    BY <1>3 DEF Init, Progress, Done
  <1> QED
    BY <1>5, <1>6, <1>7, <1>8 DEF DriverInv

\* Starting an experiment takes nothing back.
LEMMA StartMore ==
    ASSUME Kinds, NEW n \in 0 .. Total - 1, launched' = [launched EXCEPT ![n] = @ + 1]
    PROVE  /\ launched' \in [0 .. Total - 1 -> Nat] /\ launched'[n] > 0
           /\ \A m \in Int : m <= Total /\ (\A e \in 0 .. m - 1 : launched[e] > 0) =>
                 \A e \in 0 .. m - 1 : launched'[e] > 0
  BY TotalPositive DEF Kinds

\* Each statement of the script keeps file and counters in step.
LEMMA DriverSteps == ASSUME DriverInv, Steps PROVE DriverInv'
  <1> USE DEF DriverInv
  <1>t. Total \in Nat \ {0} /\ firstK \in Nat /\ steplen \in Nat
    BY TotalPositive, BatchAssumption
  <1>1. CASE ReadConf
    <2>1. CASE conf = Empty
      BY <1>1, <2>1 DEF ReadConf, Kinds, Distance, InStep, Progress, Done
    <2>2. CASE conf # Empty
      <3>1. /\ pc = "read" /\ idx' = conf.idx /\ pc' = IF c >= conf.idx THEN "open" ELSE "next"
            /\ UNCHANGED <<c, k, conf, rows, launched, crashes, torn>>
        BY <1>1, <2>2 DEF ReadConf
      <3>2. Kinds' /\ Distance'
        BY <3>1 DEF Kinds, Distance
      <3>3. InStep'
        BY <2>2, <3>1 DEF InStep, Kinds
      <3>4. Progress'
        BY <2>2, <3>1 DEF InStep, Progress, Kinds, Done
      <3> QED
        BY <3>2, <3>3, <3>4
    <2> QED
      BY <2>1, <2>2
  <1>2. ASSUME NEW from, NEW to, OpenFor(from, to),
               <<from, to>> \in {<<"open", "write">>, <<"save", "close">>, <<"reset", "last">>}
        PROVE  DriverInv'
    <2>1. /\ pc = from /\ pc' = to /\ conf' = [idx |-> -1, k |-> -1]
          /\ UNCHANGED <<c, k, idx, rows, launched, crashes, torn>>
      BY <1>2 DEF OpenFor, Empty
    <2>2. Kinds' /\ Distance'
      BY <1>t, <2>1 DEF Kinds, Distance
    <2>3. InStep'
      BY <1>2, <2>1 DEF InStep, Empty
    <2>4. Progress'
      BY <1>2, <2>1 DEF Progress, Done
    <2> QED
      BY <2>2, <2>3, <2>4
  <1>3. CASE WriteConf
    <2>1. /\ pc = "write" /\ pc' = "run" /\ conf' = [idx |-> idx, k |-> k]
          /\ UNCHANGED <<c, k, idx, rows, launched, crashes, torn>>
      BY <1>3 DEF WriteConf, CloseWith, Line
    <2>2. idx = c /\ c < Total
      BY <2>1 DEF InStep
    <2>3. Kinds' /\ Distance'
      BY <1>t, <2>1, <2>2 DEF Kinds, Distance
    <2>4. InStep'
      BY <2>1, <2>2 DEF InStep, Line, Kinds
    <2>5. Progress'
      BY <2>1, <2>2 DEF Progress, Done
    <2> QED
      BY <2>3, <2>4, <2>5
  <1>4. CASE \E ok \in BOOLEAN : RunSimulation(ok)
    <2>1. /\ pc = "run" /\ pc' = "save" /\ launched' = [launched EXCEPT ![conf.idx] = @ + 1]
          /\ UNCHANGED <<c, k, idx, conf, crashes, torn>>
      BY <1>4 DEF RunSimulation
    <2>2. conf = Line(c, k) /\ conf.idx = c /\ idx = c /\ c < Total
      BY <2>1 DEF InStep, Line
    <2>3. /\ launched' \in [0 .. Total - 1 -> Nat] /\ launched'[c] > 0
          /\ \A m \in Int : m <= Total /\ (\A e \in 0 .. m - 1 : launched[e] > 0) =>
                \A e \in 0 .. m - 1 : launched'[e] > 0
      <3>1. c \in 0 .. Total - 1
        BY <1>t, <2>2 DEF Kinds
      <3> QED
        BY <2>1, <2>2, <3>1, StartMore
    <2>4. Kinds' /\ Distance'
      BY <2>1, <2>3 DEF Kinds, Distance
    <2>5. InStep'
      BY <2>1, <2>2 DEF InStep, Line
    <2>6. Progress'
      BY <1>t, <2>1, <2>2, <2>3 DEF Progress, Done, Kinds
    <2> QED
      BY <2>4, <2>5, <2>6
  <1>5. CASE WriteNext
    <2>1. /\ pc = "close" /\ pc' = "next" /\ conf' = [idx |-> idx + 1, k |-> k]
          /\ UNCHANGED <<c, k, idx, rows, launched, crashes, torn>>
      BY <1>5 DEF WriteNext, CloseWith, Line
    <2>2. idx = c /\ c < Total /\ Done(c) /\ launched[c] > 0
      BY <2>1 DEF InStep, Progress
    <2>3. Kinds' /\ Distance'
      BY <1>t, <2>1, <2>2 DEF Kinds, Distance
    <2>4. InStep'
      BY <2>1, <2>2 DEF InStep, Kinds
    <2>5. Progress'
      BY <2>1, <2>2 DEF Progress, Done, Kinds
    <2> QED
      BY <2>3, <2>4, <2>5
  <1>6. CASE NextExperiment
    <2>1. /\ pc = "next" /\ c' = c + 1 /\ k' = IF c' % runtimes = 0 THEN k + steplen ELSE k
          /\ pc' = IF c' = Total THEN "reset" ELSE "read"
          /\ UNCHANGED <<idx, conf, rows, launched, crashes, torn>>
      BY <1>6 DEF NextExperiment
    <2>2. c \in Nat /\ c < Total /\ conf.idx > c /\ k \in Int /\ conf.idx \in Int
      BY <2>1 DEF InStep, Kinds
    <2>3. Distance'
      <3>1. c' \div runtimes = (IF c' % runtimes = 0 THEN (c \div runtimes) + 1 ELSE c \div runtimes)
            /\ c \div runtimes \in Int
        BY <2>1, <2>2, NextDistance
      <3> DEFINE q == c \div runtimes
      <3>2. steplen * (q + 1) = steplen * q + steplen /\ steplen * q \in Int
        BY <1>t, <3>1, SMTT(30)
      <3>3. k = firstK + steplen * q
        BY DEF Distance
      <3> HIDE DEF q
      <3>4. k' = firstK + (IF c' % runtimes = 0 THEN steplen * q + steplen ELSE steplen * q)
        BY <1>t, <2>1, <3>2, <3>3
      <3>5. k' = firstK + steplen * (IF c' % runtimes = 0 THEN q + 1 ELSE q)
        BY <3>2, <3>4
      <3> QED
        BY <3>1, <3>5 DEF Distance, q
    <2>4. Kinds'
      BY <1>t, <2>1, <2>2 DEF Kinds
    <2>5. InStep'
      BY <1>t, <2>1, <2>2 DEF InStep
    <2>6. Progress'
      BY <2>1 DEF Progress, Done
    <2> QED
      BY <2>3, <2>4, <2>5, <2>6
  <1>7. CASE WriteReset
    <2>1. /\ pc = "last" /\ pc' = "end" /\ conf' = [idx |-> 0, k |-> firstK + steplen]
          /\ UNCHANGED <<c, k, idx, rows, launched, crashes, torn>>
      BY <1>7 DEF WriteReset, CloseWith, Line
    <2> QED
      BY <1>t, <2>1 DEF Kinds, Distance, InStep, Progress
  <1> QED
    BY <1>1, <1>2, <1>3, <1>4, <1>5, <1>6, <1>7 DEF Steps, OpenConf, OpenNext, OpenReset

\* A crash loses the counters but not what the file stands for.
LEMMA RestartStep ==
    ASSUME DriverInv, Restart, pc \notin {"raised", "end"},
           \/ launched' = launched
           \/ pc = "run" /\ launched' = [launched EXCEPT ![conf.idx] = @ + 1]
    PROVE  DriverInv'
  <1>t. Total \in Nat \ {0} /\ firstK \in Nat
    BY TotalPositive, BatchAssumption
  <1>1. pc' = "read" /\ c' = 0 /\ k' = firstK /\ idx' = -1 /\ conf' = conf
    BY DEF Restart
  <1>2. launched' \in [0 .. Total - 1 -> Nat] /\ (pc # "last" => Done(conf.idx)')
    <2>1. CASE launched' = launched
      BY <1>1, <2>1 DEF DriverInv, Kinds, Progress, Done
    <2>2. CASE pc = "run" /\ launched' = [launched EXCEPT ![conf.idx] = @ + 1]
      <3>1. conf.idx = c /\ c \in 0 .. Total - 1 /\ Done(c) /\ Kinds
        BY <1>t, <2>2 DEF DriverInv, InStep, Line, Kinds, Progress
      <3>2. /\ launched' \in [0 .. Total - 1 -> Nat]
            /\ \A m \in Int : m <= Total /\ (\A e \in 0 .. m - 1 : launched[e] > 0) =>
                  \A e \in 0 .. m - 1 : launched'[e] > 0
        BY <2>2, <3>1, StartMore
      <3> QED
        BY <1>1, <1>t, <3>1, <3>2 DEF Done
    <2> QED
      BY <2>1, <2>2
  <1>3. conf = Empty \/ conf.idx >= 0
    BY DEF DriverInv, InStep
  <1>4. pc = "last" => conf = Empty
    BY DEF DriverInv, InStep
  <1>5. Kinds'
    BY <1>t, <1>1, <1>2 DEF DriverInv, Kinds
  <1>6. Distance'
    BY <1>1, FirstDistance DEF Distance
  <1>7. InStep'
    BY <1>t, <1>1, <1>3 DEF InStep
  <1>8. Done(conf.idx)'
    BY <1>1, <1>2, <1>4 DEF Done, Empty
  <1>9. Progress'
    BY <1>1, <1>8 DEF Progress
  <1> QED
    BY <1>5, <1>6, <1>7, <1>9 DEF DriverInv

\* File and counters stay in step over any crashes.
THEOREM DriverCorrect == Spec => []DriverInv
  <1>1. Init => DriverInv
    BY DriverInit
  <1>2. DriverInv /\ [Next]_vars => DriverInv'
    <2> SUFFICES ASSUME DriverInv, [Next]_vars PROVE DriverInv'
      OBVIOUS
    <2>1. CASE Steps
      BY <2>1, DriverSteps
    <2>2. CASE Crash
      BY <2>2, RestartStep DEF Crash
    <2>3. CASE \E ok \in BOOLEAN : CrashInRun(ok)
      BY <2>3, RestartStep DEF CrashInRun
    <2>4. CASE UNCHANGED vars
      BY <2>4 DEF vars, DriverInv, Kinds, Distance, InStep, Progress, Done
    <2> QED
      BY <2>1, <2>2, <2>3, <2>4 DEF Next
  <1> QED
    BY <1>1, <1>2, PTL DEF Spec

\* Every experiment runs with the parameters its number stands for.
THEOREM ParametersCorrect == Spec => []ParametersMatchNumber
  <1>1. DriverInv => ParametersMatchNumber
    BY DEF DriverInv, Distance, InStep, ParametersMatchNumber
  <1> QED
    BY <1>1, DriverCorrect, PTL

\* No experiment below the number in the file is left out.
THEOREM NoneLeftOut == Spec => []NoneSkipped
  <1>1. DriverInv => NoneSkipped
    BY DEF DriverInv, Progress, Done, NoneSkipped
  <1> QED
    BY <1>1, DriverCorrect, PTL

-------------------------------------------------------------------------------
(* Repeated rows.  A crash can make one experiment run again, the one whose     *)
(* number is in the file: if it has its row by then, the crash is set aside for *)
(* the row that is to come.                                                     *)

\* Number i comes next: those after it have no row yet, and a crash has been
\* set aside if it has one.
Upcoming(i) ==
    /\ \A e \in 0 .. Total - 1 : e > i => rows[e] = 0
    /\ i \in 0 .. Total - 1 /\ rows[i] > 0 => Cardinality(RepeatedRows) + 1 <= crashes

RowKinds ==
    /\ rows \in [0 .. Total - 1 -> Nat] /\ crashes \in Nat
    /\ IsFiniteSet(RepeatedRows)

Statement ==
    pc \in {"read", "open", "write", "run", "save", "close", "next", "reset", "last", "end",
            "raised"}

RepeatInv ==
    /\ Statement
    /\ RowKinds
    /\ RepeatsAreCrashes
    /\ pc \in {"read", "next", "open", "run", "reset"} /\ conf # Empty => Upcoming(conf.idx)
    /\ pc = "write" => Upcoming(c)
    /\ pc \in {"save", "close"} => \A e \in 0 .. Total - 1 : e > c => rows[e] = 0

\* A row is repeated if its experiment has an earlier one.
LEMMA RepeatedMembers ==
    ASSUME NEW r \in [0 .. Total - 1 -> Nat]
    PROVE  \A p : p \in UNION {{e} \X (2 .. r[e]) : e \in DOMAIN r}
                    <=> \E e \in 0 .. Total - 1 : \E x \in 2 .. r[e] : p = <<e, x>>
<1>1. DOMAIN r = 0 .. Total - 1
  OBVIOUS
<1> QED BY <1>1

\* A new row is a repeated one if its experiment had a row.
LEMMA OneMoreRow ==
    ASSUME RowKinds, NEW n \in 0 .. Total - 1, rows' = [rows EXCEPT ![n] = @ + 1]
    PROVE  /\ rows' \in [0 .. Total - 1 -> Nat]
           /\ IsFiniteSet(RepeatedRows')
           /\ Cardinality(RepeatedRows) \in Nat
           /\ Cardinality(RepeatedRows') = Cardinality(RepeatedRows) + IF rows[n] = 0 THEN 0 ELSE 1
           /\ \A e \in 0 .. Total - 1 : e # n => rows'[e] = rows[e]
<1>1. PICK r : r = rows'
  OBVIOUS
<1>2. /\ rows \in [0 .. Total - 1 -> Nat] /\ r \in [0 .. Total - 1 -> Nat]
      /\ \A e \in 0 .. Total - 1 : r[e] = IF e = n THEN rows[e] + 1 ELSE rows[e]
  BY <1>1 DEF RowKinds
<1>3. PICK R : R = UNION {{e} \X (2 .. r[e]) : e \in DOMAIN r}
  OBVIOUS
<1>4. R = RepeatedRows'
  BY <1>1, <1>3 DEF RepeatedRows
<1>5. /\ \A p : p \in R <=> \E e \in 0 .. Total - 1 : \E x \in 2 .. r[e] : p = <<e, x>>
      /\ \A p : p \in RepeatedRows <=> \E e \in 0 .. Total - 1 : \E x \in 2 .. rows[e] : p = <<e, x>>
  BY <1>2, <1>3, RepeatedMembers DEF RepeatedRows
<1>6. IsFiniteSet(RepeatedRows) /\ Cardinality(RepeatedRows) \in Nat
  BY FS_CardinalityType DEF RowKinds
<1>7. CASE rows[n] = 0
  <2>1. \A e \in 0 .. Total - 1 : 2 .. r[e] = 2 .. rows[e]
    BY <1>2, <1>7
  <2>2. R = RepeatedRows
    BY <1>5, <2>1
  <2> QED BY <1>1, <1>2, <1>4, <1>6, <1>7, <2>2
<1>8. CASE rows[n] # 0
  <2> DEFINE new == <<n, rows[n] + 1>>
  <2>1. \A e \in 0 .. Total - 1 : \A x : x \in 2 .. r[e] <=> x \in 2 .. rows[e] \/ <<e, x>> = new
    <3> TAKE e \in 0 .. Total - 1
    <3> TAKE x
    <3>1. rows[e] \in Nat /\ rows[n] \in Nat \ {0}
      BY <1>2, <1>8
    <3>2. CASE e = n
      <4>1. r[e] = rows[e] + 1
        BY <1>2, <3>2
      <4>2. 2 .. rows[e] + 1 = 2 .. rows[e] \cup {rows[e] + 1}
        BY <3>1, <3>2
      <4>3. <<e, x>> = new <=> x = rows[e] + 1
        BY <3>2
      <4> QED BY <4>1, <4>2, <4>3
    <3>3. CASE e # n
      BY <1>2, <3>3
    <3> QED BY <3>2, <3>3
  <2>2. R = RepeatedRows \cup {new}
    <3>1. ASSUME NEW p \in R PROVE p \in RepeatedRows \cup {new}
      <4>1. PICK e \in 0 .. Total - 1 : \E x \in 2 .. r[e] : p = <<e, x>>
        BY <1>5
      <4>2. PICK x \in 2 .. r[e] : p = <<e, x>>
        BY <4>1
      <4>3. x \in 2 .. rows[e] \/ <<e, x>> = new
        BY <2>1
      <4> HIDE DEF new
      <4> QED BY <1>5, <4>2, <4>3
    <3>2. ASSUME NEW p \in RepeatedRows PROVE p \in R
      <4>1. PICK e \in 0 .. Total - 1 : \E x \in 2 .. rows[e] : p = <<e, x>>
        BY <1>5
      <4>2. PICK x \in 2 .. rows[e] : p = <<e, x>>
        BY <4>1
      <4>3. x \in 2 .. r[e]
        BY <2>1
      <4> QED BY <1>5, <4>2, <4>3
    <3>3. new \in R
      <4>1. rows[n] + 1 \in 2 .. r[n]
        BY <1>2, <1>8
      <4> QED BY <1>5, <4>1
    <3> HIDE DEF new
    <3> QED BY <3>1, <3>2, <3>3
  <2>3. new \notin RepeatedRows
    <3> SUFFICES ASSUME NEW e \in 0 .. Total - 1, NEW x \in 2 .. rows[e], new = <<e, x>>
                 PROVE  FALSE
      BY <1>5
    <3>1. e = n /\ x = rows[n] + 1 /\ rows[n] \in Nat
      BY <1>2
    <3> QED BY <3>1
  <2> HIDE DEF new
  <2>4. IsFiniteSet(R) /\ Cardinality(R) = Cardinality(RepeatedRows) + 1
    BY <1>6, <2>2, <2>3, FS_AddElement
  <2> QED BY <1>1, <1>2, <1>4, <1>6, <1>8, <2>4
<1> QED BY <1>7, <1>8

\* Nothing is repeated at first.
LEMMA RepeatInit == ASSUME Init PROVE RepeatInv
<1>1. rows = [e \in 0 .. Total - 1 |-> 0] /\ crashes = 0 /\ pc = "read"
  BY DEF Init
<1>2. rows \in [0 .. Total - 1 -> Nat] /\ \A e \in 0 .. Total - 1 : rows[e] = 0
  BY <1>1
<1>3. RepeatedRows = {}
  <2>1. \A p : p \in RepeatedRows <=> \E e \in 0 .. Total - 1 : \E x \in 2 .. rows[e] : p = <<e, x>>
    BY <1>2, RepeatedMembers DEF RepeatedRows
  <2> QED BY <1>2, <2>1
<1>4. IsFiniteSet(RepeatedRows) /\ Cardinality(RepeatedRows) = 0
  BY <1>3, FS_EmptySet
<1> QED BY <1>1, <1>2, <1>4 DEF RepeatInv, Statement, RowKinds, RepeatsAreCrashes, Upcoming

\* A row of the experiment whose turn it is was set aside for, if it repeats one.
LEMMA RowInTurn ==
    ASSUME DriverInv, RepeatInv, pc = "run", NEW ok \in BOOLEAN,
           rows' = IF ok THEN [rows EXCEPT ![conf.idx] = @ + 1] ELSE rows
    PROVE  /\ rows' \in [0 .. Total - 1 -> Nat] /\ IsFiniteSet(RepeatedRows')
           /\ Cardinality(RepeatedRows') <= crashes /\ Cardinality(RepeatedRows') \in Nat
           /\ conf.idx = c /\ \A e \in 0 .. Total - 1 : e > c => rows'[e] = 0
<1>1. conf.idx = c /\ c \in 0 .. Total - 1 /\ conf # Empty
  BY TotalPositive DEF DriverInv, Kinds, InStep, Line, Empty
<1>2. /\ Upcoming(c) /\ RowKinds /\ Cardinality(RepeatedRows) <= crashes
      /\ Cardinality(RepeatedRows) \in Nat /\ crashes \in Nat
  BY <1>1, FS_CardinalityType DEF RepeatInv, Statement, RowKinds, RepeatsAreCrashes
<1>3. CASE ~ok
  <2>1. rows' = rows /\ RepeatedRows' = RepeatedRows
    BY <1>3 DEF RepeatedRows
  <2> QED BY <1>1, <1>2, <2>1 DEF Upcoming, RowKinds
<1>4. CASE ok
  <2>1. /\ rows' \in [0 .. Total - 1 -> Nat]
        /\ IsFiniteSet(RepeatedRows')
        /\ Cardinality(RepeatedRows') = Cardinality(RepeatedRows) + IF rows[c] = 0 THEN 0 ELSE 1
        /\ \A e \in 0 .. Total - 1 : e # c => rows'[e] = rows[e]
    BY <1>1, <1>2, <1>4, OneMoreRow
  <2>2. rows[c] # 0 => Cardinality(RepeatedRows) + 1 <= crashes
    BY <1>1, <1>2 DEF Upcoming, RowKinds
  <2>3. \A e \in 0 .. Total - 1 : e > c => rows'[e] = 0
    BY <1>1, <1>2, <2>1 DEF Upcoming
  <2> QED BY <1>1, <1>2, <2>1, <2>2, <2>3
<1> QED BY <1>3, <1>4

\* Each statement keeps the account.
LEMMA RepeatSteps == ASSUME DriverInv, RepeatInv, Steps PROVE RepeatInv'
<1>k. RowKinds /\ RepeatsAreCrashes /\ Cardinality(RepeatedRows) \in Nat
  BY FS_CardinalityType DEF RepeatInv, RowKinds
<1>1. CASE \E ok \in BOOLEAN : RunSimulation(ok)
  <2>1. PICK ok \in BOOLEAN : RunSimulation(ok)
    BY <1>1
  <2>2. /\ pc = "run" /\ pc' = "save" /\ UNCHANGED <<c, conf, crashes>>
        /\ rows' = IF ok THEN [rows EXCEPT ![conf.idx] = @ + 1] ELSE rows
    BY <2>1 DEF RunSimulation
  <2>3. /\ rows' \in [0 .. Total - 1 -> Nat] /\ IsFiniteSet(RepeatedRows')
        /\ Cardinality(RepeatedRows') <= crashes
        /\ \A e \in 0 .. Total - 1 : e > c => rows'[e] = 0
    BY <2>2, RowInTurn
  <2> QED BY <1>k, <2>2, <2>3 DEF RepeatInv, Statement, RowKinds, RepeatsAreCrashes, Total
<1>2. CASE UNCHANGED <<rows, crashes>>
  <2>1. RepeatedRows' = RepeatedRows /\ RowKinds' /\ RepeatsAreCrashes'
    BY <1>2, <1>k DEF RepeatedRows, RowKinds, RepeatsAreCrashes, Total
  <2>2. \A i : Upcoming(i) => Upcoming(i)'
    BY <1>2, <2>1 DEF Upcoming, Total
  <2>3. CASE ReadConf
    BY <2>1, <2>2, <2>3 DEF ReadConf, RepeatInv, Statement
  <2>4. CASE OpenConf
    BY <2>1, <2>2, <2>4 DEF OpenConf, OpenFor, RepeatInv, Statement, DriverInv, InStep, Empty, Kinds
  <2>5. CASE WriteConf
    BY <2>1, <2>2, <2>5 DEF WriteConf, CloseWith, RepeatInv, Statement, DriverInv, InStep, Line, Kinds
  <2>6. CASE OpenNext
    BY <1>2, <2>1, <2>6 DEF OpenNext, OpenFor, RepeatInv, Statement, Total
  <2>7. CASE WriteNext
    <3>1. /\ pc = "close" /\ pc' = "next" /\ conf' = Line(c + 1, k) /\ c \in Nat
      BY <2>7 DEF WriteNext, CloseWith, DriverInv, InStep, Kinds
    <3>2. conf'.idx = c + 1
      BY <3>1 DEF Line
    <3>3. \A e \in 0 .. Total - 1 : e > c => rows[e] = 0
      BY <3>1 DEF RepeatInv
    <3>4. Upcoming(c + 1)
      <4>1. \A e \in 0 .. Total - 1 : e > c + 1 => rows[e] = 0
        BY <3>1, <3>3, TotalPositive
      <4>2. c + 1 \in 0 .. Total - 1 => rows[c + 1] = 0
        BY <3>1, <3>3
      <4> QED BY <4>1, <4>2 DEF Upcoming
    <3>5. PICK i : i = c + 1
      OBVIOUS
    <3>6. Upcoming(i)'
      BY <2>2, <3>4, <3>5
    <3>7. i = conf'.idx
      BY <3>2, <3>5
    <3> QED BY <2>1, <3>1, <3>6, <3>7 DEF RepeatInv, Statement
  <2>8. CASE NextExperiment
    BY <2>1, <2>2, <2>8 DEF NextExperiment, RepeatInv, Statement
  <2>9. CASE OpenReset
    BY <2>1, <2>9 DEF OpenReset, OpenFor, RepeatInv, Statement
  <2>10. CASE WriteReset
    BY <2>1, <2>10 DEF WriteReset, CloseWith, RepeatInv, Statement
  <2>11. CASE \E ok \in BOOLEAN : RunSimulation(ok)
    BY <1>1, <2>11
  <2> QED BY <2>3, <2>4, <2>5, <2>6, <2>7, <2>8, <2>9, <2>10, <2>11 DEF Steps
<1>3. UNCHANGED <<rows, crashes>> \/ \E ok \in BOOLEAN : RunSimulation(ok)
  BY DEF Steps, ReadConf, OpenConf, OpenFor, WriteConf, CloseWith, OpenNext, WriteNext,
         NextExperiment, OpenReset, WriteReset
<1> QED BY <1>1, <1>2, <1>3

\* A crash pays for the row that it may cause.
LEMMA RepeatCrash ==
    ASSUME DriverInv, RepeatInv, Restart, pc \notin {"raised", "end"},
           \/ rows' = rows
           \/ pc = "run" /\ rows' = [rows EXCEPT ![conf.idx] = @ + 1]
    PROVE  RepeatInv'
<1>1. pc' = "read" /\ conf' = conf /\ crashes' = crashes + 1
  BY DEF Restart
<1>2. /\ RowKinds /\ Cardinality(RepeatedRows) <= crashes
      /\ Cardinality(RepeatedRows) \in Nat /\ crashes \in Nat
  BY FS_CardinalityType DEF RepeatInv, Statement, RowKinds, RepeatsAreCrashes
<1>3. /\ rows' \in [0 .. Total - 1 -> Nat] /\ IsFiniteSet(RepeatedRows')
      /\ Cardinality(RepeatedRows') <= crashes /\ Cardinality(RepeatedRows') \in Nat
      /\ conf # Empty => \A e \in 0 .. Total - 1 : e > conf.idx => rows'[e] = 0
  <2>1. CASE rows' = rows
    <3>1. RepeatedRows' = RepeatedRows
      BY <2>1 DEF RepeatedRows
    <3>2. conf # Empty => \A e \in 0 .. Total - 1 : e > conf.idx => rows[e] = 0
      <4> SUFFICES ASSUME conf # Empty
                   PROVE  \A e \in 0 .. Total - 1 : e > conf.idx => rows[e] = 0
        OBVIOUS
      <4>1. CASE pc \in {"read", "next", "open", "run", "reset"}
        BY <4>1 DEF RepeatInv, Upcoming
      <4>2. CASE pc = "save"
        <5>1. conf.idx = c
          BY <4>2 DEF DriverInv, InStep, Line
        <5> QED BY <4>2, <5>1 DEF RepeatInv
      <4>3. CASE pc \in {"write", "close", "last"}
        BY <4>3 DEF DriverInv, InStep
      <4> QED BY <4>1, <4>2, <4>3 DEF RepeatInv, Statement
    <3> QED BY <1>2, <2>1, <3>1, <3>2 DEF RowKinds
  <2>2. CASE pc = "run" /\ rows' = [rows EXCEPT ![conf.idx] = @ + 1]
    <3>1. TRUE \in BOOLEAN /\ rows' = IF TRUE THEN [rows EXCEPT ![conf.idx] = @ + 1] ELSE rows
      BY <2>2
    <3> QED BY <2>2, <3>1, RowInTurn
  <2> QED BY <2>1, <2>2
<1>4. conf # Empty => Upcoming(conf.idx)'
  BY <1>1, <1>2, <1>3 DEF Upcoming, Total
<1> QED BY <1>1, <1>2, <1>3, <1>4 DEF RepeatInv, Statement, RowKinds, RepeatsAreCrashes, Total

\* The rows beyond one per experiment are never more than the crashes, for any
\* number of experiments and of crashes at any statements of simulation.py.
THEOREM RepeatsCorrect == Spec => []RepeatsAreCrashes
<1>1. Init => RepeatInv
  BY RepeatInit
<1>2. DriverInv /\ RepeatInv /\ [Next]_vars => RepeatInv'
  <2> SUFFICES ASSUME DriverInv, RepeatInv, [Next]_vars PROVE RepeatInv'
    OBVIOUS
  <2>1. CASE Steps
    BY <2>1, RepeatSteps
  <2>2. CASE Crash
    BY <2>2, RepeatCrash DEF Crash
  <2>3. CASE \E ok \in BOOLEAN : CrashInRun(ok)
    BY <2>3, RepeatCrash DEF CrashInRun
  <2>4. CASE UNCHANGED vars
    BY <2>4 DEF vars, RepeatInv, Statement, RowKinds, RepeatsAreCrashes, RepeatedRows, Upcoming, Total
  <2> QED BY <2>1, <2>2, <2>3, <2>4 DEF Next
<1>3. RepeatInv => RepeatsAreCrashes
  BY DEF RepeatInv
<1> QED BY <1>1, <1>2, <1>3, DriverCorrect, PTL DEF Spec

-------------------------------------------------------------------------------
(* How a batch ends.  The script stops in two ways only, and every statement     *)
(* brings it nearer; that it goes on at all is the fairness of Spec.             *)

\* The script ends with all experiments started, or fails on a file that a crash
\* left empty.
EndsRight ==
    /\ pc = "end" => \A e \in DOMAIN launched : launched[e] > 0
    /\ pc = "raised" => torn > 0

\* An empty file at a start is the trace of a crash; after the loops everything
\* has been started.
EndInv ==
    /\ torn \in Nat /\ crashes \in 0 .. MaxCrashes /\ Statement
    /\ c <= Total
    /\ (pc = "read" /\ conf = Empty) \/ pc = "raised" => torn > 0
    /\ pc \in {"reset", "last", "end"} => Done(Total)

\* At first the file is not empty and nothing has crashed.
LEMMA EndInit == ASSUME Init PROVE EndInv
  BY BatchAssumption, TotalPositive DEF Init, EndInv, Statement, Empty, Line

\* The statements of the script: the file is never empty when one of them leads
\* back to the start of the loop.
LEMMA EndSteps == ASSUME DriverInv, EndInv, Steps PROVE EndInv'
  <1>t. Total \in Nat \ {0}
    BY TotalPositive
  <1>k. c \in Nat /\ conf \in [idx : Int, k : Int] /\ conf.idx <= Total
    BY <1>t DEF DriverInv, Kinds
  <1>1. CASE ReadConf
    BY <1>1 DEF ReadConf, EndInv, Statement, Done
  <1>2. CASE OpenConf \/ OpenNext
    BY <1>2 DEF OpenConf, OpenNext, OpenFor, EndInv, Statement
  <1>3. CASE WriteConf \/ WriteNext
    BY <1>3 DEF WriteConf, WriteNext, CloseWith, EndInv, Statement
  <1>4. CASE OpenReset \/ WriteReset
    BY <1>4 DEF OpenReset, WriteReset, OpenFor, CloseWith, EndInv, Statement, Done
  <1>5. CASE \E ok \in BOOLEAN : RunSimulation(ok)
    BY <1>5 DEF RunSimulation, EndInv, Statement
  <1>6. CASE NextExperiment
    <2>1. /\ pc = "next" /\ c' = c + 1 /\ pc' = IF c' = Total THEN "reset" ELSE "read"
          /\ UNCHANGED <<conf, launched, crashes, torn>>
      BY <1>6 DEF NextExperiment
    <2>2. conf.idx > c /\ c < Total /\ Done(conf.idx)
      BY <2>1 DEF DriverInv, InStep, Progress
    <2>3. conf # Empty
      BY <1>k, <2>2 DEF Empty
    <2>4. c' = Total => conf.idx = Total
      BY <1>t, <1>k, <2>1, <2>2
    <2>5. pc' = "reset" => Done(Total)'
      BY <2>1, <2>2, <2>4 DEF Done
    <2>6. c' <= Total
      BY <1>t, <1>k, <2>1, <2>2
    <2> QED
      BY <2>1, <2>3, <2>5, <2>6 DEF EndInv, Statement
  <1> QED
    BY <1>1, <1>2, <1>3, <1>4, <1>5, <1>6 DEF Steps

\* A crash that leaves the file empty is counted.
LEMMA EndCrash ==
    ASSUME EndInv, Restart, crashes < MaxCrashes
    PROVE  EndInv'
  BY TotalPositive, BatchAssumption DEF Restart, EndInv, Statement

\* The invariant behind the end of a batch.
THEOREM EndCorrect == Spec => []EndInv
  <1>1. Init => EndInv
    BY EndInit
  <1>2. DriverInv /\ EndInv /\ [Next]_vars => EndInv'
    <2> SUFFICES ASSUME DriverInv, EndInv, [Next]_vars PROVE EndInv'
      OBVIOUS
    <2>1. CASE Steps
      BY <2>1, EndSteps
    <2>2. CASE Crash \/ \E ok \in BOOLEAN : CrashInRun(ok)
      BY <2>2, EndCrash DEF Crash, CrashInRun
    <2>3. CASE UNCHANGED vars
      BY <2>3 DEF vars, EndInv, Statement, Done
    <2> QED
      BY <2>1, <2>2, <2>3 DEF Next
  <1> QED
    BY <1>1, <1>2, DriverCorrect, PTL DEF Spec

\* simulation.py ends in two ways only: past its last line, with every experiment
\* started, or on the empty file of an earlier crash.
THEOREM BatchEndsRight == Spec => []EndsRight
  <1>1. DriverInv /\ EndInv => EndsRight
    <2> SUFFICES ASSUME DriverInv, EndInv PROVE EndsRight
      OBVIOUS
    <2>1. DOMAIN launched = 0 .. Total - 1
      BY DEF DriverInv, Kinds
    <2> QED
      BY <2>1 DEF EndInv, EndsRight, Done
  <1> QED
    BY <1>1, DriverCorrect, EndCorrect, PTL

\* The place of a statement in the body of the loop, or behind it, from its end.
Place ==
    [s \in {"read", "open", "write", "run", "save", "close", "next", "reset", "last", "end",
            "raised"} |->
        CASE s = "read" -> 7 [] s = "open" -> 6 [] s = "write" -> 5 [] s = "run" -> 4
          [] s = "save" -> 3 [] s = "close" -> 2 [] s = "next" -> 1
          [] s = "reset" -> 2 [] s = "last" -> 1 [] OTHER -> 0]

\* The statements that are left of a start of the script, at most.
StatementsLeft == 7 * (Total - c) + Place[pc]

\* A step leaves fewer statements, or is one of at most MaxCrashes crashes.
FewerLeft ==
    \/ crashes' = crashes /\ StatementsLeft' \in 0 .. StatementsLeft - 1
    \/ crashes' \in crashes + 1 .. MaxCrashes /\ StatementsLeft' \in Nat

\* The loops of simulation.py make progress with every statement: between two
\* crashes each lessens a natural number, whatever the file says.
THEOREM BatchShrinks == Spec => [][FewerLeft]_vars
  <1>1. DriverInv /\ EndInv /\ EndInv' /\ [Next]_vars => [FewerLeft]_vars
    <2> SUFFICES ASSUME DriverInv, EndInv, EndInv', Next PROVE FewerLeft
      OBVIOUS
    <2>t. Total \in Nat \ {0} /\ MaxCrashes \in Nat
      BY TotalPositive, BatchAssumption
    <2>k. c \in Nat /\ c <= Total /\ crashes \in Nat
      BY <2>t DEF DriverInv, Kinds, EndInv
    <2>p. /\ Place["read"] = 7 /\ Place["open"] = 6 /\ Place["write"] = 5 /\ Place["run"] = 4
          /\ Place["save"] = 3 /\ Place["close"] = 2 /\ Place["next"] = 1
          /\ Place["reset"] = 2 /\ Place["last"] = 1 /\ Place["end"] = 0 /\ Place["raised"] = 0
      BY DEF Place
    <2> HIDE DEF Place
    <2>1. CASE ReadConf
      BY <2>1, <2>t, <2>k, <2>p DEF ReadConf, FewerLeft, StatementsLeft, Total
    <2>2. CASE OpenConf \/ OpenNext \/ OpenReset
      BY <2>2, <2>t, <2>k, <2>p DEF OpenConf, OpenNext, OpenReset, OpenFor, FewerLeft, StatementsLeft,
                                    Total
    <2>3. CASE WriteConf \/ WriteNext \/ WriteReset
      BY <2>3, <2>t, <2>k, <2>p DEF WriteConf, WriteNext, WriteReset, CloseWith, FewerLeft,
                                    StatementsLeft, Total
    <2>4. CASE \E ok \in BOOLEAN : RunSimulation(ok)
      BY <2>4, <2>t, <2>k, <2>p DEF RunSimulation, FewerLeft, StatementsLeft, Total
    <2>5. CASE NextExperiment
      BY <2>5, <2>t, <2>k, <2>p DEF NextExperiment, FewerLeft, StatementsLeft, Total, EndInv
    <2>6. CASE Crash \/ \E ok \in BOOLEAN : CrashInRun(ok)
      BY <2>6, <2>t, <2>k, <2>p DEF Crash, CrashInRun, Restart, FewerLeft, StatementsLeft, Total
    <2> QED
      BY <2>1, <2>2, <2>3, <2>4, <2>5, <2>6 DEF Next, Steps
  <1> QED
    BY <1>1, DriverCorrect, EndCorrect, PTL DEF Spec

==============================================================================
