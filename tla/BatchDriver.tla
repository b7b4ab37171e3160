------------------------------ MODULE BatchDriver ------------------------------
(***************************************************************************)
(* The batch driver simulation.py: it runs every experiment in turn and keeps  *)
(* its place in scratch/conf.txt, which the simulation reads too.  A driver     *)
(* that is killed is started again and skips the experiments whose number is    *)
(* below the one in the file.  open(.., 'w') empties the file, close() writes   *)
(* the new line; the driver may die between any two steps.                     *)
(*                                                                          *)
(* Of the file the model keeps idx and DistanceRange, the other lines being     *)
(* constant.                                                                 *)
(***************************************************************************)
EXTENDS Integers, FiniteSets

CONSTANTS
    testnum, runtimes, steplen, firstK, \* the constants of the script
    MaxCrashes                          \* bound on the number of crashes

ASSUME BatchAssumption ==
    /\ testnum \in Nat \ {0} /\ runtimes \in Nat \ {0}
    /\ steplen \in Nat /\ firstK \in Nat /\ MaxCrashes \in Nat

VARIABLES
    pc,         \* the statement that comes next
    c, k,       \* the loop counters; c = runtimes * i + j
    idx,        \* the number read from the file
    conf,       \* scratch/conf.txt, or Empty
    rows,       \* scratch/data.csv: rows per experiment [idx, k]
    launched,   \* how often each experiment was started
    crashes, torn   \* how often the driver died, and how often with the file empty

vars == <<pc, c, k, idx, conf, rows, launched, crashes, torn>>

Total == testnum * runtimes
Empty == [idx |-> -1, k |-> -1]
Line(i, d) == [idx |-> i, k |-> d]

\* The file in the repository: experiment 0, with the last distance.
Init ==
    /\ pc = "read" /\ c = 0 /\ k = firstK /\ idx = -1
    /\ conf = Line(0, firstK + steplen * (testnum - 1))
    /\ rows = [e \in 0 .. Total - 1 |-> 0] /\ launched = rows
    /\ crashes = 0 /\ torn = 0

ReadConf_Strict ==
    /\ pc = "read"
    /\ IF conf = Empty THEN pc' = "raised" /\ UNCHANGED idx
       ELSE idx' = conf.idx /\ pc' = IF c > conf.idx THEN "open" ELSE "next"
    /\ UNCHANGED <<c, k, conf, rows, launched, crashes, torn>>

\* int(readline().split('=')[1]) raises on an empty file.
ReadConf ==
    /\ pc = "read"
    /\ IF conf = Empty THEN pc' = "raised" /\ UNCHANGED idx
       ELSE idx' = conf.idx /\ pc' = IF c >= conf.idx THEN "open" ELSE "next"
    /\ UNCHANGED <<c, k, conf, rows, launched, crashes, torn>>

OpenFor(from, to) ==
    /\ pc = from /\ pc' = to
    /\ conf' = Empty
    /\ UNCHANGED <<c, k, idx, rows, launched, crashes, torn>>

CloseWith(from, to, line) ==
    /\ pc = from /\ pc' = to
    /\ conf' = line
    /\ UNCHANGED <<c, k, idx, rows, launched, crashes, torn>>

OpenConf == OpenFor("open", "write")
WriteConf == CloseWith("write", "run", Line(idx, k))
OpenNext == OpenFor("save", "close")
WriteNext_Stay == CloseWith("close", "next", Line(idx, k))
WriteNext == CloseWith("close", "next", Line(idx + 1, k))
OpenReset == OpenFor("reset", "last")
WriteReset == CloseWith("last", "end", Line(0, firstK + steplen))

\* os.system waits for the simulation and ignores its status; a simulation that
\* reaches its end appends a row.
RunSimulation(succeeds) ==
    /\ pc = "run" /\ pc' = "save"
    /\ launched' = [launched EXCEPT ![conf.idx] = @ + 1]
    /\ rows' = IF succeeds THEN [rows EXCEPT ![conf.idx] = @ + 1] ELSE rows
    /\ UNCHANGED <<c, k, idx, conf, crashes, torn>>

NextExperiment_Late ==
    /\ pc = "next"
    /\ c' = c + 1
    /\ k' = IF c % runtimes = 0 THEN k + steplen ELSE k
    /\ pc' = IF c' = Total THEN "reset" ELSE "read"
    /\ UNCHANGED <<idx, conf, rows, launched, crashes, torn>>

\* The ends of the two loops.
NextExperiment ==
    /\ pc = "next"
    /\ c' = c + 1
    /\ k' = IF c' % runtimes = 0 THEN k + steplen ELSE k
    /\ pc' = IF c' = Total THEN "reset" ELSE "read"
    /\ UNCHANGED <<idx, conf, rows, launched, crashes, torn>>

\* The driver, or the machine, dies and the script is started again.  Killed
\* while it waits, the simulation may or may not have written its row.
Restart ==
    /\ pc' = "read" /\ c' = 0 /\ k' = firstK /\ idx' = -1
    /\ crashes' = crashes + 1
    /\ torn' = IF conf = Empty THEN torn + 1 ELSE torn
    /\ UNCHANGED conf

Crash ==
    /\ pc \notin {"raised", "end"} /\ crashes < MaxCrashes
    /\ Restart
    /\ UNCHANGED <<rows, launched>>

CrashInRun(succeeds) ==
    /\ pc = "run" /\ crashes < MaxCrashes
    /\ Restart
    /\ launched' = [launched EXCEPT ![conf.idx] = @ + 1]
    /\ rows' = IF succeeds THEN [rows EXCEPT ![conf.idx] = @ + 1] ELSE rows

Steps ==
    \/ ReadConf \/ OpenConf \/ WriteConf \/ (\E ok \in BOOLEAN : RunSimulation(ok))
    \/ OpenNext \/ WriteNext \/ NextExperiment \/ OpenReset \/ WriteReset

Next == Steps \/ Crash \/ (\E ok \in BOOLEAN : CrashInRun(ok))

\* The script runs until it ends; whether it crashes is not assumed.
Spec == Init /\ [][Next]_vars /\ WF_vars(Steps)

-------------------------------------------------------------------------------
(* Properties *)

\* An experiment is run with the parameters its number stands for, however often
\* the driver was restarted before it: idx seeds the simulation, and every
\* distance gets the same runtimes numbers.
ParametersMatchNumber ==
    pc = "run" => conf = Line(c, firstK + steplen * (c \div runtimes))

\* No experiment is left out: all below the number in the file were started.
NoneSkipped ==
    pc \notin {"last", "end"} => \A e \in 0 .. conf.idx - 1 : launched[e] > 0

\* The rows that experiments have beyond their first.
RepeatedRows == UNION {{e} \X (2 .. rows[e]) : e \in DOMAIN rows}

\* Only a crash makes an experiment run again: the rows beyond one per
\* experiment, which distort its average, are no more than the crashes.
RepeatsAreCrashes == Cardinality(RepeatedRows) <= crashes

\* The driver gets through all experiments unless a crash left the file empty:
\* then every later start fails on it.
BatchEnds ==
    <>(\/ pc = "end" /\ \A e \in DOMAIN launched : launched[e] > 0
       \/ pc = "raised" /\ torn > 0)

==============================================================================
