-------------------------- MODULE TestRunnerProofs --------------------------
(***************************************************************************)
(* The runner's summary and the directories it leaves are right for any     *)
(* number of tests, any limit and any order of what happens.                *)
(***************************************************************************)
EXTENDS TestRunner, FiniteSetTheorems, TLAPS

Passed == {t \in Test : test[t] = "over" /\ verdict[t] = "pass"}
Failed == {t \in Test : test[t] = "over" /\ verdict[t] = "fail"}
Unfinished == {t \in Test : test[t] # "over"}
Holding == {t \in Test : test[t] \notin {"idle", "new", "over"}}

Where == {"idle", "new", "generating", "generated", "running", "exited", "comparing", "compared", "over"}

ShapeInv == /\ test \in [Test -> Where] /\ verdict \in [Test -> {"none", "pass", "fail"}]
            /\ started \in 0 .. COUNT
            /\ main \in {"pull", "poll", "select", "parked", "exit", "panic"}

FlagsInv == fail_fast \in BOOLEAN /\ progress \in BOOLEAN /\ canceled \in BOOLEAN /\ signal \in BOOLEAN

\* The tests taken from the stream are the first ones; a verdict is there once a test is compared.
PlaceInv == \A t \in Test : /\ test[t] = "idle" <=> t > started
                            /\ verdict[t] = "none" <=> test[t] \notin {"compared", "over"}

CountInv == success = Cardinality(Passed) /\ failure = Cardinality(Failed)

\* A test holds a directory from its first step on; a failed one never lets it go.
DirsInv == dirs = Failed \cup (IF Stopped THEN {} ELSE Holding)

ExitInv == /\ canceled => fail_fast
           /\ main = "exit" => /\ report = <<success, failure, COUNT - success - failure>>
                               /\ Unfinished = {} \/ canceled \/ signal

RunnerInv == ShapeInv /\ FlagsInv /\ PlaceInv /\ CountInv /\ DirsInv /\ ExitInv
-----------------------------------------------------------------------------
(* Sets of tests. *)

LEMMA CountType == COUNT \in Nat
BY RunnerAssumption

LEMMA TestsFinite ==
  ASSUME NEW S \in SUBSET Test
  PROVE  IsFiniteSet(S) /\ Cardinality(S) \in 0 .. COUNT
<1>1. IsFiniteSet(Test) /\ Cardinality(Test) = COUNT
  <2>1. COUNT \in Int /\ COUNT >= 0
    BY CountType
  <2> QED BY <2>1, FS_Interval DEF Test
<1>2. IsFiniteSet(S) /\ Cardinality(S) <= Cardinality(Test)
  BY <1>1, FS_Subset
<1>3. Cardinality(S) \in Nat
  BY <1>2, FS_CardinalityType
<1> QED BY <1>1, <1>2, <1>3, CountType

\* The three counts of the summary add up, because every verdict is a pass or a fail.
LEMMA CountsAddUp ==
  ASSUME ShapeInv, PlaceInv
  PROVE  Cardinality(Unfinished) = COUNT - Cardinality(Passed) - Cardinality(Failed)
<1>1. /\ Passed \in SUBSET Test /\ Failed \in SUBSET Test /\ Unfinished \in SUBSET Test
      /\ Passed \cup Failed \in SUBSET Test
  BY DEF Passed, Failed, Unfinished
<1>2. Passed \cap Failed = {} /\ (Passed \cup Failed) \cap Unfinished = {}
  BY DEF Passed, Failed, Unfinished
<1>3. (Passed \cup Failed) \cup Unfinished = Test
  BY DEF Passed, Failed, Unfinished, ShapeInv, PlaceInv
<1>4. Cardinality({}) = 0
  BY FS_EmptySet
<1>5. /\ IsFiniteSet(Passed) /\ IsFiniteSet(Failed) /\ IsFiniteSet(Unfinished)
      /\ IsFiniteSet(Passed \cup Failed)
      /\ Cardinality(Passed) \in Nat /\ Cardinality(Failed) \in Nat /\ Cardinality(Unfinished) \in Nat
  BY <1>1, TestsFinite
<1>6. Cardinality(Passed \cup Failed) = Cardinality(Passed) + Cardinality(Failed) - Cardinality(Passed \cap Failed)
  BY <1>5, FS_Union
<1>7. Cardinality(Test) = Cardinality(Passed \cup Failed) + Cardinality(Unfinished)
                          - Cardinality((Passed \cup Failed) \cap Unfinished)
  BY <1>3, <1>5, FS_Union
<1>8. Cardinality(Test) = COUNT
  <2>1. COUNT \in Int /\ COUNT >= 0
    BY CountType
  <2> QED BY <2>1, FS_Interval DEF Test
<1>9. Cardinality(Passed \cap Failed) = 0 /\ Cardinality((Passed \cup Failed) \cap Unfinished) = 0
  BY <1>2, <1>4
<1> QED BY <1>5, <1>6, <1>7, <1>8, <1>9, CountType
-----------------------------------------------------------------------------
(* The steps. *)

LEMMA InitRunner == ASSUME Init PROVE RunnerInv
<1>0. FlagsInv
  BY RunnerAssumption DEF Init, FlagsInv
<1>1. ShapeInv
  BY CountType DEF Init, ShapeInv, Where
<1>5. PlaceInv
  BY CountType DEF Init, PlaceInv, Test
<1>2. Passed = {} /\ Failed = {} /\ Holding = {}
  BY DEF Init, Passed, Failed, Holding
<1>3. CountInv
  BY <1>2, FS_EmptySet DEF Init, CountInv
<1>4. DirsInv /\ ExitInv
  BY <1>2 DEF Init, DirsInv, ExitInv
<1> QED BY <1>0, <1>1, <1>3, <1>4, <1>5 DEF RunnerInv

\* A step that ends no test changes no count.
LEMMA SameCounts ==
  ASSUME CountInv, UNCHANGED <<success, failure>>,
         \A t \in Test : /\ test'[t] = "over" <=> test[t] = "over"
                         /\ test[t] = "over" => verdict'[t] = verdict[t]
  PROVE  Passed' = Passed /\ Failed' = Failed /\ Unfinished' = Unfinished /\ CountInv'
<1>1. Passed' = Passed /\ Failed' = Failed /\ Unfinished' = Unfinished
  BY DEF Passed, Failed, Unfinished, Test
<1> QED BY <1>1 DEF CountInv

LEMMA PullStep == ASSUME RunnerInv, Pull, UNCHANGED options PROVE RunnerInv'
<1> USE DEF RunnerInv
<1>1. FlagsInv'
  BY DEF FlagsInv, Pull, options
<1>2. CASE started' = started + 1 /\ started < COUNT /\ test' = [test EXCEPT ![started + 1] = "new"]
  <2>1. started + 1 \in Test /\ test[started + 1] = "idle" /\ started \in Nat
    BY CountType, <1>2 DEF ShapeInv, PlaceInv, Test
  <2>2. \A t \in Test : test'[t] = IF t = started + 1 THEN "new" ELSE test[t]
    BY <1>2, <2>1 DEF ShapeInv
  <2>3. ShapeInv'
    BY CountType, <1>2, <2>1 DEF ShapeInv, Pull, Where
  <2>4. PlaceInv'
    BY <1>2, <2>1, <2>2 DEF ShapeInv, PlaceInv, Pull, Test
  <2>5. Passed' = Passed /\ Failed' = Failed /\ Unfinished' = Unfinished /\ CountInv'
    BY <2>1, <2>2, SameCounts DEF Pull
  <2>6. Holding' = Holding
    BY <2>1, <2>2 DEF Holding
  <2>7. DirsInv' /\ ExitInv'
    BY <2>5, <2>6 DEF DirsInv, ExitInv, Pull, Stopped, options
  <2> QED BY <1>1, <2>3, <2>4, <2>5, <2>7
<1>3. CASE UNCHANGED <<started, test, progress>>
  <2>1. ShapeInv' /\ PlaceInv'
    BY <1>3 DEF ShapeInv, PlaceInv, Pull
  <2>2. Passed' = Passed /\ Failed' = Failed /\ Unfinished' = Unfinished /\ CountInv' /\ Holding' = Holding
    BY <1>3, SameCounts DEF Pull, Holding
  <2>3. DirsInv' /\ ExitInv'
    BY <2>2 DEF DirsInv, ExitInv, Pull, Stopped, options
  <2> QED BY <1>1, <2>1, <2>2, <2>3
<1> QED BY <1>2, <1>3 DEF Pull

LEMMA ContinueStep == ASSUME RunnerInv, UNCHANGED options, NEW t \in Test, Continue(t) PROVE RunnerInv'
<1> USE DEF RunnerInv
<1>1. test[t] \in {"new", "generated", "exited"} /\ test'[t] \in {"generating", "running", "comparing"}
  BY DEF Continue, ShapeInv
<1>2. \A u \in Test \ {t} : test'[u] = test[u]
  BY DEF Continue, ShapeInv
<1>3. ShapeInv' /\ FlagsInv'
  <2>1. FlagsInv'
    BY DEF Continue, FlagsInv, options
  <2>2. test' \in [Test -> Where]
    BY <1>1 DEF Continue, ShapeInv, Where
  <2> QED BY <2>1, <2>2 DEF Continue, ShapeInv
<1>4. PlaceInv'
  BY <1>1, <1>2 DEF Continue, PlaceInv, Test
<1>5. Passed' = Passed /\ Failed' = Failed /\ Unfinished' = Unfinished /\ CountInv'
  BY <1>1, <1>2, SameCounts DEF Continue
<1>6. Holding' = Holding \cup {t}
  BY <1>1, <1>2 DEF Holding, Test
<1>7. dirs' = dirs \cup {t}
  <2>1. ~Stopped
    BY DEF Continue, Stopped
  <2>2. CASE test[t] = "new"
    BY <2>2 DEF Continue
  <2>3. CASE test[t] # "new"
    BY <1>1, <2>1, <2>3 DEF Continue, DirsInv, Holding
  <2> QED BY <2>2, <2>3
<1>8. DirsInv'
  BY <1>5, <1>6, <1>7 DEF DirsInv, Continue, Stopped
<1>9. ExitInv'
  BY DEF ExitInv, Continue, options
<1> QED BY <1>3, <1>4, <1>5, <1>8, <1>9

LEMMA FinishStep == ASSUME RunnerInv, UNCHANGED options, NEW t \in Test, Finish(t) PROVE RunnerInv'
<1> USE DEF RunnerInv
<1>1. /\ test[t] = "compared" /\ test'[t] = "over"
      /\ verdict[t] \in {"pass", "fail"} /\ verdict' = verdict
  BY DEF Finish, Over, ShapeInv, PlaceInv
<1>2. \A u \in Test \ {t} : test'[u] = test[u]
  BY DEF Finish, Over, ShapeInv
<1>3. ShapeInv'
  BY DEF Finish, Over, ShapeInv, Where
<1>4. FlagsInv'
  BY DEF Finish, Over, FlagsInv, options
<1>5. PlaceInv'
  BY <1>1, <1>2 DEF Finish, Over, PlaceInv, Test
<1>6. Holding' = Holding \ {t}
  BY <1>1, <1>2 DEF Holding, Test
<1>7. ~Stopped /\ ~Stopped' /\ main' = "pull"
  BY DEF Finish, Over, Stopped
<1>8. /\ Passed \in SUBSET Test /\ Failed \in SUBSET Test
      /\ t \notin Passed /\ t \notin Failed /\ t \in Holding
  BY <1>1 DEF Passed, Failed, Holding
<1>9. IsFiniteSet(Passed) /\ IsFiniteSet(Failed)
  BY <1>8, TestsFinite
<1>10. CASE verdict[t] = "pass"
  <2>1. Passed' = Passed \cup {t} /\ Failed' = Failed
    BY <1>1, <1>2, <1>10 DEF Passed, Failed, Test
  <2>2. success' = success + 1 /\ dirs' = dirs \ {t} /\ UNCHANGED <<failure, canceled, report>>
    BY <1>10 DEF Finish, Over
  <2>3. CountInv'
    BY <1>8, <1>9, <2>1, <2>2, FS_AddElement DEF CountInv
  <2>4. DirsInv'
    BY <1>6, <1>7, <1>8, <2>1, <2>2 DEF DirsInv
  <2>5. ExitInv'
    BY <1>7, <2>2 DEF ExitInv, options
  <2> QED BY <1>3, <1>4, <1>5, <2>3, <2>4, <2>5
<1>11. CASE verdict[t] = "fail"
  <2>1. Passed' = Passed /\ Failed' = Failed \cup {t}
    BY <1>1, <1>2, <1>11 DEF Passed, Failed, Test
  <2>2. failure' = failure + 1 /\ UNCHANGED <<success, dirs, report>>
    BY <1>11 DEF Finish, Over
  <2>3. CountInv'
    BY <1>8, <1>9, <2>1, <2>2, FS_AddElement DEF CountInv
  <2>4. DirsInv'
    BY <1>6, <1>7, <1>8, <2>1, <2>2 DEF DirsInv
  <2>5. ExitInv'
    BY <1>7, <1>11 DEF ExitInv, Finish, options
  <2> QED BY <1>3, <1>4, <1>5, <2>3, <2>4, <2>5
<1> QED BY <1>1, <1>10, <1>11

\* Leaving drops the tests in flight: what is left of dirs are the failed ones.
LEMMA Dropped ==
  ASSUME ShapeInv, DirsInv, ~Stopped
  PROVE  dirs \ InFlight = Failed
BY DEF DirsInv, Holding, Failed, InFlight

LEMMA PanicStep == ASSUME RunnerInv, UNCHANGED options, NEW t \in Test, Panic(t) PROVE RunnerInv'
<1> USE DEF RunnerInv
<1>1. ShapeInv' /\ PlaceInv'
  BY DEF Panic, ShapeInv, PlaceInv
<1>2. FlagsInv'
  BY DEF Panic, FlagsInv, options
<1>3. Passed' = Passed /\ Failed' = Failed /\ Unfinished' = Unfinished /\ CountInv'
  BY SameCounts DEF Panic
<1>4. DirsInv'
  BY <1>3, Dropped DEF Panic, DirsInv, Stopped
<1>5. ExitInv'
  BY DEF Panic, ExitInv, options
<1> QED BY <1>1, <1>2, <1>3, <1>4, <1>5

\* The main task leaves when all tests are over or somebody wants it to.
LEMMA ExitStep ==
  ASSUME RunnerInv, UNCHANGED options, ~Stopped, Exit, Unfinished = {} \/ canceled \/ signal,
         UNCHANGED <<test, verdict, started, success, failure, canceled, signal>>, progress' \in BOOLEAN
  PROVE  RunnerInv'
<1> USE DEF RunnerInv
<1>1. ShapeInv' /\ PlaceInv'
  BY DEF Exit, ShapeInv, PlaceInv
<1>2. FlagsInv'
  BY DEF FlagsInv, options
<1>3. Passed' = Passed /\ Failed' = Failed /\ Unfinished' = Unfinished /\ CountInv'
  BY SameCounts
<1>4. DirsInv'
  BY <1>3, Dropped DEF Exit, DirsInv, Stopped
<1>5. ExitInv'
  BY <1>3 DEF Exit, ExitInv, options
<1> QED BY <1>1, <1>2, <1>3, <1>4, <1>5

\* Steps that only move the main task from one place of its loop to another.
LEMMA MainMoves ==
  ASSUME RunnerInv, UNCHANGED options, ~Stopped, main' \in {"pull", "select", "parked"}, progress' \in BOOLEAN,
         UNCHANGED <<test, verdict, started, success, failure, canceled, signal, dirs, report>>
  PROVE  RunnerInv'
<1> USE DEF RunnerInv
<1>1. ShapeInv' /\ PlaceInv'
  BY DEF ShapeInv, PlaceInv
<1>2. FlagsInv'
  BY DEF FlagsInv, options
<1>3. Failed' = Failed /\ Holding' = Holding /\ CountInv'
  BY SameCounts DEF Holding
<1>4. DirsInv'
  BY <1>3 DEF DirsInv, Stopped
<1>5. ExitInv'
  BY DEF ExitInv, options
<1> QED BY <1>1, <1>2, <1>3, <1>4, <1>5

LEMMA PollDoneStep == ASSUME RunnerInv, UNCHANGED options, PollDone PROVE RunnerInv'
<1>1. ~Stopped /\ progress \in BOOLEAN
  BY DEF PollDone, Stopped, RunnerInv, FlagsInv
<1>2. CASE InFlight = {} /\ started = COUNT
  <2>1. Unfinished = {}
    BY <1>2, CountType DEF InFlight, Unfinished, RunnerInv, ShapeInv, PlaceInv, Test
  <2>2. Exit /\ progress' = progress /\ UNCHANGED <<test, verdict, started, success, failure, canceled, signal>>
    BY <1>2 DEF PollDone
  <2> QED BY <1>1, <2>1, <2>2, ExitStep
<1>3. CASE ~(InFlight = {} /\ started = COUNT)
  <2>1. /\ main' \in {"pull", "select"} /\ progress' = FALSE
        /\ UNCHANGED <<test, verdict, started, success, failure, canceled, signal, dirs, report>>
    BY <1>3 DEF PollDone
  <2> QED BY <1>1, <2>1, MainMoves
<1> QED BY <1>2, <1>3

LEMMA SelectStep == ASSUME RunnerInv, UNCHANGED options, Select PROVE RunnerInv'
<1>1. ~Stopped /\ progress \in BOOLEAN
  BY DEF Select, Stopped, RunnerInv, FlagsInv
<1>2. CASE canceled \/ signal
  BY <1>1, <1>2, ExitStep DEF Select
<1>3. CASE ~(canceled \/ signal)
  BY <1>1, <1>3, MainMoves DEF Select
<1> QED BY <1>2, <1>3

LEMMA WakeStep == ASSUME RunnerInv, UNCHANGED options, Wake PROVE RunnerInv'
<1>1. ~Stopped /\ progress \in BOOLEAN
  BY DEF Wake, Stopped, RunnerInv, FlagsInv
<1> QED BY <1>1, MainMoves DEF Wake

LEMMA SignalStep == ASSUME RunnerInv, UNCHANGED options, Signal PROVE RunnerInv'
<1> USE DEF RunnerInv
<1>1. ShapeInv' /\ PlaceInv'
  BY DEF Signal, ShapeInv, PlaceInv
<1>2. FlagsInv'
  BY DEF Signal, FlagsInv, options
<1>3. Failed' = Failed /\ Holding' = Holding /\ CountInv'
  BY SameCounts DEF Signal, Holding
<1>4. DirsInv'
  BY <1>3 DEF Signal, DirsInv, Stopped
<1>5. ExitInv'
  BY DEF Signal, ExitInv, options, Stopped
<1> QED BY <1>1, <1>2, <1>3, <1>4, <1>5

\* What happens outside moves a test between two states in which it holds its directory.
LEMMA OutsideStep == ASSUME RunnerInv, UNCHANGED options, NEW t \in Test, Outside(t) PROVE RunnerInv'
<1> USE DEF RunnerInv
<1>1. /\ test[t] \in {"generating", "running", "comparing"} /\ test'[t] \in {"generated", "exited", "compared"}
      /\ ~Stopped /\ UNCHANGED <<started, main, progress, success, failure, canceled, signal, dirs, report>>
      /\ test' = [test EXCEPT ![t] = test'[t]]
  BY DEF Outside, Generated, Exited, Compared, Advance, ShapeInv
<1>2. \A u \in Test \ {t} : test'[u] = test[u]
  BY <1>1 DEF ShapeInv
<1>3. \/ test'[t] \in {"generated", "exited"} /\ verdict' = verdict
      \/ /\ test'[t] = "compared" /\ test[t] = "comparing"
         /\ \E v \in {"pass", "fail"} : verdict' = [verdict EXCEPT ![t] = v]
  BY DEF Outside, Generated, Exited, Compared, Advance, ShapeInv
<1>4. /\ \A u \in Test \ {t} : verdict'[u] = verdict[u]
      /\ verdict' \in [Test -> {"none", "pass", "fail"}]
      /\ verdict'[t] = "none" <=> test'[t] # "compared"
  BY <1>1, <1>3 DEF ShapeInv, PlaceInv
<1>5. ShapeInv'
  BY <1>1, <1>4 DEF ShapeInv, Where
<1>6. FlagsInv'
  BY <1>1 DEF FlagsInv, options
<1>7. PlaceInv'
  BY <1>1, <1>2, <1>4 DEF PlaceInv, Test
<1>8. Passed' = Passed /\ Failed' = Failed /\ Unfinished' = Unfinished /\ CountInv'
  BY <1>1, <1>2, <1>4, SameCounts
<1>9. Holding' = Holding
  BY <1>1, <1>2 DEF Holding, Test
<1>10. DirsInv'
  BY <1>1, <1>8, <1>9 DEF DirsInv, Stopped
<1>11. ExitInv'
  BY <1>1 DEF ExitInv, options, Stopped
<1> QED BY <1>5, <1>6, <1>7, <1>8, <1>10, <1>11

LEMMA StepRunner == ASSUME RunnerInv, [Next]_vars PROVE RunnerInv'
<1>1. CASE UNCHANGED vars
  <2>1. UNCHANGED <<test, verdict, started, fail_fast, main, progress, canceled, signal>>
    BY <1>1 DEF vars, options
  <2>2. UNCHANGED <<success, failure, dirs, report>>
    BY <1>1 DEF vars
  <2>3. ShapeInv' /\ FlagsInv' /\ PlaceInv'
    BY <2>1 DEF RunnerInv, ShapeInv, FlagsInv, PlaceInv
  <2>4. Passed' = Passed /\ Failed' = Failed /\ Unfinished' = Unfinished /\ Holding' = Holding
    BY <2>1 DEF Passed, Failed, Unfinished, Holding
  <2>5. CountInv' /\ DirsInv' /\ ExitInv'
    BY <2>1, <2>2, <2>4 DEF RunnerInv, CountInv, DirsInv, ExitInv, Stopped
  <2> QED BY <2>3, <2>5 DEF RunnerInv
<1>2. CASE Next
  <2>1. UNCHANGED options
    BY <1>2 DEF Next
  <2>2. CASE Pull
    BY <2>1, <2>2, PullStep
  <2>3. CASE PollDone
    BY <2>1, <2>3, PollDoneStep
  <2>4. CASE Select
    BY <2>1, <2>4, SelectStep
  <2>5. CASE Wake
    BY <2>1, <2>5, WakeStep
  <2>6. ASSUME NEW t \in Test, Continue(t) PROVE RunnerInv'
    BY <2>1, <2>6, ContinueStep
  <2>7. ASSUME NEW t \in Test, Finish(t) PROVE RunnerInv'
    BY <2>1, <2>7, FinishStep
  <2>8. CASE Signal
    BY <2>1, <2>8, SignalStep
  <2>9. ASSUME NEW t \in Test, Panic(t) PROVE RunnerInv'
    BY <2>1, <2>9, PanicStep
  <2>10. ASSUME NEW t \in Test, Outside(t) PROVE RunnerInv'
    BY <2>1, <2>10, OutsideStep
  <2> QED BY <1>2, <2>2, <2>3, <2>4, <2>5, <2>6, <2>7, <2>8, <2>9, <2>10 DEF Next, MainTask
<1> QED BY <1>1, <1>2
-----------------------------------------------------------------------------
(* Theorems. *)

\* The invariant behind them all: the main task's counters, the directories and the report
\* always agree with how far the tests are.
THEOREM RunnerInvariant == Spec => []RunnerInv
<1>1. Init => RunnerInv
  BY InitRunner
<1>2. RunnerInv /\ [Next]_vars => RunnerInv'
  BY StepRunner
<1> QED BY <1>1, <1>2, PTL DEF Spec

\* Type correctness of the runner (main.rs:157-318); its counters never exceed --count.
THEOREM RunnerTypeCorrect == Spec => []TypeOK
<1>1. RunnerInv => TypeOK
  <2> SUFFICES ASSUME RunnerInv PROVE TypeOK
    OBVIOUS
  <2>1. Passed \in SUBSET Test /\ Failed \in SUBSET Test /\ Holding \in SUBSET Test
    BY DEF Passed, Failed, Holding
  <2>2. success \in 0 .. COUNT /\ failure \in 0 .. COUNT
    BY <2>1, TestsFinite DEF RunnerInv, CountInv
  <2>3. dirs \subseteq Test
    BY <2>1 DEF RunnerInv, DirsInv
  <2>4. {progress, canceled, signal} \subseteq BOOLEAN
    BY DEF RunnerInv, FlagsInv
  <2> QED BY <2>2, <2>3, <2>4 DEF RunnerInv, ShapeInv, Where, TypeOK
<1> QED BY <1>1, RunnerInvariant, PTL

\* The summary accounts for every test exactly once, whatever ended the run
\* (main.rs:310-317): the difference it prints as canceled is the number of tests without
\* a verdict.
THEOREM AccountedHolds == Spec => []Accounted
<1>1. RunnerInv => Accounted
  <2> SUFFICES ASSUME RunnerInv, main = "exit"
               PROVE  report = <<Cardinality(Passed), Cardinality(Failed), Cardinality(Unfinished)>>
    BY DEF Accounted, Passed, Failed, Unfinished
  <2>1. Cardinality(Unfinished) = COUNT - success - failure
    BY CountsAddUp DEF RunnerInv, CountInv
  <2> QED BY <2>1 DEF RunnerInv, CountInv, ExitInv
<1> QED BY <1>1, RunnerInvariant, PTL

\* However the run ends, the directories left are those of the failed tests
\* (main.rs:279-280).
THEOREM EvidenceKeptHolds == Spec => []EvidenceKept
<1>1. RunnerInv => EvidenceKept
  BY DEF RunnerInv, DirsInv, EvidenceKept, Failed
<1> QED BY <1>1, RunnerInvariant, PTL

\* A run that nobody cancels gives every test its verdict (main.rs:157-170).
THEOREM NoneSkippedHolds == Spec => []NoneSkipped
<1>1. RunnerInv => NoneSkipped
  BY DEF RunnerInv, ExitInv, NoneSkipped, Unfinished
<1> QED BY <1>1, RunnerInvariant, PTL
=============================================================================
