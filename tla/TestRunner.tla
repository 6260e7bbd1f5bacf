----------------------------- MODULE TestRunner -----------------------------
(***************************************************************************)
(* The co-tester's `test' command (co-tester/src/main.rs): tests run as     *)
(* futures of one task, at most THREADS at a time, next to a cancellation   *)
(* channel and the process's signals.  The generator and the comparison of  *)
(* a test run on blocking threads and its subject is a child process; they  *)
(* finish on their own, and the main task sees it when it polls the test.   *)
(* A step of the main task is one step of a poll of for_each_concurrent or  *)
(* of select_all; the task gives way only between polls.                    *)
(***************************************************************************)
EXTENDS Naturals, FiniteSets

CONSTANTS COUNT,       \* number of tests: --count
          THREADS,     \* limits of tests in flight, 0 for none: --threads
          FAIL_FAST,   \* whether there may be --fail-fast
          HANGS,       \* sets of tests whose subject never exits
          SIGNALS      \* whether SIGHUP, SIGINT or SIGTERM may arrive

Test == 1 .. COUNT

ASSUME RunnerAssumption == /\ COUNT \in Nat /\ THREADS \subseteq Nat /\ HANGS \subseteq SUBSET Test
                           /\ FAIL_FAST \subseteq BOOLEAN /\ SIGNALS \in BOOLEAN

VARIABLES
  threads, fail_fast,   \* the options of this run
  hangs,      \* the tests of this run whose subject never exits
  test,       \* how far each test is
  verdict,    \* the result its comparison found
  started,    \* tests taken from the stream
  main,       \* what the main task is doing
  progress,   \* made_progress_this_iter of for_each_concurrent
  success,    \* success_count
  failure,    \* failure_count
  canceled,   \* cancel_tx has been used
  signal,     \* a signal has arrived
  dirs,       \* tests whose temporary directory exists
  report      \* the counts printed at the end

options == <<threads, fail_fast, hangs>>
vars == <<options, test, verdict, started, main, progress, success, failure, canceled, signal, dirs, report>>

Stopped == main \in {"exit", "panic"}
InFlight == {t \in Test : test[t] \notin {"idle", "over"}}
Ready == {t \in Test : test[t] \in {"new", "generated", "exited", "compared"}}

Init ==
  /\ threads \in THREADS /\ fail_fast \in FAIL_FAST /\ hangs \in HANGS
  /\ test = [t \in Test |-> "idle"] /\ verdict = [t \in Test |-> "none"]
  /\ started = 0 /\ main = "pull" /\ progress = FALSE
  /\ success = 0 /\ failure = 0 /\ canceled = FALSE /\ signal = FALSE
  /\ dirs = {} /\ report = <<>>
-----------------------------------------------------------------------------
(* The main task: each iteration takes at most one test from the stream,     *)
(* then polls the ones that can go on until one of them is over.             *)

\* Faults: one test more than asked for; a test that is over keeps its place.
PullPast ==
  /\ main = "pull" /\ main' = "poll"
  /\ IF started <= COUNT /\ (threads = 0 \/ Cardinality(InFlight) < threads)
     THEN started' = started + 1 /\ test' = [test EXCEPT ![started + 1] = "new"] /\ progress' = TRUE
     ELSE UNCHANGED <<started, test, progress>>
  /\ UNCHANGED <<verdict, success, failure, canceled, signal, dirs, report>>
PullLeaky ==
  /\ main = "pull" /\ main' = "poll"
  /\ IF started < COUNT /\ (threads = 0 \/ started < threads)
     THEN started' = started + 1 /\ test' = [test EXCEPT ![started + 1] = "new"] /\ progress' = TRUE
     ELSE UNCHANGED <<started, test, progress>>
  /\ UNCHANGED <<verdict, success, failure, canceled, signal, dirs, report>>

Pull ==
  /\ main = "pull" /\ main' = "poll"
  /\ IF started < COUNT /\ (threads = 0 \/ Cardinality(InFlight) < threads)
     THEN started' = started + 1 /\ test' = [test EXCEPT ![started + 1] = "new"] /\ progress' = TRUE
     ELSE UNCHANGED <<started, test, progress>>
  /\ UNCHANGED <<verdict, success, failure, canceled, signal, dirs, report>>

\* Polling a test that can go on takes it to its next await.
Continue(t) ==
  /\ main = "poll" /\ test[t] \in {"new", "generated", "exited"}
  /\ test' = [test EXCEPT ![t] = CASE @ = "new" -> "generating" [] @ = "generated" -> "running"
                                   [] @ = "exited" -> "comparing"]
  /\ dirs' = IF test[t] = "new" THEN dirs \cup {t} ELSE dirs
  /\ UNCHANGED <<verdict, started, main, progress, success, failure, canceled, signal, report>>

\* Polling a test whose comparison is done ends it.
Over(t) ==
  /\ main = "poll" /\ test[t] = "compared"
  /\ test' = [test EXCEPT ![t] = "over"] /\ main' = "pull" /\ progress' = FALSE
  /\ UNCHANGED <<verdict, started, signal, report>>

\* Faults: a directory is removed whatever the verdict is; a failure that cancels the run
\* is not counted; nobody is told of a failure; every failure cancels the run.
FinishForgetful(t) ==
  /\ Over(t) /\ dirs' = dirs \ {t}
  /\ IF verdict[t] = "pass"
     THEN success' = success + 1 /\ UNCHANGED <<failure, canceled>>
     ELSE failure' = failure + 1 /\ canceled' = (canceled \/ fail_fast) /\ UNCHANGED success
FinishUncounted(t) ==
  /\ Over(t)
  /\ IF verdict[t] = "pass"
     THEN success' = success + 1 /\ dirs' = dirs \ {t} /\ UNCHANGED <<failure, canceled>>
     ELSE /\ canceled' = (canceled \/ fail_fast) /\ UNCHANGED <<success, dirs>>
          /\ failure' = IF fail_fast THEN failure ELSE failure + 1
FinishSilent(t) ==
  /\ Over(t) /\ UNCHANGED canceled
  /\ IF verdict[t] = "pass"
     THEN success' = success + 1 /\ dirs' = dirs \ {t} /\ UNCHANGED failure
     ELSE failure' = failure + 1 /\ UNCHANGED <<success, dirs>>
FinishCanceling(t) ==
  /\ Over(t)
  /\ IF verdict[t] = "pass"
     THEN success' = success + 1 /\ dirs' = dirs \ {t} /\ UNCHANGED <<failure, canceled>>
     ELSE failure' = failure + 1 /\ canceled' = TRUE /\ UNCHANGED <<success, dirs>>

\* A failed test keeps its directory, is counted, and cancels the run under --fail-fast.
Finish(t) ==
  /\ Over(t)
  /\ IF verdict[t] = "pass"
     THEN success' = success + 1 /\ dirs' = dirs \ {t} /\ UNCHANGED <<failure, canceled>>
     ELSE failure' = failure + 1 /\ canceled' = (canceled \/ fail_fast) /\ UNCHANGED <<success, dirs>>

\* A failed unwrap of an I/O result ends the program; unwinding removes the directories in use.
Panic(t) ==
  /\ main = "poll" /\ t \in Ready
  /\ main' = "panic" /\ dirs' = dirs \ InFlight
  /\ UNCHANGED <<test, verdict, started, progress, success, failure, canceled, signal, report>>

\* Leaving select_all drops the tests in flight, and their directories with them.
Exit == /\ main' = "exit" /\ dirs' = dirs \ InFlight
        /\ report' = <<success, failure, COUNT - success - failure>>

\* Nothing more to poll: the stream is done, or another iteration, or the other futures.
PollDone ==
  /\ main = "poll" /\ Ready = {}
  /\ IF InFlight = {} /\ started = COUNT THEN Exit /\ UNCHANGED progress
     ELSE /\ main' = IF progress THEN "pull" ELSE "select"
          /\ progress' = FALSE
          /\ UNCHANGED <<dirs, report>>
  /\ UNCHANGED <<test, verdict, started, success, failure, canceled, signal>>

\* select_all looks at the cancellation channel and the signals after the tests.
Select ==
  /\ main = "select"
  /\ IF canceled \/ signal THEN Exit ELSE main' = "parked" /\ UNCHANGED <<dirs, report>>
  /\ UNCHANGED <<test, verdict, started, progress, success, failure, canceled, signal>>

Wake ==
  /\ main = "parked" /\ (Ready # {} \/ signal)
  /\ main' = "pull"
  /\ UNCHANGED <<test, verdict, started, progress, success, failure, canceled, signal, dirs, report>>

MainTask == Pull \/ PollDone \/ Select \/ Wake \/ \E t \in Test : Continue(t) \/ Finish(t)
-----------------------------------------------------------------------------
(* What happens outside the main task. *)

Advance(t, from, to) == /\ ~Stopped /\ test[t] = from /\ test' = [test EXCEPT ![t] = to]
                        /\ UNCHANGED <<started, main, progress, success, failure, canceled, signal, dirs, report>>

Generated(t) == Advance(t, "generating", "generated") /\ UNCHANGED verdict
Exited(t)    == t \notin hangs /\ Advance(t, "running", "exited") /\ UNCHANGED verdict
Compared(t)  == /\ Advance(t, "comparing", "compared")
                /\ \E v \in {"pass", "fail"} : verdict' = [verdict EXCEPT ![t] = v]
Signal == /\ SIGNALS /\ ~Stopped /\ signal' = TRUE
          /\ UNCHANGED <<test, verdict, started, main, progress, success, failure, canceled, dirs, report>>

Outside(t) == Generated(t) \/ Exited(t) \/ Compared(t)

Next == /\ MainTask \/ Signal \/ \E t \in Test : Panic(t) \/ Outside(t)
        /\ UNCHANGED options

\* The runtime polls a task that was woken; a blocking task and a subject that does not
\* hang finish.
Fairness == WF_vars(MainTask /\ UNCHANGED options) /\ \A t \in Test : WF_vars(Outside(t) /\ UNCHANGED options)
Spec == Init /\ [][Next]_vars /\ Fairness
-----------------------------------------------------------------------------
(* Properties *)

TypeOK ==
  /\ test \in [Test -> {"idle", "new", "generating", "generated", "running", "exited", "comparing", "compared", "over"}]
  /\ verdict \in [Test -> {"none", "pass", "fail"}]
  /\ started \in 0 .. COUNT /\ success \in 0 .. COUNT /\ failure \in 0 .. COUNT
  /\ main \in {"pull", "poll", "select", "parked", "exit", "panic"}
  /\ {progress, canceled, signal} \subseteq BOOLEAN /\ dirs \subseteq Test

\* The summary accounts for every test: those that passed, those that failed, and as
\* canceled exactly those that never got a verdict out (main.rs:310-317).
Accounted ==
  main = "exit" =>
    report = <<Cardinality({t \in Test : test[t] = "over" /\ verdict[t] = "pass"}),
               Cardinality({t \in Test : test[t] = "over" /\ verdict[t] = "fail"}),
               Cardinality({t \in Test : test[t] # "over"})>>

\* However the run ends, the directories left behind are those of the failed tests, whose
\* paths were printed (main.rs:279-280), and of no others.
EvidenceKept == Stopped => dirs = {t \in Test : test[t] = "over" /\ verdict[t] = "fail"}

\* Without --fail-fast and signals every test gets its verdict.
NoneSkipped == main = "exit" /\ ~fail_fast /\ ~signal => \A t \in Test : test[t] = "over"

\* A failure under --fail-fast ends the run even when other subjects hang.
FailFastEnds == fail_fast /\ failure > 0 ~> Stopped

\* When every subject exits the run ends, with or without failures.
Terminates == hangs = {} ~> Stopped

\* What the help of --fail-fast promises: no test is started once one has failed.
StopsImmediately == [][fail_fast /\ failure > 0 => started' = started]_vars
=============================================================================
