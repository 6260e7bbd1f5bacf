------------------------------- MODULE Tester -------------------------------
(***************************************************************************)
(* One test of the co-tester (the async block of main.rs:170-277) around a  *)
(* CPU that a composing module supplies: the program is generated on the    *)
(* emulator, the CPU runs it (phase "run"), what it prints is compared, and *)
(* the test ends with a verdict.  The emulator's logs do not change while   *)
(* the CPU runs, so each line is compared as it is printed.                 *)
(***************************************************************************)
EXTENDS Generator, Comparator

VARIABLES phase,    \* generate, run, finish (the simulation is over) and stop
          cmp       \* the comparator

TestInit == GenInit /\ phase = "generate" /\ cmp = Start

GenerateOne == phase = "generate" /\ Generate /\ UNCHANGED <<phase, cmp>>

\* The files are written and the subject is started.
SubjectStarted == phase = "generate" /\ Generated /\ phase' = "run"

\* The lines the CPU prints at one clock edge; reading stops at the first wrong one.
Check(lines) == cmp' = FoldLeft(LAMBDA c, l : Read(c, l, machine), cmp, lines)

Verdict == /\ phase = "finish" /\ phase' = "stop"
           /\ cmp' = AtEnd(cmp, machine) /\ UNCHANGED <<machine, prog>>

FalseAlarm == cmp.verdict \notin {"none", "pass"}
=============================================================================
