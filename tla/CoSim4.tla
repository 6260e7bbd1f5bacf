------------------------------- MODULE CoSim4 -------------------------------
(***************************************************************************)
(* A whole test of P4 by the co-tester, run with --no-db, --no-exc and the  *)
(* instructions P4 has: the generator makes a program (Tester), the test    *)
(* bench of P4/test_coordinator.v runs the CPU for as many cycles as        *)
(* instruction memory has words, and the comparator reads its log.          *)
(***************************************************************************)
EXTENDS P4, Comparator

CONSTANTS INSTR_COUNT, Shapes    \* as in Generator

\* The program and the jumps to its end fit in memory.
CoSim4Assumption ==
  /\ P4Assumption /\ INSTR_COUNT \in 1 .. TEXT_WORDS
  /\ \A s \in Shapes : \A n \in DOMAIN s : {i.op : i \in s[n]} \subseteq Implemented

VARIABLES machine, prog, phase, cmp,   \* as in Tester
          cycle                        \* edges since the reset

tester == <<machine, prog, phase, cmp, cycle>>

Test == INSTANCE Tester WITH InstrSet <- Implemented, MEM_SIZE <- RAM_WORDS, HANDLER <- 0, PRID <- 0, DELAYED <- FALSE, EXCEPTIONS <- FALSE
-----------------------------------------------------------------------------
CoInit == Init /\ Test!TestInit /\ cycle = 0

GenerateOne == Test!GenerateOne /\ UNCHANGED <<vars, cycle>>

LoadProgram == /\ Test!SubjectStarted /\ text' = prog
               /\ UNCHANGED <<pc, grf, ram, machine, prog, cmp, cycle>>

\* What the always block of mips prints, a write to $0 included; there is no time in it.
Printed == (IF reg_write THEN <<Line("$", <<pc, grf_write_addr, grf_write_data>>)>> ELSE <<>>)
           \o (IF instr.op = "sw" THEN <<Line("*", <<pc, alu_out, rt_data>>)>> ELSE <<>>)

Run == /\ phase = "run" /\ Next /\ Test!Check(Printed)
       /\ cycle' = cycle + 1 /\ phase' = IF cycle' = TEXT_WORDS THEN "finish" ELSE "run"
       /\ UNCHANGED <<machine, prog>>

Verdict == Test!Verdict /\ UNCHANGED <<vars, cycle>>

CoNext == GenerateOne \/ LoadProgram \/ Run \/ Verdict
CoSpec == CoInit /\ [][CoNext]_<<vars, tester>>
-----------------------------------------------------------------------------
(* What is wrong with a test of P4. *)

\* A branch that skips words makes P4 start over before the time is up
\* (test_coordinator.v:33), and then the first write of the second round is one too many.
SecondRound == pc >= TEXT_MIN + 4 * TEXT_WORDS

\* The entry that differs is the link of a call: the emulator's is the address behind a
\* delay slot also without delay slots.
LinkBlamed == cmp.verdict = "differs" /\ prog[machine.grf_log[cmp.grf_id + 1][1]].op = "jal"
=============================================================================
