------------------------------- MODULE CoSim6 -------------------------------
(***************************************************************************)
(* A whole test of P6 by the co-tester, which is then run with --no-exc:    *)
(* the generator makes a program without exceptions (Tester), the test      *)
(* bench of P6/mips.v runs the pipeline for a fixed time, and the           *)
(* comparator reads its log.                                                *)
(***************************************************************************)
EXTENDS P6, Comparator

CONSTANTS INSTR_COUNT, Shapes,      \* as in Generator
          CYCLES                    \* clock edges until $finish: 8192

\* The time is enough for a program of which every instruction waits for a division.
CoSim6Assumption ==
  /\ TEXT_MAX >= TEXT_MIN + 4 * INSTR_COUNT
  /\ CYCLES >= INSTR_COUNT * (MULT_CYCLES + DIV_CYCLES + 2) + 4

VARIABLES machine, prog, phase, cmp,   \* as in Tester
          cycle                        \* edges since the reset

tester == <<machine, prog, phase, cmp, cycle>>

\* All instructions are wanted.
Types == {"nop"} \cup (Known \ {"mfc0", "mtc0", "eret"})
Test == INSTANCE Tester WITH InstrSet <- Types, MEM_SIZE <- RAM_WORDS, HANDLER <- 0, PRID <- 0, DELAYED <- TRUE, EXCEPTIONS <- FALSE
-----------------------------------------------------------------------------
CoInit == Init /\ Test!TestInit /\ cycle = 0

GenerateOne == Test!GenerateOne /\ UNCHANGED <<vars, cycle>>

LoadProgram == /\ Test!SubjectStarted /\ text' = prog
               /\ UNCHANGED <<f_pc, fd, de, em, mw, grf, mdu, ram, halted, machine, prog, cmp, cycle>>

\* What the always block of mips prints: a register write in W and a store in M.
GrfLine == Line("$", <<mw.pc, mw.wa, w_write_data>>)
MemLine == Line("*", <<em.pc, Align(em.alu), real_write_data>>)
Printed == (IF mw.wa # 0 THEN <<GrfLine>> ELSE <<>>) \o (IF MemMode(em.ins) = "WRITE" THEN <<MemLine>> ELSE <<>>)

Run == /\ phase = "run" /\ Next /\ Test!Check(Printed)
       /\ cycle' = cycle + 1 /\ phase' = IF cycle' = CYCLES THEN "finish" ELSE "run"
       /\ UNCHANGED <<machine, prog>>

Verdict == Test!Verdict /\ UNCHANGED <<vars, cycle>>

CoNext == GenerateOne \/ LoadProgram \/ Run \/ Verdict
CoSpec == CoInit /\ [][CoNext]_<<vars, tester>>
=============================================================================
