------------------------------- MODULE CoSim5 -------------------------------
(***************************************************************************)
(* A whole test of P5 by the co-tester, run with --no-exc and the           *)
(* instructions P5 has: the generator makes a program (Tester), the test    *)
(* bench of P5/mips.v runs the pipeline for a fixed time, and the           *)
(* comparator reads its log.                                                *)
(***************************************************************************)
EXTENDS P5, Comparator

CONSTANTS INSTR_COUNT, Shapes,      \* as in Generator
          CYCLES                    \* clock edges until $finish: 2048

\* The program and the word behind it fit in memory, and the time is enough for a program
\* of which every instruction waits for a load.
CoSim5Assumption ==
  /\ P5Assumption /\ TEXT_MAX >= TEXT_MIN + 4 * (INSTR_COUNT + 1)
  /\ \A s \in Shapes : \A n \in DOMAIN s : {i.op : i \in s[n]} \subseteq Implemented
  /\ CYCLES >= 2 * INSTR_COUNT + 3

VARIABLES machine, prog, phase, cmp,   \* as in Tester
          cycle                        \* edges since the reset

tester == <<machine, prog, phase, cmp, cycle>>

Test == INSTANCE Tester WITH InstrSet <- Implemented, MEM_SIZE <- RAM_WORDS, HANDLER <- 0, PRID <- 0, DELAYED <- TRUE, EXCEPTIONS <- FALSE
-----------------------------------------------------------------------------
CoInit == Init /\ Test!TestInit /\ cycle = 0

GenerateOne == Test!GenerateOne /\ UNCHANGED <<vars, cycle>>

LoadProgram == /\ Test!SubjectStarted /\ text' = prog
               /\ UNCHANGED <<f_pc, fd, de, em, mw, grf, ram, halted, machine, prog, cmp, cycle>>

\* What the always block of mips prints: a register write in W and a store in M.
Printed == (IF mw.wa # 0 THEN <<Line("$", <<mw.pc, mw.wa, mw.wd>>)>> ELSE <<>>)
           \o (IF em.ins.op = "sw" THEN <<Line("*", <<em.pc, em.alu, m_read_data>>)>> ELSE <<>>)

Run == /\ phase = "run" /\ Next /\ Test!Check(Printed)
       /\ cycle' = cycle + 1 /\ phase' = IF cycle' = CYCLES THEN "finish" ELSE "run"
       /\ UNCHANGED <<machine, prog>>

Verdict == Test!Verdict /\ UNCHANGED <<vars, cycle>>

CoNext == GenerateOne \/ LoadProgram \/ Run \/ Verdict
CoSpec == CoInit /\ [][CoNext]_<<vars, tester>>
=============================================================================
