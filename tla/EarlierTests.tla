---------------------------- MODULE EarlierTests ----------------------------
(***************************************************************************)
(* The tests of P4, P5 and P6 by the co-tester, each with the options that  *)
(* CPU needs (CoSim4, CoSim5, CoSim6): a behaviour is one test of one CPU.  *)
(***************************************************************************)
EXTENDS Comparator, Decode

CONSTANTS NREG, TEXT_MIN, RAM_WORDS, MULT_CYCLES, DIV_CYCLES,   \* as in Forwarding and Execute
          TEXT_WORDS4, TEXT_MAX5, TEXT_MAX6,                    \* the instruction memories
          COUNT4, COUNT5, COUNT6,                               \* --instr-count
          Shapes4, Shapes5, Shapes6,                            \* the programs considered
          CYCLES5, CYCLES6                                      \* clock edges until $finish

VARIABLES subject,                                              \* "P4", "P5" or "P6"
          text, f_pc, fd, de, em, mw, grf, mdu, ram, halted,    \* as in P6; P4 has no pipeline, P5 no mdu
          machine, prog, phase, cmp, cycle                      \* as in CoSim6

pipeline == <<fd, de, em, mw, halted>>
vars == <<subject, text, f_pc, pipeline, grf, mdu, ram, machine, prog, phase, cmp, cycle>>

Four == INSTANCE CoSim4 WITH pc <- f_pc, TEXT_WORDS <- TEXT_WORDS4, INSTR_COUNT <- COUNT4, Shapes <- Shapes4
Five == INSTANCE CoSim5 WITH TEXT_MAX <- TEXT_MAX5, Programs <- {<<>>}, INSTR_COUNT <- COUNT5, Shapes <- Shapes5,
                             CYCLES <- CYCLES5
Six == INSTANCE CoSim6 WITH TEXT_MAX <- TEXT_MAX6, Programs <- {<<>>}, INSTR_COUNT <- COUNT6, Shapes <- Shapes6,
                            CYCLES <- CYCLES6

ASSUME EarlierTestsAssumption == Four!CoSim4Assumption /\ Five!CoSim5Assumption /\ Six!CoSim6Assumption
-----------------------------------------------------------------------------
Init == \/ subject = "P4" /\ Four!CoInit /\ fd = <<>> /\ de = <<>> /\ em = <<>> /\ mw = <<>> /\ halted = FALSE /\ mdu = <<>>
        \/ subject = "P5" /\ Five!CoInit /\ mdu = <<>>
        \/ subject = "P6" /\ Six!CoInit

TestP4 == subject = "P4" /\ Four!CoNext /\ UNCHANGED <<subject, pipeline, mdu>>
TestP5 == subject = "P5" /\ Five!CoNext /\ UNCHANGED <<subject, mdu>>
TestP6 == subject = "P6" /\ Six!CoNext /\ UNCHANGED subject
Next == TestP4 \/ TestP5 \/ TestP6

Spec == Init /\ [][Next]_vars
-----------------------------------------------------------------------------
(* Properties *)

Alarm == cmp.verdict \notin {"none", "pass"}

\* A P5 or a P6 that is right is never reported as wrong (main.rs:224-275), and the fixed
\* time of the simulation (P5/mips.v:179, P6/mips.v:227) is enough.
NoFalseAlarm == subject # "P4" => ~Alarm

\* A P4 that is right is reported as wrong for two reasons alone: a program that took a
\* branch starts over because time is left, and the link of a call (machine.rs:1370).  It
\* never fails for what is missing at the end.
AlarmOnlyKnown == [][subject = "P4" /\ ~Alarm /\ Alarm' =>
                       phase = "run" /\ (Four!SecondRound \/ Four!LinkBlamed')]_vars
=============================================================================
