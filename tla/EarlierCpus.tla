---------------------------- MODULE EarlierCpus ----------------------------
(***************************************************************************)
(* The two pipelines before P7, P5 and P6, each with the programs it is     *)
(* given.  A behaviour is one of either CPU; what they have in common is    *)
(* the contract, Isa, and the names of their registers.                     *)
(***************************************************************************)
EXTENDS Decode, TLAPS

CONSTANTS NREG, TEXT_MIN, RAM_WORDS, MULT_CYCLES, DIV_CYCLES,   \* as in Forwarding and Execute
          TEXT_MAX5, TEXT_MAX6,      \* end of instruction memory: 16r4000 in P5, 16r7000 in P6
          Programs5, Programs6       \* the programs considered

VARIABLES cpu,                                                     \* "P5" or "P6"
          text, f_pc, fd, de, em, mw, grf, mdu, ram, halted        \* as in P6; P5 has no mdu

vars == <<cpu, text, f_pc, fd, de, em, mw, grf, mdu, ram, halted>>

Five == INSTANCE P5Proofs WITH TEXT_MAX <- TEXT_MAX5, Programs <- Programs5
Six == INSTANCE P6Proofs WITH TEXT_MAX <- TEXT_MAX6, Programs <- Programs6

\* What each CPU assumes of its programs, and Forwarding, Memory and Execute of the constants.
ASSUME EarlierAssumption ==
  /\ Five!P5Assumption /\ Six!P6Assumption
  /\ RAM_WORDS \in Nat \ {0} /\ MULT_CYCLES \in Nat \ {0} /\ DIV_CYCLES \in Nat \ {0}
  /\ TEXT_MAX6 \in Word /\ TEXT_MAX6 % 4 = 0
  /\ \A p \in Programs6 : \A a \in DOMAIN p : p[a] \in Six!Instruction
  /\ \A p \in Programs6 : \A a, b \in DOMAIN p : b = U(a + 4) /\ p[a].op \in Branch => p[b].op \notin Branch
-----------------------------------------------------------------------------
Init == \/ cpu = "P5" /\ Five!Init /\ mdu = <<>>
        \/ cpu = "P6" /\ Six!Init

\* One clock of the CPU.
ClockP5 == cpu = "P5" /\ Five!Next /\ UNCHANGED <<cpu, mdu>>
ClockP6 == cpu = "P6" /\ Six!Next /\ UNCHANGED cpu
Next == ClockP5 \/ ClockP6

\* The clock does not stop.
Spec == Init /\ [][Next]_vars /\ WF_vars(Next)
-----------------------------------------------------------------------------
(* Properties *)

\* Every clock of P5 (mips.v:41-66) and of P6 (mips.v:51-84) is a step of the sequential
\* machine, or none: no register, no word of memory and no address is ever another one.
Implements == /\ cpu = "P5" => Five!Starts
              /\ cpu = "P6" => Six!Starts
              /\ [][(cpu = "P5" => Five!Step) /\ (cpu = "P6" => Six!Step)]_vars

\* No instruction waits in D for ever, whatever bubble its own stall sends down: neither
\* for a register nor for the multiply unit (P5/mips.v:61-67, P6/mips.v:77-84).
Progress == []<>(IF cpu = "P5" THEN ~Five!stall ELSE ~Six!stall)
-----------------------------------------------------------------------------
(* Proofs: P5Proofs and P6Proofs, for the constants of this module. *)

\* Each CPU keeps the invariant of its pipeline.
PipelineInv == /\ cpu = "P5" => Five!IsaInv
               /\ cpu = "P6" => Six!IsaInv

\* The load or store in E of P5 is aligned.
AlignedAccess == cpu = "P5" => Five!Aligned

USE EarlierAssumption, WordsAssumption, PowerAssumption, DecodeAssumption
    DEF Five!WORDS, Five!Word, Five!BYTE, Five!HALF, Six!WORDS, Six!Word, Six!BYTE, Six!HALF, WORDS, Word, BYTE, HALF

\* Reset and a clock of P5.
LEMMA FiveClock ==
  /\ Five!Init => Five!IsaInv /\ Five!Starts
  /\ Five!IsaInv /\ Five!Aligned /\ [Five!Next]_(Five!vars) => Five!IsaInv' /\ Five!Step
<1>1. Five!Init => Five!IsaInv /\ Five!Starts
  BY Five!IsaInvInit, Five!IsaStarts
<1>2. Five!IsaInv /\ Five!Aligned /\ [Five!Next]_(Five!vars) => Five!IsaInv' /\ Five!Step
  BY Five!IsaInvStep, Five!IsaStep
<1> QED BY ONLY <1>1, <1>2

\* Reset and a clock of P6.
LEMMA SixClock ==
  /\ Six!Init => Six!IsaInv /\ Six!Starts
  /\ Six!IsaInv /\ [Six!Next]_(Six!vars) => Six!IsaInv' /\ Six!Step
<1> USE DEF Five!P5Assumption, Six!Reg, Six!Instruction, Six!U, U,
            Six!Branch, Branch, Six!BranchRT, Six!BranchZ, Six!JumpReg, BranchRT, BranchZ, JumpReg
<1>1. Six!Init => Six!IsaInv /\ Six!Starts
  BY Six!IsaInvInit, Six!IsaStarts
<1>2. Six!IsaInv /\ [Six!Next]_(Six!vars) => Six!IsaInv' /\ Six!Step
  BY Six!IsaInvStep, Six!IsaStep
<1> QED BY ONLY <1>1, <1>2

\* The pipelines implement the sequential machine: for every program, of P6 with instructions
\* that are ignored, of P5 with accesses that are aligned.
THEOREM EarlierImplements == Spec /\ []AlignedAccess => Implements
<1>1. Init => PipelineInv /\ (cpu = "P5" => Five!Starts) /\ (cpu = "P6" => Six!Starts)
  BY ONLY FiveClock, SixClock DEF Init, PipelineInv
<1>2. PipelineInv /\ AlignedAccess /\ [Next]_vars
        => PipelineInv' /\ [(cpu = "P5" => Five!Step) /\ (cpu = "P6" => Six!Step)]_vars
  <2> SUFFICES ASSUME PipelineInv, AlignedAccess, [Next]_vars
               PROVE  PipelineInv' /\ (cpu = "P5" => Five!Step) /\ (cpu = "P6" => Six!Step)
    OBVIOUS
  <2>1. cpu' = cpu
    BY ONLY [Next]_vars DEF Next, ClockP5, ClockP6, vars
  <2>2. cpu = "P5" => [Five!Next]_(Five!vars)
    BY ONLY [Next]_vars DEF Next, ClockP5, ClockP6, vars, Five!vars
  <2>3. cpu = "P6" => [Six!Next]_(Six!vars)
    BY ONLY [Next]_vars DEF Next, ClockP5, ClockP6, vars, Six!vars
  <2> QED BY ONLY PipelineInv, AlignedAccess, <2>1, <2>2, <2>3, FiveClock, SixClock DEF PipelineInv, AlignedAccess
<1> QED BY ONLY <1>1, <1>2, PTL DEF Spec, Implements
=============================================================================
