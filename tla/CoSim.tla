------------------------------- MODULE CoSim -------------------------------
(***************************************************************************)
(* A whole test of the co-tester: the generator makes a program on the      *)
(* emulator (Tester), the test bench of P7/mips.v loads it with the        *)
(* exception handler (code_handler.asm), runs the pipeline and interrupts   *)
(* it where the emulator was interrupted, and the comparator (main.rs:224)  *)
(* reads the writes the CPU logs against the emulator's.                    *)
(***************************************************************************)
EXTENDS Mips, Comparator, TLC

CONSTANTS INSTR_COUNT, Shapes,      \* as in Generator
          PULSE,                    \* cycles the test bench keeps the line up: 10
          FINAL                     \* address of the jump that ends every program: 16r10000

ASSUME CoSimAssumption == /\ NREG >= 5 /\ INSTR_COUNT \in Nat \ {0}
                          /\ FINAL \in Word /\ FINAL >= TEXT_MAX /\ FINAL % 4 = 0 /\ PULSE \in Nat \ {0}
                          /\ HANDLER >= TEXT_MIN + 4 * INSTR_COUNT + 8

VARIABLES
  machine, prog,   \* the emulator, the program
  phase,           \* generate, run, finish (the last edge) and stop
  irqs,            \* addresses at which an interrupt is still due
  interrupt_count, \* cycles for which the line stays up
  cmp              \* the comparator

tester == <<machine, prog, phase, irqs, interrupt_count, cmp>>

\* All instructions are wanted.
Types == {"nop"} \cup (Known \ {"mfc0", "mtc0", "eret"})
Test == INSTANCE Tester WITH InstrSet <- Types, MEM_SIZE <- RAM_WORDS, DELAYED <- TRUE, EXCEPTIONS <- TRUE
-----------------------------------------------------------------------------
(* The words in memory. *)

W(op, rs, rt, rd, imm) == [op |-> op, rs |-> rs, rt |-> rt, rd |-> rd, imm |-> imm]
SaveTo(r, a) == W("sw", 0, r, 0, a)
LoadFrom(r, a) == W("lw", 0, r, 0, a)

\* The exception handler for NREG registers.
SaveAll == <<SaveTo(1, 0), SaveTo(2, 4), W("mfc0", 0, 1, CAUSE, 0), W("mfc0", 0, 2, EPC, 0),
             SaveTo(3, 8), W("mfc0", 0, 3, STATUS, 0), SaveTo(4, 12), W("mfc0", 0, 4, PRID_REG, 0)>>
           \o [k \in 1 .. NREG - 5 |-> SaveTo(k + 4, 4 * (k + 3))]
LookAtCause == <<W("andi", 1, 1, 0, 124), W("beq", 1, 0, 0, 11), Nop>>
StepEpc == <<W("addiu", 2, 2, 0, 4), W("mtc0", 0, 2, EPC, 0)>>
SkipInstr == <<W("mflo", 0, 0, 1, 0), SaveTo(1, 4 * (NREG - 1)), W("mfhi", 0, 0, 1, 0), SaveTo(1, 4 * NREG)>>
             \o StepEpc \o <<LoadFrom(1, 4 * (NREG - 1)), W("mtlo", 1, 0, 0, 0),
                             LoadFrom(1, 4 * NREG), W("mthi", 1, 0, 0, 0)>>
RestoreAll == [r \in 1 .. NREG - 1 |-> LoadFrom(r, 4 * (r - 1))]
HandlerCode == SaveAll \o LookAtCause \o SkipInstr \o RestoreAll \o <<W("eret", 0, 0, 0, 0)>>

Loaded == Test!jump_limit :> W("j", 0, 0, 0, FINAL \div 4) @@ Test!jump_limit + 4 :> Nop
          @@ prog @@ [a \in {HANDLER + 4 * k : k \in 0 .. Len(HandlerCode) - 1} |->
                        HandlerCode[(a - HANDLER) \div 4 + 1]]
-----------------------------------------------------------------------------
(* The test bench. *)

CoInit == Init /\ Test!TestInit /\ irqs = {} /\ interrupt_count = 0

GenerateOne == Test!GenerateOne /\ UNCHANGED <<vars, irqs, interrupt_count>>

\* The program's last jump leaves instruction memory; the files are written, reset is released.
LoadProgram ==
  /\ Test!SubjectStarted
  /\ machine' = Test!ForceException(machine, FINAL, ADEL)
  /\ text' = Loaded /\ irqs' = machine.irq_log
  /\ UNCHANGED <<f_pc, fd, de, em, mw, grf, mdu, ram, cp0, tc, prog, interrupt_count, cmp>>

\* eret with an EPC outside instruction memory ends the simulation, one edge later.
Leaving == em.ins.op = "eret" /\ (cp0.epc < TEXT_MIN \/ cp0.epc >= TEXT_MAX)

\* What a register write in W and a store in M print.
GrfLine == Line("$", <<mw.pc, mw.wa, w_write_data>>)
MemLine == Line("*", <<em.pc, Align(em.alu), WriteLane(em.ins, em.alu, RamWord(ram, em.alu), m_read_data)>>)
LogsMem(ext) == MemMode(em.ins) = "WRITE" /\ ~BridgeEnable(em.ins, em.alu) /\ ~cp0_int_req(ext)
Printed(ext) == (IF mw.wa # 0 THEN <<GrfLine>> ELSE <<>>) \o (IF LogsMem(ext) THEN <<MemLine>> ELSE <<>>)

Edge(ext) == Cycle(ext) /\ Test!Check(Printed(ext)) /\ UNCHANGED <<machine, prog>>
RaisedIf(n) == IF n > 0 THEN External ELSE {}

irqs_kept == irqs                            \* Fault: an address interrupts every time it is met
irqs_left == irqs \ {Align(addr)}

\* Half a cycle before an edge the bench looks at the macro PC; a listed address raises
\* the line, once.
Run == /\ phase = "run" /\ ~Leaving /\ UNCHANGED phase
       /\ interrupt_count' = IF Align(addr) \in irqs THEN PULSE
                             ELSE IF interrupt_count > 0 THEN interrupt_count - 1 ELSE 0
       /\ irqs' = irqs_left
       /\ Edge(RaisedIf(interrupt_count'))

Finish == /\ phase = "run" /\ Leaving /\ phase' = "finish"
          /\ Edge(RaisedIf(interrupt_count)) /\ UNCHANGED <<irqs, interrupt_count>>

\* The CPU's output has ended.
Verdict == Test!Verdict /\ UNCHANGED <<vars, irqs, interrupt_count>>

CoNext == GenerateOne \/ LoadProgram \/ Run \/ Finish \/ Verdict

CoSpec == CoInit /\ [][CoNext]_<<vars, tester>> /\ WF_<<vars, tester>>(CoNext)
-----------------------------------------------------------------------------
(* Properties *)

\* A CPU that is right is never reported as wrong: every write it logs is the one the
\* emulator expects next, and at the end none is missing (main.rs:224-275).
NoFalseAlarm == ~Test!FalseAlarm

\* The simulation of a correct CPU comes to the jump out of memory and stops (mips.v:345).
Ends == <>(phase = "stop")
=============================================================================
