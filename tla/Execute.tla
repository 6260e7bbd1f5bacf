------------------------------ MODULE Execute ------------------------------
(***************************************************************************)
(* The execute stage (P7/stage_execute.v): the ALU and the multiply/divide  *)
(* unit with its HI and LO registers and its busy counter.                  *)
(***************************************************************************)
EXTENDS Decode

CONSTANTS MULT_CYCLES, DIV_CYCLES     \* 5 and 10 in the code
ASSUME CyclesAssumption == MULT_CYCLES \in Nat \ {0} /\ DIV_CYCLES \in Nat \ {0}

MduReset == [lo |-> 0, hi |-> 0, busy |-> 0]

\* e_alu_busy: the counter runs, or the instruction in E is about to start it.
AluBusyLate(m, i) == m.busy > 0                          \* Fault: one cycle late
AluBusy(m, i) == m.busy > 0 \/ i.op \in MulDiv

AluResult(i, a, b, m) ==
  CASE i.op \in {"sub", "subu"} -> U(a - b)
    [] i.op \in {"and", "andi"} -> And(a, b)
    [] i.op \in {"or", "ori"} -> Or(a, b)
    [] i.op \in {"xor", "xori"} -> Xor(a, b)
    [] i.op = "nor" -> Nor(a, b)
    [] i.op \in {"sll", "sllv", "lui"} -> Sll(b, a)
    [] i.op \in {"srl", "srlv"} -> Srl(b, a)
    [] i.op \in {"sra", "srav"} -> Sra(b, a)
    [] i.op \in {"slt", "slti"} -> Flag(S(a) < S(b))
    [] i.op \in {"sltu", "sltiu"} -> Flag(a < b)
    [] i.op = "mflo" -> m.lo
    [] i.op = "mfhi" -> m.hi
    [] OTHER -> U(a + b)

\* The 33-bit sum or difference does not fit in a word.
Overflowed(i, a, b) ==
  LET exact == IF i.op = "sub" THEN S(a) - S(b) ELSE S(a) + S(b)
  IN  exact \notin 0 - (WORDS \div 2) .. (WORDS \div 2) - 1

ExecuteExc(i, a, b) == IF CheckOverflow(i) /\ Overflowed(i, a, b) THEN OV ELSE 0

\* {hi, lo} := a 2*BITS-bit result
HiLoWide(n, cycles) == [lo |-> n, hi |-> n \div WORDS, busy |-> cycles]     \* Fault: LO not cut off
HiLo(n, cycles) == [lo |-> U(n), hi |-> U(n \div WORDS), busy |-> cycles]

\* What the instruction in E does to HI and LO when the unit is idle.
MduStart(m, i, a, b) ==
  CASE i.op = "mult" -> HiLo(S(a) * S(b), MULT_CYCLES)
    [] i.op = "multu" -> HiLo(a * b, MULT_CYCLES)
    [] i.op \in {"div", "divu"} /\ b = 0 -> [lo |-> 0, hi |-> 0, busy |-> DIV_CYCLES]
    [] i.op = "div" /\ b # 0 ->
         [lo |-> U(Quot(S(a), S(b))), hi |-> U(Rem(S(a), S(b))), busy |-> DIV_CYCLES]
    [] i.op = "divu" /\ b # 0 -> [lo |-> a \div b, hi |-> a % b, busy |-> DIV_CYCLES]
    [] i.op = "mtlo" -> [m EXCEPT !.lo = a]
    [] i.op = "mthi" -> [m EXCEPT !.hi = a]
    [] OTHER -> m

\* Faults: the unit starts for an instruction that is being flushed; it never gets idle.
MduNextUngated(m, i, a, b, intReq) ==
  IF m.busy > 0 THEN [m EXCEPT !.busy = @ - 1] ELSE MduStart(m, i, a, b)
MduNextStuck(m, i, a, b, intReq) == IF m.busy > 0 \/ intReq THEN m ELSE MduStart(m, i, a, b)

\* One clock: a busy unit only counts down, and drops whatever E asks of it.
MduNext(m, i, a, b, intReq) ==
  IF m.busy > 0 THEN [m EXCEPT !.busy = @ - 1]
  ELSE IF intReq THEN m ELSE MduStart(m, i, a, b)
=============================================================================
