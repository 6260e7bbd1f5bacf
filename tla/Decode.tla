------------------------------- MODULE Decode -------------------------------
(***************************************************************************)
(* The decoder of the pipelined CPU (P7/stage_decode.v): combinational      *)
(* functions of one instruction.  An instruction is a record of the fields  *)
(* the decoder slices out of the 32-bit word: op names the row of the       *)
(* opcode table, rs, rt and rd are register numbers (present whether or not *)
(* the op uses them, as in the hardware) and imm is the immediate, shift    *)
(* amount or jump index.                                                    *)
(***************************************************************************)
EXTENDS Words

CONSTANTS RA,           \* link register of jal: 31
          REGION_BITS   \* high PC bits that j and jal keep: 4

ASSUME DecodeAssumption == REGION_BITS \in 0 .. BITS

AddSub   == {"add", "addu", "sub", "subu"}
Logic    == {"and", "or", "xor", "nor"}
Compare  == {"slt", "sltu"}
Shift    == {"sll", "srl", "sra"}
ShiftV   == {"sllv", "srlv", "srav"}
AddImm   == {"addi", "addiu"}
LogicImm == {"andi", "ori", "xori"}
CmpImm   == {"slti", "sltiu"}
Load     == {"lb", "lbu", "lh", "lhu", "lw"}
Store    == {"sb", "sh", "sw"}
BranchRT == {"beq", "bne"}
BranchZ  == {"blez", "bltz", "bgez", "bgtz"}
JumpReg  == {"jr", "jalr"}
MulDiv   == {"mult", "multu", "div", "divu"}
MoveFrom == {"mflo", "mfhi"}
MoveTo   == {"mtlo", "mthi"}

Arith3   == AddSub \cup Logic \cup Compare          \* rd := rs op rt
ArithImm == AddImm \cup LogicImm \cup CmpImm        \* rt := rs op imm
Branch   == BranchRT \cup BranchZ \cup {"j", "jal"} \cup JumpReg
HiLoOp   == MulDiv \cup MoveFrom \cup MoveTo
Known    == Arith3 \cup Shift \cup ShiftV \cup ArithImm \cup Load \cup Store \cup Branch
            \cup HiLoOp \cup {"lui", "mfc0", "mtc0", "eret"}

\* The all-zero word: sll $0, $0, 0.
Nop == [op |-> "sll", rs |-> 0, rt |-> 0, rd |-> 0, imm |-> 0]
\* What a stall or a flush leaves in a later stage: every effect switched off.
Bubble == [Nop EXCEPT !.op = "bubble"]

\* Stage numbers of def.v, and the register stages of an instruction: where it
\* needs its operands (ReadStage) and where its result exists (WriteStage).
DECODE == 0
EXECUTE == 1
MEM == 2
NEVER == 3

ReadStage0(i) ==
  IF i.op \in BranchRT \cup BranchZ \cup JumpReg THEN DECODE
  ELSE IF i.op \in Arith3 \cup ArithImm \cup ShiftV \cup Load \cup Store \cup MulDiv \cup MoveTo
       THEN EXECUTE ELSE NEVER

ReadStage1(i) ==
  IF i.op \in BranchRT THEN DECODE
  ELSE IF i.op \in Arith3 \cup Shift \cup ShiftV \cup MulDiv THEN EXECUTE
  ELSE IF i.op \in Store \cup {"mtc0"} THEN MEM ELSE NEVER

WriteAddr(i) ==
  CASE i.op \in Arith3 \cup Shift \cup ShiftV \cup MoveFrom \cup {"jalr"} -> i.rd
    [] i.op \in ArithImm \cup Load \cup {"lui", "mfc0"} -> i.rt
    [] i.op = "jal" -> RA
    [] OTHER -> 0

WriteStage(i) ==
  IF i.op \in Arith3 \cup Shift \cup ShiftV \cup ArithImm \cup MoveFrom \cup {"lui"} THEN EXECUTE
  ELSE IF i.op \in Load \cup {"mfc0"} THEN MEM ELSE DECODE

\* Operands of the ALU: sa or the first register, the extended immediate or the second.
ExtImm(i) == IF i.op \in AddImm \cup CmpImm \cup Load \cup Store THEN ExtHalf(i.imm) ELSE i.imm
In0(i, v) == IF i.op = "lui" THEN BITS \div 2 ELSE IF i.op \in Shift THEN i.imm ELSE v
In1(i, v) == IF i.op \in ArithImm \cup Load \cup Store \cup {"lui"} THEN ExtImm(i) ELSE v

\* The access of a load or a store: its mode, its width, the extension of its result.
MemMode(i) == IF i.op \in Load THEN "READ" ELSE IF i.op \in Store THEN "WRITE" ELSE "NONE"
MemType(i) == IF i.op \in {"lb", "lbu", "sb"} THEN "BYTE"
              ELSE IF i.op \in {"lh", "lhu", "sh"} THEN "HALF" ELSE "WORD"

CheckOverflow(i) == i.op \in {"add", "addi", "sub"}

\* Control flow: pc is the address being fetched, one past the branch.
ShouldBranch(i, a, b) ==
  \/ i.op = "beq" /\ a = b
  \/ i.op = "bne" /\ a # b
  \/ i.op = "blez" /\ S(a) <= 0
  \/ i.op = "bltz" /\ S(a) < 0
  \/ i.op = "bgez" /\ S(a) >= 0
  \/ i.op = "bgtz" /\ S(a) > 0

NextPc(i, pc, a, b, epc) ==
  CASE ShouldBranch(i, a, b) -> U(pc + 4 * S(ExtHalf(i.imm)))
    [] i.op \in {"j", "jal"} -> Or(pc \div 2^(BITS - REGION_BITS), U(4 * i.imm))
    [] i.op \in JumpReg -> a
    [] i.op = "eret" -> epc
    [] OTHER -> U(pc + 4)

\* Stage status the decoded instruction gives to the one fetched behind it.
NextStat(i) == IF i.op \in Branch THEN "DS" ELSE IF i.op = "eret" THEN "EMPTY" ELSE "NORMAL"

\* Exception codes of def.v; 0 is none, and is also the code of an interrupt.
ADEL == 4
ADES == 5
RI == 10
OV == 12
DecodeExc(i) == IF i.op \in Known THEN 0 ELSE RI
=============================================================================
