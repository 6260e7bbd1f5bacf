------------------------------ MODULE Encoding ------------------------------
(***************************************************************************)
(* The way of an instruction from the co-tester into the CPU: the word that *)
(* to_machine_code writes to code.txt (machine.rs) and what the decoder     *)
(* makes of it (P7/stage_decode.v:30-93).  The two opcode tables were       *)
(* written apart.  A word is the tuple of its six fields, high to low:      *)
(* op (6 bits), rs, rt, rd, sa (5 bits each), func (6 bits).                *)
(***************************************************************************)
EXTENDS Decode

CONSTANTS Made,     \* instructions of the generator to look at
          Words32   \* words that may be in memory

\* What the generator makes: its own types of instructions, every field within its width
\* (u8, u16 and the debug assertions of gen_machine_code_*).
Unsigned(bits) == 0 .. 2^bits - 1
ASSUME EncodingAssumption ==
  \A i \in Made :
    /\ i.op \in Known \ {"mfc0", "mtc0", "eret"} /\ {i.rs, i.rt, i.rd} \subseteq Unsigned(5)
    /\ i.imm \in Unsigned(IF i.op \in Shift THEN 5 ELSE IF i.op \in {"j", "jal"} THEN 26 ELSE 16)

VARIABLES stage,    \* made, written, decoded
          made,     \* the instruction, if it comes from the generator
          word,     \* its word
          wires     \* the opcode wires that are 1

vars == <<stage, made, word, wires>>
-----------------------------------------------------------------------------
(* machine.rs: to_machine_code.  Immediates are unsigned: `as u16'. *)

gen_machine_code_r(op, rs, rt, rd, shamt, func) == <<op, rs, rt, rd, shamt, func>>
gen_machine_code_i(op, rs, rt, imm) == <<op, rs, rt, imm \div 2048, (imm \div 64) % 32, imm % 64>>
gen_machine_code_j(op, addr) ==
  <<op, addr \div 2097152, (addr \div 65536) % 32, (addr \div 2048) % 32, (addr \div 64) % 32, addr % 64>>

SumFunc == [add |-> 32, addu |-> 33, sub |-> 34, subu |-> 35]
CompareFunc == [slt |-> 42, sltu |-> 43]
LogicFunc == [and |-> 36, or |-> 37, xor |-> 38, nor |-> 39]
ShiftFunc == [sll |-> 0, srl |-> 2, sra |-> 3]
ShiftVFuncSwapped == [sllv |-> 4, srlv |-> 7, srav |-> 6]      \* Fault: two rows are mixed up
ShiftVFunc == [sllv |-> 4, srlv |-> 6, srav |-> 7]
MulDivFunc == [mult |-> 24, multu |-> 25, div |-> 26, divu |-> 27]
MoveFunc == [mfhi |-> 16, mthi |-> 17, mflo |-> 18, mtlo |-> 19]
ImmOp == [addi |-> 8, addiu |-> 9, slti |-> 10, sltiu |-> 11, andi |-> 12, ori |-> 13, xori |-> 14]
LoadOp == [lb |-> 32, lh |-> 33, lw |-> 35, lbu |-> 36, lhu |-> 37]
StoreOp == [sb |-> 40, sh |-> 41, sw |-> 43]
BranchOp == [beq |-> 4, bne |-> 5, blez |-> 6, bgtz |-> 7]
RegImm == [bltz |-> 0, bgez |-> 1]
JumpOp == [j |-> 2, jal |-> 3]
JumpFunc == [jr |-> 8, jalr |-> 9]

Func(o) ==
  CASE o \in AddSub -> SumFunc[o] [] o \in Compare -> CompareFunc[o] [] o \in Logic -> LogicFunc[o]
    [] o \in Shift -> ShiftFunc[o] [] o \in ShiftV -> ShiftVFunc[o] [] o \in MulDiv -> MulDivFunc[o]
    [] o \in MoveFrom \cup MoveTo -> MoveFunc[o] [] o \in JumpReg -> JumpFunc[o]
Op(o) ==
  CASE o \in ArithImm -> ImmOp[o] [] o \in Load -> LoadOp[o] [] o \in Store -> StoreOp[o]
    [] o \in BranchRT \cup {"blez", "bgtz"} -> BranchOp[o] [] o \in {"j", "jal"} -> JumpOp[o]

\* A field that an instruction does not have is 0 in its word.
EncodeR(i) ==
  gen_machine_code_r(0, IF i.op \in Shift \cup MoveFrom THEN 0 ELSE i.rs,
                     IF i.op \in JumpReg \cup MoveFrom \cup MoveTo THEN 0 ELSE i.rt,
                     IF i.op \in {"jr"} \cup MulDiv \cup MoveTo THEN 0 ELSE i.rd,
                     IF i.op \in Shift THEN i.imm ELSE 0, Func(i.op))
EncodeI(i) ==
  CASE i.op = "lui" -> gen_machine_code_i(15, 0, i.rt, i.imm)
    [] i.op \in {"bltz", "bgez"} -> gen_machine_code_i(1, i.rs, RegImm[i.op], i.imm)
    [] i.op \in {"blez", "bgtz"} -> gen_machine_code_i(Op(i.op), i.rs, 0, i.imm)
    [] OTHER -> gen_machine_code_i(Op(i.op), i.rs, i.rt, i.imm)
to_machine_code(i) == IF i.op \in Arith3 \cup Shift \cup ShiftV \cup HiLoOp \cup JumpReg THEN EncodeR(i)
                      ELSE IF i.op \in {"j", "jal"} THEN gen_machine_code_j(Op(i.op), i.imm) ELSE EncodeI(i)
-----------------------------------------------------------------------------
(* stage_decode.v: the opcode wires. *)

FuncRow == [add |-> 32, addu |-> 33, sub |-> 34, subu |-> 35, sll |-> 0, sllv |-> 4, srl |-> 2, srlv |-> 6, sra |-> 3,
            srav |-> 7, slt |-> 42, sltu |-> 43, and |-> 36, or |-> 37, xor |-> 38, nor |-> 39, jr |-> 8, jalr |-> 9,
            mult |-> 24, multu |-> 25, div |-> 26, divu |-> 27, mflo |-> 18, mfhi |-> 16, mtlo |-> 19, mthi |-> 17]
OpRow == [addi |-> 8, addiu |-> 9, slti |-> 10, sltiu |-> 11, andi |-> 12, ori |-> 13, xori |-> 14, lb |-> 32,
          lbu |-> 36, lh |-> 33, lhu |-> 37, lw |-> 35, sb |-> 40, sh |-> 41, sw |-> 43, beq |-> 4, bne |-> 5,
          blez |-> 6, bgtz |-> 7, lui |-> 15, j |-> 2, jal |-> 3]
\* bltz and bgez are told apart by rt, the CP0 instructions by rs.
SpecialRowsOpen(w) ==                                    \* Fault: eret is not told from mtc0
  {o \in {"bltz"} : w[1] = 1 /\ w[3] = 0} \cup {o \in {"bgez"} : w[1] = 1 /\ w[3] = 1}
  \cup {o \in {"mfc0"} : w[1] = 16 /\ w[2] = 0} \cup {o \in {"mtc0"} : w[1] = 16 /\ w[2] = 4}
  \cup {o \in {"eret"} : w[1] = 16 /\ w[2] # 0}
SpecialRows(w) ==
  {o \in {"bltz"} : w[1] = 1 /\ w[3] = 0} \cup {o \in {"bgez"} : w[1] = 1 /\ w[3] = 1}
  \cup {o \in {"mfc0"} : w[1] = 16 /\ w[2] = 0} \cup {o \in {"mtc0"} : w[1] = 16 /\ w[2] = 4}
  \cup {o \in {"eret"} : w[1] = 16 /\ w[2] >= 16}
Rows(w) == {o \in DOMAIN FuncRow : w[1] = 0 /\ w[6] = FuncRow[o]} \cup {o \in DOMAIN OpRow : w[1] = OpRow[o]} \cup SpecialRows(w)

\* The instruction the rest of the CPU sees: the row and the fields of the word.
Imm16(w) == w[4] * 2048 + w[5] * 64 + w[6]
Index26(w) == (w[2] * 32 + w[3]) * 65536 + Imm16(w)
Sliced(w, o) == [op |-> o, rs |-> w[2], rt |-> w[3], rd |-> w[4],
                 imm |-> IF o \in Shift THEN w[5] ELSE IF o \in {"j", "jal"} THEN Index26(w) ELSE Imm16(w)]
-----------------------------------------------------------------------------
Zero == <<0, 0, 0, 0, 0, 0>>

\* An instruction on its way, or any word the CPU may come across.
Init == /\ wires = {}
        /\ \/ stage = "made" /\ made \in Made /\ word = Zero
           \/ stage = "written" /\ made = Bubble /\ word \in Words32

WriteCode == /\ stage = "made" /\ stage' = "written"
             /\ word' = to_machine_code(made) /\ UNCHANGED <<made, wires>>
DecodeWord == /\ stage = "written" /\ stage' = "decoded"
              /\ wires' = Rows(word) /\ UNCHANGED <<made, word>>
Next == WriteCode \/ DecodeWord
Spec == Init /\ [][Next]_vars
-----------------------------------------------------------------------------
(* Properties *)

\* The CPU executes what the generator made: the word has exactly the row of the
\* instruction, and every register, immediate, shift amount or jump index that it reads or
\* writes comes out as it went in.
Understood ==
  stage = "decoded" /\ made # Bubble =>
    LET d == Sliced(word, made.op)
    IN /\ wires = {made.op}
       /\ ReadStage0(made) # NEVER => d.rs = made.rs
       /\ ReadStage1(made) # NEVER => d.rt = made.rt
       /\ WriteAddr(d) = WriteAddr(made)
       /\ made.op \in ArithImm \cup {"lui", "j", "jal"} \cup Load \cup Store \cup BranchRT \cup BranchZ \cup Shift =>
            d.imm = made.imm

\* No word has two rows: the multiplexers behind the decoder take that for granted.
OneRow == stage = "decoded" => \A o, p \in wires : o = p
=============================================================================
