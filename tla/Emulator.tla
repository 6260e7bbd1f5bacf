------------------------------ MODULE Emulator ------------------------------
(***************************************************************************)
(* The instruction semantics of the co-tester's reference emulator          *)
(* (co-tester/src/machine.rs, the impls of Instruction::execute_on).  Every *)
(* operator takes an instruction i and a machine m = [pc, grf, lo, hi, mem]: *)
(* Exception is what it raises, Effect the machine after it if it raises    *)
(* none, BranchResult where it goes.  Nothing here is shared with the       *)
(* pipeline but the representation of words and the names of the opcodes.   *)
(***************************************************************************)
EXTENDS Decode, Sequences

CONSTANT MEM_SIZE      \* words of data memory: mem_size

Fits(n) == n \in 0 - (WORDS \div 2) .. (WORDS \div 2) - 1     \* the checked_* operations

SetGrf(m, r, v) == IF r = 0 THEN m ELSE [m EXCEPT !.grf[r] = v]
Rs(i, m) == m.grf[i.rs]
Rt(i, m) == m.grf[i.rt]
Simm(i) == ExtHalf(i.imm)

\* Exception code of an instruction, 0 if it completes.
Addr(i, m) == U(Rs(i, m) + Simm(i))
Granule(i) == CASE i.op \in {"lb", "lbu", "sb"} -> 1 [] i.op \in {"lh", "lhu", "sh"} -> 2 [] OTHER -> 4
BadAddr(i, m) == Addr(i, m) % Granule(i) # 0 \/ Addr(i, m) \div 4 >= MEM_SIZE
Exception(i, m) ==
  CASE i.op = "add"  -> IF Fits(S(Rs(i, m)) + S(Rt(i, m))) THEN 0 ELSE 12
    [] i.op = "addi" -> IF Fits(S(Rs(i, m)) + S(Simm(i))) THEN 0 ELSE 12
    [] i.op = "sub"  -> IF Fits(S(Rs(i, m)) - S(Rt(i, m))) THEN 0 ELSE 12
    [] i.op \in Load -> IF BadAddr(i, m) THEN 4 ELSE 0
    [] i.op \in Store -> IF BadAddr(i, m) THEN 5 ELSE 0
    [] OTHER -> 0

\* The second operand of an arithmetic or logic instruction, and the values of
\* the groups: sums, comparisons, logic and shifts.
Operand(i, m) == IF i.op \in AddImm \cup CmpImm THEN Simm(i)
                 ELSE IF i.op \in LogicImm THEN i.imm ELSE Rt(i, m)
SumValue(op, s, t) == IF op \in {"sub", "subu"} THEN U(s - t) ELSE U(s + t)
CompareValue(op, s, t) == IF op \in {"slt", "slti"} THEN Flag(S(s) < S(t)) ELSE Flag(s < t)
LogicValue(op, s, t) ==
  CASE op \in {"and", "andi"} -> And(s, t) [] op \in {"or", "ori"} -> Or(s, t)
    [] op \in {"xor", "xori"} -> Xor(s, t) [] op = "nor" -> WORDS - 1 - Or(s, t)
ShiftValue(op, t, n) ==
  CASE op \in {"sll", "sllv"} -> Sll(t, n) [] op \in {"srl", "srlv"} -> Srl(t, n)
    [] op \in {"sra", "srav"} -> Sra(t, n)
Value(i, m) ==
  CASE i.op \in AddSub \cup AddImm -> SumValue(i.op, Rs(i, m), Operand(i, m))
    [] i.op \in Compare \cup CmpImm -> CompareValue(i.op, Rs(i, m), Operand(i, m))
    [] i.op \in Logic \cup LogicImm -> LogicValue(i.op, Rs(i, m), Operand(i, m))
    [] i.op \in Shift -> ShiftValue(i.op, Rt(i, m), i.imm)
    [] i.op \in ShiftV -> ShiftValue(i.op, Rt(i, m), Rs(i, m))
    [] i.op = "lui" -> U(i.imm * 2^(BITS \div 2))

\* A memory word as its four bytes, lowest address first.
Bytes(w) == [k \in 0 .. 3 |-> Lane(w, BYTE, k)]
FromBytes(b) == b[0] + BYTE * (b[1] + BYTE * (b[2] + BYTE * b[3]))

LoadValue(i, m) ==
  LET a == Addr(i, m)
      b == Bytes(m.mem[a \div 4])
      h == b[a % 4] + BYTE * b[(a % 4) + 1]
  IN CASE i.op = "lb" -> ExtByte(b[a % 4]) [] i.op = "lbu" -> b[a % 4]
       [] i.op = "lh" -> ExtHalf(h)        [] i.op = "lhu" -> h
       [] i.op = "lw" -> m.mem[a \div 4]
StoreValue(i, m) ==
  LET a == Addr(i, m)
      b == Bytes(m.mem[a \div 4])
      v == Bytes(Rt(i, m))
  IN CASE i.op = "sb" -> FromBytes([b EXCEPT ![a % 4] = v[0]])
       [] i.op = "sh" -> FromBytes([b EXCEPT ![a % 4] = v[0], ![(a % 4) + 1] = v[1]])
       [] i.op = "sw" -> Rt(i, m)

\* HI and LO: products of two words, truncating division, 0 when dividing by 0.
Product(m, p) == [m EXCEPT !.lo = U(p), !.hi = U(p \div WORDS)]
MulDivEffect(i, m) ==
  LET s == Rs(i, m)
      t == Rt(i, m)
  IN CASE i.op = "mult" -> Product(m, S(s) * S(t))
       [] i.op = "multu" -> Product(m, s * t)
       [] i.op \in {"div", "divu"} /\ t = 0 -> [m EXCEPT !.lo = 0, !.hi = 0]
       [] i.op = "div" /\ t # 0 -> [m EXCEPT !.lo = U(Quot(S(s), S(t))), !.hi = U(Rem(S(s), S(t)))]
       [] i.op = "divu" /\ t # 0 -> [m EXCEPT !.lo = s \div t, !.hi = s % t]
HiLoEffect(i, m) ==
  CASE i.op \in MulDiv -> MulDivEffect(i, m)
    [] i.op = "mtlo" -> [m EXCEPT !.lo = Rs(i, m)]
    [] i.op = "mthi" -> [m EXCEPT !.hi = Rs(i, m)]
    [] OTHER -> m

\* BranchResult: <<>> for None and No; <<target>> for Yes.
Taken(i, m) ==
  CASE i.op = "beq" -> Rs(i, m) = Rt(i, m) [] i.op = "bne" -> Rs(i, m) # Rt(i, m)
    [] i.op = "blez" -> S(Rs(i, m)) <= 0   [] i.op = "bltz" -> S(Rs(i, m)) < 0
    [] i.op = "bgez" -> S(Rs(i, m)) >= 0   [] i.op = "bgtz" -> S(Rs(i, m)) > 0
    [] i.op \in {"j", "jal"} \cup JumpReg -> TRUE
    [] OTHER -> FALSE
Region == 2^(BITS - REGION_BITS)
Target(i, m) ==
  CASE i.op \in {"j", "jal"} -> (m.pc \div Region) * Region + (U(4 * i.imm) % Region)
    [] i.op \in JumpReg -> Rs(i, m)
    [] OTHER -> U(U(m.pc + 4 * S(Simm(i))) + 4)

\* The register file, HI/LO and memory after an instruction that completes.
Effect(i, m) ==
  CASE i.op \in Arith3 \cup Shift \cup ShiftV -> SetGrf(m, i.rd, Value(i, m))
    [] i.op \in ArithImm \cup {"lui"} -> SetGrf(m, i.rt, Value(i, m))
    [] i.op \in Load -> SetGrf(m, i.rt, LoadValue(i, m))
    [] i.op \in Store -> [m EXCEPT !.mem[Addr(i, m) \div 4] = StoreValue(i, m)]
    [] i.op = "mflo" -> SetGrf(m, i.rd, m.lo)
    [] i.op = "mfhi" -> SetGrf(m, i.rd, m.hi)
    [] i.op = "jal" -> SetGrf(m, RA, U(m.pc + 8))
    [] i.op = "jalr" -> SetGrf(m, i.rd, U(m.pc + 8))
    [] OTHER -> HiLoEffect(i, m)

BranchResult(i, m) == IF i.op \notin Branch \/ ~Taken(i, m) THEN <<>> ELSE <<Target(i, m)>>
=============================================================================
