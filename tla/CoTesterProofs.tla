-------------------------- MODULE CoTesterProofs --------------------------
(***************************************************************************)
(* Proofs about the co-tester's side of a comparison: the machine code it   *)
(* writes is decoded as it was meant, its generator never panics, and a     *)
(* generated program does when it is run what the emulator did while it was *)
(* generated.  Encoding and GeneratedRun share nothing but Decode; they are *)
(* together here for the lemmas about words.                                *)
(***************************************************************************)
EXTENDS GeneratedRun, Encoding, DatapathProofs
-----------------------------------------------------------------------------
(* Machine code.  Every field of an instruction is found where the decoder  *)
(* looks for it, and its row is the only one that matches.                  *)

\* The func column of the decoder is the one of to_machine_code.
LEMMA FuncAgrees ==
  \A o \in Arith3 \cup Shift \cup ShiftV \cup HiLoOp \cup JumpReg : o \in DOMAIN FuncRow /\ Func(o) = FuncRow[o]
<1> SUFFICES ASSUME NEW o \in Arith3 \cup Shift \cup ShiftV \cup HiLoOp \cup JumpReg
             PROVE  o \in DOMAIN FuncRow /\ Func(o) = FuncRow[o]
  OBVIOUS
<1> QED BY DEF Func, SumFunc, CompareFunc, LogicFunc, ShiftFunc, ShiftVFunc, MulDivFunc, MoveFunc, JumpFunc, FuncRow,
       Arith3, AddSub, Compare, Logic, Shift, ShiftV, HiLoOp, MulDiv, MoveFrom, MoveTo, JumpReg

\* So is the op column.
LEMMA OpAgrees ==
  \A o \in ArithImm \cup Load \cup Store \cup BranchRT \cup {"blez", "bgtz", "j", "jal"} :
    o \in DOMAIN OpRow /\ Op(o) = OpRow[o]
<1> SUFFICES ASSUME NEW o \in ArithImm \cup Load \cup Store \cup BranchRT \cup {"blez", "bgtz", "j", "jal"}
             PROVE  o \in DOMAIN OpRow /\ Op(o) = OpRow[o]
  OBVIOUS
<1> QED BY DEF Op, ImmOp, LoadOp, StoreOp, BranchOp, JumpOp, OpRow, ArithImm, AddImm, LogicImm, CmpImm, Load, Store, BranchRT

\* No word has two rows.
LEMMA RowsDisjoint == \A w : \A o, p \in Rows(w) : o = p
BY DEF FuncRow, OpRow, Rows, SpecialRows

\* Division in two steps.
LEMMA DivDiv ==
  ASSUME NEW n \in Nat, NEW a \in Nat \ {0}, NEW b \in Nat \ {0}
  PROVE  n \div (a * b) = (n \div a) \div b
<1> DEFINE q == n \div a
           r == n % a
           s == q \div b
           t == q % b
<1>1. q \in Int /\ r \in 0 .. a - 1 /\ n = a * q + r
  BY DivMod
<1> HIDE DEF q, r
<1>2. s \in Int /\ t \in 0 .. b - 1 /\ q = b * s + t
  BY <1>1, DivMod
<1> HIDE DEF s, t
<1> DEFINE m == a * b
           v == a * t
           x == m * s
<1>3. m \in Nat \ {0} /\ v \in Int /\ x \in Int
  <2>1. m \in Int /\ m >= 1
    OBVIOUS
  <2>2. v \in Int
    BY <1>2
  <2> HIDE DEF m
  <2>3. x \in Int
    BY <1>2, <2>1
  <2> QED BY <2>1, <2>2, <2>3
<1>4. v >= 0 /\ v <= m - a
  <2>1. a * t >= 0 /\ a * t <= a * (b - 1)
    BY <1>2
  <2>2. a * (b - 1) = a * b - a
    OBVIOUS
  <2> QED BY <2>1, <2>2
<1>5. a * q = x + v
  <2>1. a * q = a * (b * s) + a * t
    BY <1>1, <1>2
  <2>2. a * (b * s) = (a * b) * s
    BY <1>2
  <2> QED BY <2>1, <2>2
<1>6. n = x + v + r
  BY <1>1, <1>5
<1> HIDE DEF m, v
<1>7. v + r \in 0 .. m - 1
  BY <1>1, <1>3, <1>4
<1>8. n = m * s + (v + r)
  <2> HIDE DEF x
  <2>1. n = x + (v + r)
    BY <1>1, <1>3, <1>6
  <2> QED BY <2>1 DEF x
<1>9. n \div m = s
  BY <1>2, <1>3, <1>7, <1>8, DivUnique
<1> QED BY <1>9 DEF m, s, q

\* Division by the sizes that occur, whose numerals are too long for the provers.
LEMMA ByPower ==
  \A n \in Int : /\ n \div 64 \in Int /\ n % 64 \in Int /\ n = 64 * (n \div 64) + (n % 64)
                 /\ n \div 32 \in Int /\ n % 32 \in Int /\ n = 32 * (n \div 32) + (n % 32)
                 /\ n \div 2048 \in Int /\ n \div 65536 \in Int /\ n \div 2097152 \in Int
<1> DEFINE Divides(n, m) == n \div m \in Int /\ n % m \in Int /\ n = m * (n \div m) + (n % m)
<1>1. ASSUME NEW n \in Int, NEW m \in Nat \ {0} PROVE Divides(n, m)
  BY DivMod
<1> HIDE DEF Divides
<1>2. \A n \in Int : Divides(n, 64) /\ Divides(n, 32) /\ Divides(n, 2048) /\ Divides(n, 65536) /\ Divides(n, 2097152)
  BY <1>1, SMT
<1> QED BY <1>2, SMT DEF Divides

\* Cutting an immediate or an index into fields: every division goes on where the last one stopped.
LEMMA FieldsFollow ==
  ASSUME NEW n \in Nat
  PROVE  /\ n \div 2048 = (n \div 64) \div 32
         /\ n \div 65536 = (n \div 2048) \div 32
         /\ n \div 2097152 = (n \div 65536) \div 32
<1>1. n \div (64 * 32) = (n \div 64) \div 32
  BY DivDiv, SMT
<1>2. n \div (2048 * 32) = (n \div 2048) \div 32
  BY DivDiv, SMT
<1>3. n \div (65536 * 32) = (n \div 65536) \div 32
  BY DivDiv, SMT
<1> QED BY <1>1, <1>2, <1>3, SMT

\* The fields of a 16-bit immediate and of a 26-bit index put together again.
LEMMA SplitImm ==
  ASSUME NEW n \in Nat
  PROVE  (n \div 2048) * 2048 + ((n \div 64) % 32) * 64 + (n % 64) = n
<1> DEFINE q1 == n \div 64
           q2 == n \div 2048
<1>1. q2 = q1 \div 32
  BY FieldsFollow
<1>2. q1 \in Int /\ n % 64 \in Int /\ n = 64 * q1 + (n % 64)
  BY ByPower, SMT
<1> HIDE DEF q1
<1>3. q1 \div 32 \in Int /\ q1 % 32 \in Int /\ q1 = 32 * (q1 \div 32) + (q1 % 32)
  BY <1>2, ByPower, SMT
<1> QED BY <1>1, <1>2, <1>3, SMT DEF q1

\* The index of a jump falls into the three register fields, the shift amount and the function code.
LEMMA SplitIndex ==
  ASSUME NEW n \in Nat
  PROVE  ((n \div 2097152) * 32 + ((n \div 65536) % 32)) * 65536
           + (((n \div 2048) % 32) * 2048 + ((n \div 64) % 32) * 64 + (n % 64)) = n
<1> DEFINE q2 == n \div 2048
           q3 == n \div 65536
           q4 == n \div 2097152
           t == ((n \div 64) % 32) * 64 + (n % 64)
<1>0. n \div 64 \in Int /\ n % 64 \in Int /\ (n \div 64) % 32 \in Int /\ q2 \in Int /\ q3 \in Int /\ q4 \in Int
  BY ByPower, SMT
<1>1. q2 * 2048 + t = n
  BY SplitImm, <1>0, SMT
<1>2. q3 = q2 \div 32 /\ q4 = q3 \div 32
  BY FieldsFollow
<1>3. t \in Int
  BY <1>0, SMT
<1> HIDE DEF q2, q3, q4, t
<1> DEFINE r2 == q2 % 32
           r3 == q3 % 32
<1>4. q2 = 32 * q3 + r2 /\ q3 = 32 * q4 + r3 /\ r2 \in Int /\ r3 \in Int
  BY <1>0, <1>2, ByPower, SMT
<1> HIDE DEF r2, r3
<1>5. (q4 * 32 + r3) * 65536 + (r2 * 2048 + t) = n
  BY <1>0, <1>1, <1>3, <1>4, SMT
<1> DEFINE u == (n \div 64) % 32
           l == n % 64
<1>6. u \in Int /\ l \in Int /\ t = u * 64 + l
  BY <1>0, SMT DEF t
<1> HIDE DEF u, l
<1>7. (q4 * 32 + r3) * 65536 + (r2 * 2048 + u * 64 + l) = n
  BY <1>0, <1>4, <1>5, <1>6, SMT
<1> QED BY ONLY <1>7, SMT DEF q2, q3, q4, r2, r3, u, l

\* An instruction of the R format is in its row and has its operands.
LEMMA EncodeRRead ==
  ASSUME NEW i \in Made, i.op \in Arith3 \cup Shift \cup ShiftV \cup HiLoOp \cup JumpReg
  PROVE  LET w == to_machine_code(i)
             d == Sliced(w, i.op)
         IN /\ i.op \in Rows(w)
            /\ ReadStage0(i) # NEVER => d.rs = i.rs
            /\ ReadStage1(i) # NEVER => d.rt = i.rt
            /\ WriteAddr(d) = WriteAddr(i)
            /\ i.op \in Shift => d.imm = i.imm
<1> DEFINE w == to_machine_code(i)
           d == Sliced(w, i.op)
<1>1. w = <<0, IF i.op \in Shift \cup MoveFrom THEN 0 ELSE i.rs, IF i.op \in JumpReg \cup MoveFrom \cup MoveTo THEN 0 ELSE i.rt,
            IF i.op \in {"jr"} \cup MulDiv \cup MoveTo THEN 0 ELSE i.rd, IF i.op \in Shift THEN i.imm ELSE 0, Func(i.op)>>
  BY DEF to_machine_code, EncodeR, gen_machine_code_r
<1> HIDE DEF w
<1>2. i.op \in Rows(w)
  BY <1>1, FuncAgrees DEF Rows
<1>3. d.op = i.op /\ d.rs = w[2] /\ d.rt = w[3] /\ d.rd = w[4] /\ (i.op \in Shift => d.imm = w[5])
  BY DEF Sliced
<1> HIDE DEF d
<1>4. ReadStage0(i) # NEVER => d.rs = i.rs
  BY <1>1, <1>3 DEF ReadStage0, Arith3, AddSub, Compare, Logic, Shift, ShiftV, HiLoOp, MulDiv, MoveFrom, MoveTo, JumpReg,
     ArithImm, AddImm, LogicImm, CmpImm, Load, Store, BranchRT, BranchZ, NEVER, DECODE, EXECUTE
<1>5. ReadStage1(i) # NEVER => d.rt = i.rt
  BY <1>1, <1>3 DEF ReadStage1, Arith3, AddSub, Compare, Logic, Shift, ShiftV, HiLoOp, MulDiv, MoveFrom, MoveTo, JumpReg,
     Store, BranchRT, NEVER, DECODE, EXECUTE, MEM
<1>6. WriteAddr(d) = WriteAddr(i)
  BY <1>1, <1>3 DEF WriteAddr, Arith3, AddSub, Compare, Logic, Shift, ShiftV, HiLoOp, MulDiv, MoveFrom, MoveTo, JumpReg,
     ArithImm, AddImm, LogicImm, CmpImm, Load
<1> QED BY <1>1, <1>2, <1>3, <1>4, <1>5, <1>6 DEF w, d

\* So is every other one.
LEMMA EncodeIRead ==
  ASSUME NEW i \in Made, i.op \notin Arith3 \cup Shift \cup ShiftV \cup HiLoOp \cup JumpReg
  PROVE  LET w == to_machine_code(i)
             d == Sliced(w, i.op)
         IN /\ i.op \in Rows(w)
            /\ ReadStage0(i) # NEVER => d.rs = i.rs
            /\ ReadStage1(i) # NEVER => d.rt = i.rt
            /\ WriteAddr(d) = WriteAddr(i)
            /\ d.imm = i.imm
<1> DEFINE w == to_machine_code(i)
           d == Sliced(w, i.op)
<1>0. i.op \in ArithImm \cup Load \cup Store \cup BranchRT \cup BranchZ \cup {"lui", "j", "jal"} /\ i.op \notin Shift
  <2>1. i.op \in Known \ {"mfc0", "mtc0", "eret"}
    BY EncodingAssumption
  <2> QED BY <2>1 DEF Known, HiLoOp, Branch
<1>n. i.imm \in Nat
  <2>1. \A bits : \A n \in Unsigned(bits) : n \in Nat
    BY DEF Unsigned
  <2> QED BY <2>1, EncodingAssumption
<1>1. CASE i.op \in {"j", "jal"}
  <2>1. w = gen_machine_code_j(Op(i.op), i.imm)
    BY <1>0, <1>1 DEF to_machine_code
  <2> HIDE DEF w
  <2>2. i.op \in Rows(w)
    BY <2>1, <1>1, OpAgrees DEF Rows, gen_machine_code_j
  <2>3. d.op = i.op /\ d.imm = Index26(w)
    BY <1>0, <1>1 DEF Sliced
  <2> DEFINE n == i.imm
  <2>4. /\ w[2] = n \div 2097152 /\ w[3] = (n \div 65536) % 32 /\ w[4] = (n \div 2048) % 32
        /\ w[5] = (n \div 64) % 32 /\ w[6] = n % 64
    BY <2>1, SMT DEF gen_machine_code_j
  <2>5. d.imm = i.imm
    <3>1. n \in Nat
      BY <1>n
    <3> HIDE DEF n, w
    <3>2. Index26(w) = n
      BY ONLY <2>4, <3>1, SplitIndex, SMT DEF Index26, Imm16
    <3> QED BY <2>3, <3>2 DEF n
  <2>6. WriteAddr(d) = WriteAddr(i)
    BY <1>1, <2>3 DEF WriteAddr, Arith3, AddSub, Compare, Logic, Shift, ShiftV, MoveFrom, ArithImm, AddImm, LogicImm, CmpImm, Load
  <2>7. ReadStage0(i) = NEVER /\ ReadStage1(i) = NEVER
    BY <1>1 DEF ReadStage0, ReadStage1, Arith3, AddSub, Compare, Logic, Shift, ShiftV, MulDiv, MoveTo, JumpReg,
       ArithImm, AddImm, LogicImm, CmpImm, Load, Store, BranchRT, BranchZ
  <2> QED BY <2>2, <2>5, <2>6, <2>7 DEF w
<1>2. CASE i.op \notin {"j", "jal"}
  <2> DEFINE op == IF i.op = "lui" THEN 15 ELSE IF i.op \in {"bltz", "bgez"} THEN 1 ELSE Op(i.op)
             rs == IF i.op = "lui" THEN 0 ELSE i.rs
             rt == IF i.op \in {"bltz", "bgez"} THEN RegImm[i.op] ELSE IF i.op \in {"blez", "bgtz"} THEN 0 ELSE i.rt
  <2>1. w = gen_machine_code_i(op, rs, rt, i.imm)
    BY <1>2 DEF to_machine_code, EncodeI
  <2> HIDE DEF w
  <2>2. i.op \in Rows(w)
    <3>1. CASE i.op \in {"bltz", "bgez"}
      BY <2>1, <3>1 DEF Rows, gen_machine_code_i, SpecialRows, RegImm
    <3>2. CASE i.op = "lui"
      BY <2>1, <3>2 DEF Rows, gen_machine_code_i, OpRow
    <3>3. CASE i.op \notin {"bltz", "bgez", "lui"}
      <4>1. i.op \in DOMAIN OpRow /\ w[1] = OpRow[i.op]
        BY <1>0, <1>2, <2>1, <3>3, OpAgrees DEF gen_machine_code_i, BranchZ
      <4> QED BY <4>1 DEF Rows
    <3> QED BY <3>1, <3>2, <3>3
  <2>3. d.op = i.op /\ d.rs = w[2] /\ d.rt = w[3] /\ d.imm = Imm16(w)
    BY <1>0, <1>2 DEF Sliced
  <2> DEFINE n == i.imm
  <2>4. w[4] = n \div 2048 /\ w[5] = (n \div 64) % 32 /\ w[6] = n % 64
    BY <2>1, SMT DEF gen_machine_code_i
  <2>5. d.imm = i.imm
    <3>1. n \in Nat
      BY <1>n
    <3> HIDE DEF n, w
    <3>2. Imm16(w) = n
      BY ONLY <2>4, <3>1, SplitImm, SMT DEF Imm16
    <3> QED BY <2>3, <3>2 DEF n
  <2>6. w[2] = rs /\ w[3] = rt
    BY <2>1 DEF gen_machine_code_i
  <2> HIDE DEF d
  <2>7. ReadStage0(i) # NEVER => d.rs = i.rs
    BY <1>0, <2>3, <2>6 DEF ReadStage0, Arith3, AddSub, Compare, Logic, ShiftV, MulDiv, MoveTo, JumpReg,
       ArithImm, AddImm, LogicImm, CmpImm, Load, Store, BranchRT, BranchZ
  <2>8. ReadStage1(i) # NEVER => d.rt = i.rt
    BY <1>0, <2>3, <2>6 DEF ReadStage1, Arith3, AddSub, Compare, Logic, Shift, ShiftV, MulDiv,
       ArithImm, AddImm, LogicImm, CmpImm, Load, Store, BranchRT, BranchZ
  <2>9. WriteAddr(d) = WriteAddr(i)
    BY <1>0, <1>2, <2>3, <2>6 DEF WriteAddr, Arith3, AddSub, Compare, Logic, Shift, ShiftV, MoveFrom, ArithImm, AddImm, LogicImm,
       CmpImm, Load, Store, BranchRT, BranchZ
  <2> QED BY <2>2, <2>5, <2>7, <2>8, <2>9 DEF w, d
<1> QED BY <1>1, <1>2

\* Words carry what was made until they are decoded.
EncodingInv ==
  /\ stage \in {"made", "written", "decoded"}
  /\ made # Bubble => made \in Made /\ (stage # "made" => word = to_machine_code(made))
  /\ stage = "decoded" => wires = Rows(word)

\* What was written of a made instruction, and what was decoded of a word, stays related to it.
LEMMA EncodingInvariant == Spec => []EncodingInv
<1>1. Init => EncodingInv
  BY DEF Init, EncodingInv
<1>2. EncodingInv /\ [Next]_vars => EncodingInv'
  BY DEF EncodingInv, Next, WriteCode, DecodeWord, vars
<1> QED BY <1>1, <1>2, PTL DEF Spec

\* Every instruction the generator makes reaches the CPU as it was made: the decoder gives the
\* operation and the fields the emulator executed (machine.rs to_machine_code, stage_decode.v:30-93).
THEOREM UnderstoodHolds == Spec => []Understood
<1>1. EncodingInv => Understood
  <2> SUFFICES ASSUME EncodingInv, stage = "decoded", made # Bubble
               PROVE  LET d == Sliced(word, made.op)
                      IN /\ wires = {made.op}
                         /\ ReadStage0(made) # NEVER => d.rs = made.rs
                         /\ ReadStage1(made) # NEVER => d.rt = made.rt
                         /\ WriteAddr(d) = WriteAddr(made)
                         /\ made.op \in ArithImm \cup {"lui", "j", "jal"} \cup Load \cup Store \cup BranchRT \cup BranchZ \cup Shift =>
                              d.imm = made.imm
    BY DEF Understood
  <2>1. made \in Made /\ word = to_machine_code(made) /\ wires = Rows(word)
    BY DEF EncodingInv
  <2>2. made.op \in Rows(word)
    BY <2>1, EncodeRRead, EncodeIRead
  <2>3. wires = {made.op}
    BY <2>1, <2>2, RowsDisjoint
  <2>4. CASE made.op \in Arith3 \cup Shift \cup ShiftV \cup HiLoOp \cup JumpReg
    BY <2>1, <2>3, <2>4, EncodeRRead DEF Arith3, AddSub, Compare, Logic, ShiftV, HiLoOp, MulDiv, MoveFrom, MoveTo, JumpReg,
       ArithImm, AddImm, LogicImm, CmpImm, Load, Store, BranchRT, BranchZ
  <2>5. CASE made.op \notin Arith3 \cup Shift \cup ShiftV \cup HiLoOp \cup JumpReg
    BY <2>1, <2>3, <2>5, EncodeIRead
  <2> QED BY <2>4, <2>5
<1> QED BY <1>1, EncodingInvariant, PTL

\* No word turns on two rows of the decoder's opcode table (stage_decode.v:30-93).
THEOREM OneRowHolds == Spec => []OneRow
<1>1. EncodingInv => OneRow
  BY RowsDisjoint DEF EncodingInv, OneRow
<1> QED BY <1>1, EncodingInvariant, PTL
-----------------------------------------------------------------------------
(* The emulator between two words.  Whatever is executed, the machine goes  *)
(* one word on and $0 stays 0.                                              *)

\* The parts of a machine.
Parts == {"pc", "state", "grf", "lo", "hi", "mem", "grf_log", "mem_log", "irq_log", "exc"}
IsMachine(k) == k = [x \in Parts |-> k[x]]

\* Updates of a machine by name.
WithPc(k, p) == [k EXCEPT !.pc = p]
WithState(k, s) == [k EXCEPT !.state = s]
WithExc(k, e) == [k EXCEPT !.exc = e]
WithGrfLog(k, l) == [k EXCEPT !.grf_log = l]
WithMemLog(k, l) == [k EXCEPT !.mem_log = l]
WithIrq(k, l) == [k EXCEPT !.irq_log = l]
WithLo(k, l) == [k EXCEPT !.lo = l]
WithHi(k, h) == [k EXCEPT !.hi = h]
WithMem(k, m) == [k EXCEPT !.mem = m]
WithWord(k, a, v) == [k EXCEPT !.mem[a] = v]
WithHiLo(k, l, h) == [k EXCEPT !.lo = l, !.hi = h]
WithWrites(k, g, l) == [k EXCEPT !.grf_log = g, !.mem_log = l]
WithLogs(k, e, g, l, m) == [k EXCEPT !.exc = e, !.grf_log = g, !.mem_log = l, !.mem = m]

Put(f, a, v) == [f EXCEPT ![a] = v]

\* The place of a machine and its $0.
SamePlace(k, h) == IsMachine(h) /\ h.pc = k.pc /\ h.state = k.state
KeepsZero(k, h) == 0 \in DOMAIN k.grf /\ k.grf[0] = 0 => 0 \in DOMAIN h.grf /\ h.grf[0] = 0
SameRegs(k, h) == h.grf = k.grf /\ h.lo = k.lo /\ h.hi = k.hi

\* An update changes one part and no other.
Only(k, h, part, v) == IsMachine(h) /\ h[part] = v /\ \A x \in Parts \ {part} : h[x] = k[x]

\* The updates by name do what their names say.
LEMMA Updates ==
  ASSUME NEW k, IsMachine(k), NEW v
  PROVE  /\ Only(k, WithPc(k, v), "pc", v)
         /\ Only(k, WithState(k, v), "state", v)
         /\ Only(k, WithExc(k, v), "exc", v)
         /\ Only(k, WithGrfLog(k, v), "grf_log", v)
         /\ Only(k, WithMemLog(k, v), "mem_log", v)
         /\ Only(k, WithIrq(k, v), "irq_log", v)
         /\ Only(k, WithLo(k, v), "lo", v)
         /\ Only(k, WithHi(k, v), "hi", v)
         /\ Only(k, WithMem(k, v), "mem", v)
<1>1. Only(k, WithPc(k, v), "pc", v)
  BY SMT DEF IsMachine, Parts, Only, WithPc
<1>2. Only(k, WithState(k, v), "state", v)
  BY SMT DEF IsMachine, Parts, Only, WithState
<1>3. Only(k, WithExc(k, v), "exc", v)
  BY SMT DEF IsMachine, Parts, Only, WithExc
<1>4. Only(k, WithGrfLog(k, v), "grf_log", v)
  BY SMT DEF IsMachine, Parts, Only, WithGrfLog
<1>5. Only(k, WithMemLog(k, v), "mem_log", v)
  BY SMT DEF IsMachine, Parts, Only, WithMemLog
<1>6. Only(k, WithIrq(k, v), "irq_log", v)
  BY SMT DEF IsMachine, Parts, Only, WithIrq
<1>7. Only(k, WithLo(k, v), "lo", v)
  BY SMT DEF IsMachine, Parts, Only, WithLo
<1>8. Only(k, WithHi(k, v), "hi", v)
  BY SMT DEF IsMachine, Parts, Only, WithHi
<1>9. Only(k, WithMem(k, v), "mem", v)
  BY SMT DEF IsMachine, Parts, Only, WithMem
<1> QED BY <1>1, <1>2, <1>3, <1>4, <1>5, <1>6, <1>7, <1>8, <1>9

\* Logging an exception changes no register and no place.
LEMMA LogsKeep ==
  ASSUME NEW k, IsMachine(k), NEW e, NEW g, NEW l, NEW m
  PROVE  LET h == WithLogs(k, e, g, l, m)
         IN SamePlace(k, h) /\ SameRegs(k, h)
<1> DEFINE k1 == WithExc(k, e)
           k2 == WithGrfLog(k1, g)
           k3 == WithMemLog(k2, l)
           k4 == WithMem(k3, m)
<1>1. Only(k, k1, "exc", e)
  BY Updates
<1>2. Only(k1, k2, "grf_log", g)
  BY <1>1, Updates DEF Only
<1>3. Only(k2, k3, "mem_log", l)
  BY <1>2, Updates DEF Only
<1>4. Only(k3, k4, "mem", m)
  BY <1>3, Updates DEF Only
<1>5. WithLogs(k, e, g, l, m) = k4
  BY Zenon DEF WithLogs, WithExc, WithGrfLog, WithMemLog, WithMem
<1> HIDE DEF k1, k2, k3, k4
<1> QED BY <1>1, <1>2, <1>3, <1>4, <1>5 DEF Only, Parts, SamePlace, SameRegs

\* Logging a write changes neither a register nor data memory.
LEMMA WritesKeep ==
  ASSUME NEW k, IsMachine(k), NEW g, NEW l
  PROVE  LET h == WithWrites(k, g, l)
         IN SamePlace(k, h) /\ SameRegs(k, h) /\ h.mem = k.mem /\ h.exc = k.exc
<1> DEFINE k1 == WithGrfLog(k, g)
           k2 == WithMemLog(k1, l)
<1>1. Only(k, k1, "grf_log", g)
  BY Updates
<1>2. Only(k1, k2, "mem_log", l)
  BY <1>1, Updates DEF Only
<1>3. WithWrites(k, g, l) = k2
  BY Zenon DEF WithWrites, WithGrfLog, WithMemLog
<1> HIDE DEF k1, k2
<1> QED BY <1>1, <1>2, <1>3 DEF Only, Parts, SamePlace, SameRegs

\* Writing HI and LO together.
LEMMA HiLoUpdate ==
  ASSUME NEW k, IsMachine(k), NEW l, NEW h
  PROVE  LET e == WithHiLo(k, l, h)
         IN SamePlace(k, e) /\ e.grf = k.grf /\ e.mem = k.mem /\ e.exc = k.exc /\ e.lo = l /\ e.hi = h
<1> DEFINE k1 == WithLo(k, l)
           k2 == WithHi(k1, h)
<1>1. Only(k, k1, "lo", l)
  BY Updates
<1>2. Only(k1, k2, "hi", h)
  BY <1>1, Updates DEF Only
<1>3. WithHiLo(k, l, h) = k2
  BY Zenon DEF WithHiLo, WithLo, WithHi
<1> HIDE DEF k1, k2
<1> QED BY <1>1, <1>2, <1>3 DEF Only, Parts, SamePlace

\* Writing a word of data memory.
LEMMA WordUpdate ==
  ASSUME NEW k, IsMachine(k), NEW a, NEW v
  PROVE  Only(k, WithWord(k, a, v), "mem", Put(k.mem, a, v))
BY SMT DEF Put, IsMachine, Parts, Only, WithWord

\* Writing a register changes that register alone, and never $0.
LEMMA SetKeeps ==
  ASSUME NEW k, IsMachine(k), NEW r, NEW v
  PROVE  LET m == SetGrf(k, r, v)
         IN SamePlace(k, m) /\ m.lo = k.lo /\ m.hi = k.hi /\ m.mem = k.mem /\ m.exc = k.exc /\ KeepsZero(k, m)
            /\ (m.grf = IF r = 0 THEN k.grf ELSE Put(k.grf, r, v))
BY SMT DEF Put, SetGrf, IsMachine, Parts, SamePlace, KeepsZero

\* The handler gives back every register; without exceptions there is none.
LEMMA HandleKeeps ==
  ASSUME NEW k, IsMachine(k), NEW c, NEW irq
  PROVE  LET h == HandleException(k, c, irq)
         IN SamePlace(k, h) /\ SameRegs(k, h) /\ (~EXCEPTIONS => h = k)
<1> DEFINE h == HandleException(k, c, irq)
<1>1. CASE ~EXCEPTIONS
  <2>1. h = k
    BY <1>1, Zenon DEF HandleException
  <2> QED BY <1>1, <2>1 DEF SamePlace, SameRegs
<1>2. CASE EXCEPTIONS
  <2>1. h = WithLogs(k, k.exc \/ c # 0, k.grf_log \o HandlerWrites(k, c, irq), k.mem_log \o HandlerSaves(k, c), HandlerMem(k, c))
    BY <1>2, Zenon DEF HandleException, WithLogs
  <2>2. SamePlace(k, h) /\ SameRegs(k, h)
    BY <2>1, LogsKeep, Zenon
  <2> QED BY <1>2, <2>2
<1> QED BY <1>1, <1>2

\* So does an exception forced at another address.
LEMMA ForceKeeps ==
  ASSUME NEW k, IsMachine(k), NEW pc_, NEW c
  PROVE  LET h == ForceException(k, pc_, c)
         IN SamePlace(k, h) /\ SameRegs(k, h) /\ (~EXCEPTIONS => h = k)
<1> DEFINE m == WithPc(k, pc_)
           h == HandleException(m, c, FALSE)
<1>1. IsMachine(m) /\ m.state = k.state /\ SameRegs(k, m)
  BY Updates DEF Only, Parts, SameRegs
<1>2. SamePlace(m, h) /\ SameRegs(m, h) /\ (~EXCEPTIONS => h = m)
  BY <1>1, HandleKeeps
<1>3. ForceException(k, pc_, c) = WithPc(h, k.pc)
  BY Zenon DEF ForceException, WithPc
<1>4. WithPc(m, k.pc) = k
  <2>1. Only(m, WithPc(m, k.pc), "pc", k.pc) /\ Only(k, m, "pc", pc_)
    BY Updates DEF Only
  <2> HIDE DEF m
  <2> QED BY <2>1 DEF Only, IsMachine, Parts
<1>5. SamePlace(k, WithPc(h, k.pc)) /\ SameRegs(k, WithPc(h, k.pc))
  <2> HIDE DEF m, h
  <2> QED BY <1>1, <1>2, Updates DEF Only, Parts, SamePlace, SameRegs
<1> HIDE DEF m, h
<1> QED BY <1>2, <1>3, <1>4, <1>5

\* So does the check of a branch target.
LEMMA CheckKeeps ==
  ASSUME NEW k, IsMachine(k), NEW t
  PROVE  LET h == CheckBranchTarget(k, t)
         IN SamePlace(k, h) /\ SameRegs(k, h) /\ (~EXCEPTIONS => h = k)
<1>1. SamePlace(k, k) /\ SameRegs(k, k)
  BY DEF SamePlace, SameRegs
<1> QED BY <1>1, ForceKeeps DEF CheckBranchTarget

\* What an instruction keeps.
Kept(k, e) == SamePlace(k, e) /\ KeepsZero(k, e) /\ e.exc = k.exc

\* An operation on HI and LO keeps the rest.
LEMMA HiLoKeeps ==
  ASSUME NEW k, IsMachine(k), NEW i
  PROVE  Kept(k, HiLoEffect(i, k))
<1>1. /\ \A v, w : Kept(k, WithHiLo(k, v, w))
      /\ \A v : Kept(k, WithLo(k, v)) /\ Kept(k, WithHi(k, v))
  <2>1. ASSUME NEW v, NEW w PROVE Kept(k, WithHiLo(k, v, w))
    BY HiLoUpdate DEF Kept, KeepsZero
  <2>2. ASSUME NEW v PROVE Kept(k, WithLo(k, v)) /\ Kept(k, WithHi(k, v))
    BY Updates DEF Only, Parts, SamePlace, Kept, KeepsZero
  <2> QED BY <2>1, <2>2
<1>2. Kept(k, k)
  BY DEF Kept, SamePlace, KeepsZero
<1>3. \A p : Kept(k, Product(k, p))
  BY <1>1, Zenon DEF Product, WithHiLo
<1>4. ASSUME i.op \in MulDiv PROVE Kept(k, MulDivEffect(i, k))
  BY <1>1, <1>3, <1>4, Zenon DEF MulDivEffect, MulDiv, WithHiLo
<1>5. CASE i.op \in MulDiv
  BY <1>4, <1>5, Zenon DEF HiLoEffect, MulDiv
<1>6. CASE i.op \notin MulDiv
  BY <1>1, <1>2, <1>6, Zenon DEF HiLoEffect, WithLo, WithHi
<1> QED BY <1>5, <1>6

\* An instruction moves neither the machine nor $0.
LEMMA EffectKeeps ==
  ASSUME NEW k, IsMachine(k), NEW i
  PROVE  Kept(k, Effect(i, k))
<1>1. ASSUME NEW r, NEW v PROVE Kept(k, SetGrf(k, r, v))
  BY SetKeeps DEF Kept
<1>2. ASSUME NEW a, NEW v PROVE Kept(k, WithWord(k, a, v))
  BY WordUpdate DEF Only, Parts, SamePlace, Kept, KeepsZero
<1>3. Kept(k, HiLoEffect(i, k))
  BY HiLoKeeps
<1> QED BY <1>1, <1>2, <1>3, Zenon DEF Effect, WithWord

\* Nor does executing it, whether it completes or not.
LEMMA ExecuteOnKeeps ==
  ASSUME NEW k, IsMachine(k), NEW i
  PROVE  SamePlace(k, ExecuteOn(k, i)) /\ KeepsZero(k, ExecuteOn(k, i))
<1>1. CASE Exception(i, k) # 0
  <2>1. ExecuteOn(k, i) = HandleException(k, Exception(i, k), FALSE)
    BY <1>1, Zenon DEF ExecuteOn
  <2>2. SamePlace(k, ExecuteOn(k, i)) /\ SameRegs(k, ExecuteOn(k, i))
    BY <2>1, HandleKeeps, Zenon
  <2> QED BY <2>2 DEF KeepsZero, SameRegs
<1>2. CASE Exception(i, k) = 0
  <2> DEFINE m == Effect(i, k)
  <2>1. \E g, l : ExecuteOn(k, i) = WithWrites(m, g, l)
    BY <1>2, Zenon DEF ExecuteOn, WithWrites
  <2>2. Kept(k, m)
    BY EffectKeeps
  <2> HIDE DEF m
  <2> QED BY <2>1, <2>2, WritesKeep DEF Kept, SamePlace, KeepsZero, SameRegs
<1> QED BY <1>1, <1>2

\* The state of a machine between two words.
Steady(k) ==
  /\ IsMachine(k) /\ 0 \in DOMAIN k.grf /\ k.grf[0] = 0
  /\ k.state.at \in {"Normal", "InDelaySlot", "Branching"}
  /\ k.state.at = "InDelaySlot" => DELAYED

\* Executing an instruction outside of slots goes one word on.
LEMMA InNormalSteady ==
  ASSUME NEW k, Steady(k), NEW i
  PROVE  Steady(InNormal(k, i)) /\ InNormal(k, i).pc = k.pc + 4
<1> DEFINE n == ExecuteOn(k, i)
           m == WithPc(n, k.pc + 4)
           r == BranchResult(i, k)
<1>1. SamePlace(k, n) /\ KeepsZero(k, n)
  BY ExecuteOnKeeps DEF Steady
<1> HIDE DEF n
<1>2. Steady(m) /\ m.pc = k.pc + 4
  BY <1>1, Updates DEF Only, Parts, SamePlace, KeepsZero, Steady
<1>3. InNormal(k, i) = CASE i.op \notin Branch -> m
       [] i.op \in Branch /\ r = <<>> -> IF DELAYED THEN WithState(m, InDelaySlot(m.pc + 4)) ELSE m
       [] OTHER -> IF DELAYED THEN WithState(m, InDelaySlot(r[1]))
                   ELSE IF r[1] > m.pc THEN WithState(m, Branching(r[1]))
                   ELSE CheckBranchTarget(m, r[1])
  BY Zenon DEF InNormal, WithPc, WithState, n
<1> HIDE DEF m, r
<1>4. ASSUME NEW s, s.at \in {"Normal", "InDelaySlot", "Branching"}, s.at = "InDelaySlot" => DELAYED
      PROVE  Steady(WithState(m, s)) /\ WithState(m, s).pc = k.pc + 4
  BY <1>2, <1>4, Updates DEF Only, Parts, Steady
<1>5. ASSUME NEW t, DELAYED PROVE Steady(WithState(m, InDelaySlot(t))) /\ WithState(m, InDelaySlot(t)).pc = k.pc + 4
  BY <1>4, <1>5 DEF InDelaySlot
<1>6. ASSUME NEW t PROVE Steady(WithState(m, Branching(t))) /\ WithState(m, Branching(t)).pc = k.pc + 4
  BY <1>4 DEF Branching
<1>7. ASSUME NEW t PROVE Steady(CheckBranchTarget(m, t)) /\ CheckBranchTarget(m, t).pc = k.pc + 4
  BY <1>2, CheckKeeps DEF SamePlace, SameRegs, Steady
<1>8. CASE DELAYED
  BY <1>2, <1>3, <1>5, <1>8, Zenon
<1>9. CASE ~DELAYED
  BY <1>2, <1>3, <1>6, <1>7, <1>9, Zenon
<1> QED BY <1>8, <1>9

\* Executing the instruction of a slot, once or twice.
LEMMA InSlotSteady ==
  ASSUME NEW k, Steady(k), NEW i, NEW target
  PROVE  Steady(InSlot(k, i, target))
<1> DEFINE n == ExecuteOn(k, i)
           m == WithState(n, Normal)
           t == CheckBranchTarget(m, target)
<1>1. SamePlace(k, n) /\ KeepsZero(k, n)
  BY ExecuteOnKeeps DEF Steady
<1>2. InSlot(k, i, target) = IF m.exc THEN ExecuteOn(m, i)
                             ELSE IF target > k.pc + 4 THEN WithState(m, Branching(target))
                             ELSE IF target <= k.pc THEN ExecuteOn(t, i) ELSE t
  BY Zenon DEF InSlot, WithState
<1> HIDE DEF n
<1>3. Steady(m)
  BY <1>1, Updates DEF Only, Parts, SamePlace, KeepsZero, Steady, Normal
<1> HIDE DEF m
<1>4. Steady(WithState(m, Branching(target)))
  BY <1>3, Updates DEF Only, Parts, Steady, Branching
<1>5. Steady(t)
  BY <1>3, CheckKeeps DEF SamePlace, SameRegs, Steady
<1>6. ASSUME NEW h, Steady(h) PROVE Steady(ExecuteOn(h, i))
  BY <1>6, ExecuteOnKeeps DEF SamePlace, KeepsZero, Steady
<1> HIDE DEF t
<1> QED BY <1>2, <1>3, <1>4, <1>5, <1>6, Zenon

\* Execute goes one word on, whatever the state and the instruction.
LEMMA ExecuteSteady ==
  ASSUME NEW k, Steady(k), NEW i
  PROVE  Steady(Execute(k, i)) /\ Execute(k, i).pc = k.pc + 4
<1> DEFINE m == CASE k.state.at = "Normal" -> InNormal(k, i)
             [] k.state.at = "InDelaySlot" -> WithPc(InSlot(k, i, k.state.target), k.pc + 4)
             [] k.state.at = "Branching" ->
                  IF k.state.target > k.pc + 4 THEN WithPc(k, k.pc + 4)
                  ELSE CheckBranchTarget(WithState(WithPc(k, k.pc + 4), Normal), k.state.target)
<1>1. Execute(k, i) = WithExc(m, FALSE)
  BY Zenon DEF Execute, WithExc, WithPc, WithState
<1>2. ASSUME NEW h, Steady(h) PROVE Steady(WithPc(h, k.pc + 4)) /\ WithPc(h, k.pc + 4).pc = k.pc + 4
  BY <1>2, Updates DEF Only, Parts, Steady
<1>3. ASSUME NEW h, Steady(h) PROVE Steady(WithState(h, Normal)) /\ WithState(h, Normal).pc = h.pc
  BY <1>3, Updates DEF Only, Parts, Steady, Normal
<1>4. ASSUME NEW h, Steady(h), NEW t PROVE Steady(CheckBranchTarget(h, t)) /\ CheckBranchTarget(h, t).pc = h.pc
  BY <1>4, CheckKeeps DEF SamePlace, SameRegs, Steady
<1>5. Steady(m) /\ m.pc = k.pc + 4
  <2>1. CASE k.state.at = "Normal"
    BY <2>1, InNormalSteady, Zenon
  <2>2. CASE k.state.at = "InDelaySlot"
    <3>1. m = WithPc(InSlot(k, i, k.state.target), k.pc + 4)
      BY <2>2, Zenon
    <3>2. Steady(InSlot(k, i, k.state.target))
      BY InSlotSteady
    <3> HIDE DEF m
    <3> QED BY <3>1, <3>2, <1>2, Zenon
  <2>3. CASE k.state.at = "Branching"
    <3> DEFINE u == WithPc(k, k.pc + 4)
               v == WithState(u, Normal)
    <3>1. m = IF k.state.target > k.pc + 4 THEN u ELSE CheckBranchTarget(v, k.state.target)
      BY <2>3, Zenon
    <3>2. Steady(u) /\ u.pc = k.pc + 4
      BY <1>2
    <3> HIDE DEF u
    <3>3. Steady(v) /\ v.pc = k.pc + 4
      BY <3>2, <1>3
    <3> HIDE DEF m, v
    <3>4. Steady(CheckBranchTarget(v, k.state.target)) /\ CheckBranchTarget(v, k.state.target).pc = k.pc + 4
      BY <3>3, <1>4
    <3> QED BY <3>1, <3>2, <3>4, Zenon
  <2> QED BY <2>1, <2>2, <2>3 DEF Steady
<1> HIDE DEF m
<1>6. Only(m, WithExc(m, FALSE), "exc", FALSE)
  BY <1>5, Updates, Zenon DEF Steady
<1> QED BY <1>1, <1>5, <1>6 DEF Only, Parts, Steady

\* An interrupt leaves the machine where it is.
LEMMA InterruptSteady ==
  ASSUME NEW k, Steady(k)
  PROVE  LET h == Interrupt(k) IN Steady(h) /\ h.pc = k.pc /\ h.state = k.state
<1>1. CASE k.state.at = "Branching"
  BY <1>1 DEF Interrupt
<1>2. CASE k.state.at # "Branching"
  <2> DEFINE u == WithIrq(k, k.irq_log \cup {k.pc})
             h == HandleException(u, 0, TRUE)
  <2>1. Steady(u) /\ u.pc = k.pc /\ u.state = k.state
    BY Updates DEF Only, Parts, Steady
  <2> HIDE DEF u
  <2>2. SamePlace(u, h) /\ SameRegs(u, h)
    BY <2>1, HandleKeeps, Zenon DEF Steady
  <2> HIDE DEF h
  <2>6. Steady(h) /\ h.pc = k.pc /\ h.state = k.state
    BY <2>1, <2>2 DEF SamePlace, SameRegs, Steady
  <2>3. ASSUME NEW r, NEW v PROVE Steady(SetGrf(h, r, v)) /\ SetGrf(h, r, v).pc = k.pc /\ SetGrf(h, r, v).state = k.state
    BY <2>6, SetKeeps DEF SamePlace, KeepsZero, Steady
  <2>4. ASSUME NEW r, NEW v, NEW l
        PROVE LET e == WithGrfLog(SetGrf(h, r, v), l) IN Steady(e) /\ e.pc = k.pc /\ e.state = k.state
    <3> DEFINE g == SetGrf(h, r, v)
    <3>1. Steady(g) /\ g.pc = k.pc /\ g.state = k.state
      BY <2>3
    <3> HIDE DEF g
    <3>2. LET e == WithGrfLog(g, l) IN Steady(e) /\ e.pc = k.pc /\ e.state = k.state
      BY <3>1, Updates DEF Only, Parts, Steady
    <3> QED BY <3>2 DEF g
  <2>5. \/ Interrupt(k) = h
        \/ \E r, v, l : Interrupt(k) = WithGrfLog(SetGrf(h, r, v), l)
    BY <1>2, Zenon DEF Interrupt, WithGrfLog, h, u, WithIrq
  <2> QED BY <2>4, <2>5, <2>6
<1> QED BY <1>1, <1>2
-----------------------------------------------------------------------------
(* The generator never panics: a type and a base can be found, and a branch *)
(* goes forward.                                                            *)

\* Where generation stands: in front of a word of the program, or behind the last one.
AtWord(k) == \E n \in 0 .. INSTR_COUNT : k.pc = TEXT_MIN + 4 * n

\* An offset the generator chooses leads at least one word further, at most behind the last one.
LEMMA OffsetForward ==
  ASSUME NEW k, NEW n \in 0 .. INSTR_COUNT - 2, k.pc = TEXT_MIN + 4 * n, NEW o \in gen_branch_offset(k)
  PROVE  /\ o \in 0 .. INSTR_COUNT - 1 /\ (~EXCEPTIONS => o >= 1)
         /\ k.pc + 4 * (o + 1) <= jump_limit
<1>1. TEXT_MIN \in Nat /\ INSTR_COUNT \in Nat \ {0}
  BY GeneratorAssumption
<1>2. PICK q \in (IF EXCEPTIONS THEN 0 ELSE 1) .. INSTR_COUNT :
        o = IF k.pc + 4 * (q + 1) < jump_limit THEN q ELSE (jump_limit - k.pc - 1) \div 4
  BY Zenon DEF gen_branch_offset
<1>3. jump_limit - k.pc = 4 * (INSTR_COUNT - n)
  BY <1>1 DEF jump_limit
<1>4. (jump_limit - k.pc - 1) \div 4 = INSTR_COUNT - n - 1
  BY <1>1, <1>3
<1>5. q \in Nat /\ (~EXCEPTIONS => q >= 1)
  BY <1>1
<1> QED BY <1>1, <1>2, <1>3, <1>4, <1>5 DEF jump_limit

\* No branch is made for a slot or for the last word.
LEMMA BranchPlace ==
  ASSUME NEW k, NEW u, NEW i, \E t \in candidate_types(k, u) : Suits(k, t, u, i), i.op \in Branch
  PROVE  /\ k.state.at # "InDelaySlot" /\ k.pc + 4 # jump_limit
         /\ i.op \in BranchRT \cup BranchZ => i.imm \in gen_branch_offset(k)
         /\ i.op \in {"j", "jal"} => i.imm \in gen_jump_addr(k)
         /\ i.op \in JumpReg => i.rs \in jr_candidates(k, u)
         /\ i.op = "jalr" => i.rd # i.rs
<1>1. PICK t \in candidate_types(k, u) : Suits(k, t, u, i)
  OBVIOUS
<1>2. i.op = Built(t)
  BY <1>1 DEF Suits
<1>3. t = i.op
  <2>1. t # "nop" /\ t # "sh"
    BY <1>2 DEF Built, Branch, BranchRT, BranchZ, JumpReg
  <2> QED BY <1>2, <2>1 DEF Built
<1>4. k.state.at # "InDelaySlot" /\ k.pc + 4 # jump_limit
  BY <1>1, <1>3 DEF candidate_types, instr_set_no_branch, is_branch
<1> QED BY <1>1, <1>3, <1>4 DEF Suits, gen_grf_read_addr

\* An offset of a forward branch is not taken for a negative one.
LEMMA SmallOffset ==
  ASSUME NEW o \in Nat, o < HALF \div 2
  PROVE  S(ExtHalf(o)) = o
<1>1. HALF \in Nat /\ HALF >= 4 /\ WORDS = HALF * HALF
  <2>1. BYTE \in Nat /\ BYTE >= 2 /\ HALF \in Nat /\ HALF = BYTE * BYTE /\ WORDS = HALF * HALF
    BY Sizes
  <2>2. BYTE * BYTE >= 2 * BYTE
    BY <2>1
  <2> QED BY <2>1, <2>2
<1>2. HALF <= WORDS \div 2
  <2>1. HALF * HALF >= 2 * HALF
    BY <1>1
  <2> QED BY <1>1, <2>1
<1>3. o % HALF = o
  <2>1. o \in 0 .. HALF - 1
    BY <1>1
  <2> QED BY <1>1, <2>1, SmallMod
<1>4. ExtHalf(o) = o
  BY <1>3 DEF ExtHalf
<1>5. o < WORDS \div 2
  BY <1>1, <1>2
<1> QED BY <1>4, <1>5 DEF S

\* The region of a jump is not empty.
LEMMA RegionFacts == Region \in Nat \ {0}
<1> DEFINE h == BITS - REGION_BITS
<1>1. h \in 0 .. BITS
  BY WordsAssumption, DecodeAssumption
<1> HIDE DEF h
<1>2. 2^h \in Nat \ {0}
  BY <1>1, PowerPositive
<1> QED BY <1>2 DEF Region, h

\* Where a generated branch goes: forward, at most behind the last word.
LEMMA GoesForward ==
  ASSUME NEW k, NEW n \in 0 .. INSTR_COUNT - 1, k.pc = TEXT_MIN + 4 * n, NEW u \in {FALSE, EXCEPTIONS}, NEW i,
         \E t \in candidate_types(k, u) : Suits(k, t, u, i), i.op \in Branch
  PROVE  /\ Target(i, k) \in k.pc + 1 .. jump_limit
         /\ ~EXCEPTIONS => Target(i, k) % 4 = 0
         /\ ~EXCEPTIONS /\ i.op \notin JumpReg => Target(i, k) >= k.pc + 8
<1>1. /\ TEXT_MIN \in Nat /\ TEXT_MIN % 4 = 0 /\ INSTR_COUNT \in Nat \ {0} /\ INSTR_COUNT <= HALF \div 2
      /\ jump_limit = TEXT_MIN + 4 * INSTR_COUNT /\ jump_limit < WORDS /\ jump_limit < Region
      /\ WORDS \in Nat /\ HALF \in Nat
  BY GeneratorAssumption, Sizes DEF jump_limit
<1>2. /\ n \in 0 .. INSTR_COUNT - 2
      /\ i.op \in BranchRT \cup BranchZ => i.imm \in gen_branch_offset(k)
      /\ i.op \in {"j", "jal"} => i.imm \in gen_jump_addr(k)
      /\ i.op \in JumpReg => i.rs \in jr_candidates(k, u)
  <2>1. /\ k.pc + 4 # jump_limit
        /\ i.op \in BranchRT \cup BranchZ => i.imm \in gen_branch_offset(k)
        /\ i.op \in {"j", "jal"} => i.imm \in gen_jump_addr(k)
        /\ i.op \in JumpReg => i.rs \in jr_candidates(k, u)
    BY BranchPlace
  <2>2. n \in 0 .. INSTR_COUNT - 2
    BY <1>1, <2>1
  <2> QED BY <2>1, <2>2
<1>3. k.pc \in Nat /\ k.pc % 4 = 0 /\ k.pc < jump_limit
  BY <1>1, <1>2
<1>4. CASE i.op \in BranchRT \cup BranchZ
  <2> DEFINE o == i.imm
  <2>1. o \in 0 .. INSTR_COUNT - 1 /\ (~EXCEPTIONS => o >= 1) /\ k.pc + 4 * (o + 1) <= jump_limit
    BY <1>2, <1>4, OffsetForward
  <2>2. S(Simm(i)) = o
    BY <1>1, <2>1, SmallOffset DEF Simm
  <2>3. Target(i, k) = U(U(k.pc + 4 * S(Simm(i))) + 4)
    BY <1>4 DEF Target, BranchRT, BranchZ, JumpReg
  <2> HIDE DEF o
  <2>4. k.pc + 4 * o \in Word /\ k.pc + 4 * o + 4 \in Word
    BY <1>1, <1>3, <2>1 DEF Word
  <2>5. Target(i, k) = k.pc + 4 * o + 4
    BY <2>2, <2>3, <2>4, Wraps
  <2>6. (k.pc + 4 * o + 4) % 4 = 0
    BY <1>3, <2>1
  <2> QED BY <1>1, <1>3, <2>1, <2>5, <2>6
<1>5. CASE i.op \in {"j", "jal"}
  <2>1. PICK o \in gen_branch_offset(k) : i.imm = k.pc \div 4 + o + 1
    BY <1>2, <1>5 DEF gen_jump_addr
  <2>2. o \in 0 .. INSTR_COUNT - 1 /\ (~EXCEPTIONS => o >= 1) /\ k.pc + 4 * (o + 1) <= jump_limit
    BY <1>2, <2>1, OffsetForward
  <2>3. 4 * i.imm = k.pc + 4 * (o + 1)
    <3>1. 4 * (k.pc \div 4) = k.pc
      BY <1>3
    <3> QED BY <1>3, <2>1, <2>2, <3>1
  <2>4. Target(i, k) = (k.pc \div Region) * Region + (U(4 * i.imm) % Region)
    BY <1>5 DEF Target, JumpReg
  <2> DEFINE d == k.pc + 4 * (o + 1)
  <2>5. d \in Nat /\ d > k.pc /\ d <= jump_limit /\ (~EXCEPTIONS => d >= k.pc + 8)
    BY <1>1, <1>3, <2>2
  <2>9. d % 4 = 0
    <3>1. PICK c \in Nat : k.pc = 4 * c
      BY <1>3
    <3>2. d = 4 * (c + o + 1) /\ c + o + 1 \in Nat
      BY <2>2, <3>1
    <3> HIDE DEF d
    <3> QED BY <3>2
  <2>6. Target(i, k) = (k.pc \div Region) * Region + (U(d) % Region)
    BY <2>3, <2>4
  <2> HIDE DEF d
  <2>10. d \in Word /\ d \in 0 .. Region - 1 /\ k.pc \in 0 .. Region - 1
    BY <1>1, <1>3, <2>5, RegionFacts DEF Word
  <2>7. U(d) = d /\ d % Region = d /\ k.pc \div Region = 0
    BY <2>10, Wraps, SmallMod, RegionFacts
  <2>8. Target(i, k) = d
    BY <2>5, <2>6, <2>7, RegionFacts
  <2> QED BY <1>1, <1>3, <2>5, <2>8, <2>9
<1>6. CASE i.op \in JumpReg
  <2>1. Target(i, k) = k.grf[i.rs]
    BY <1>6 DEF Target, JumpReg, Rs
  <2>2. k.grf[i.rs] \in k.pc + 1 .. jump_limit - 1
    BY <1>2, <1>6 DEF jr_candidates
  <2>3. ~EXCEPTIONS => k.grf[i.rs] % 4 = 0
    BY <1>2, <1>6 DEF jr_candidates
  <2> QED BY <1>1, <1>3, <1>6, <2>1, <2>2, <2>3
<1> QED BY <1>4, <1>5, <1>6 DEF Branch

\* With the right options there is always a type to choose and, thanks to $0, a base for every
\* address; a jump register is only asked for where there is one (gen.rs:75, :198-210).
LEMMA NothingLacks ==
  ASSUME NEW k, Steady(k), OptionsServe
  PROVE  ~NothingToChoose(k)
<1>1. /\ MEM_SIZE \in Nat \ {0} /\ HALF \in Nat
      /\ InstrSet \cap (Load \cup Store) # {} => 4 * MEM_SIZE <= HALF \div 2
  BY GeneratorAssumption, Sizes DEF OptionsServe
<1>2. ASSUME NEW u PROVE candidate_types(k, u) # {}
  <2>1. PICK t \in InstrSet : t \notin Branch
    BY DEF OptionsServe
  <2>2. t \notin JumpReg
    BY <2>1 DEF Branch
  <2> QED BY <2>1, <2>2 DEF candidate_types, instr_set_no_branch, is_branch
<1>3. ASSUME NEW u PROVE candidate_types(k, u) \cap JumpReg # {} => jr_candidates(k, u) # {}
  BY DEF candidate_types, instr_set_no_branch, is_branch, Branch
<1>4. ASSUME NEW u, NEW t \in candidate_types(k, u) \cap (Load \cup Store), NEW a \in mem_addr
      PROVE  base_candidates(k, a - (a % Alignment(t))) # {}
  <2>1. 0 \in DOMAIN k.grf /\ k.grf[0] = 0
    BY DEF Steady
  <2>2. 4 * MEM_SIZE <= HALF \div 2
    BY <1>1 DEF candidate_types, instr_set_no_branch
  <2> DEFINE d == a - (a % Alignment(t))
  <2>3. d \in 0 .. 4 * MEM_SIZE - 1
    <3>1. Alignment(t) \in {1, 2, 4}
      BY DEF Alignment
    <3>2. a \in Nat /\ a <= 4 * MEM_SIZE - 1
      BY <1>1 DEF mem_addr
    <3>3. a % Alignment(t) \in 0 .. a
      BY <3>1, <3>2
    <3> QED BY <1>1, <3>2, <3>3
  <2> HIDE DEF d
  <2>4. InHalf(d - k.grf[0])
    BY <1>1, <2>1, <2>2, <2>3 DEF InHalf
  <2>5. base_candidates(k, d) # {}
    BY <2>1, <2>4 DEF base_candidates
  <2> QED BY <2>5 DEF d
<1> QED BY <1>2, <1>3, <1>4 DEF NothingToChoose

\* The options are needed.  With branches alone nothing can be put into the last word (gen.rs:199), ...
LEMMA BranchesPanic ==
  ASSUME InstrSet \subseteq Branch, NEW k, k.pc + 4 = jump_limit
  PROVE  NothingToChoose(k)
BY DEF NothingToChoose, candidate_types, instr_set_no_branch, is_branch

\* ... and where data memory goes on beyond the offsets of $0, the first word may need a base that
\* no register is (gen.rs:143-160).
LEMMA FarDataPanics ==
  ASSUME InstrSet \cap (Load \cup Store) # {}, 4 * MEM_SIZE > HALF \div 2, HALF \div 2 % 4 = 0
  PROVE  NothingToChoose(New)
<1>1. MEM_SIZE \in Nat \ {0} /\ HALF \in Nat /\ NREG \in Nat \ {0}
  BY GeneratorAssumption, Sizes
<1>2. PICK t \in InstrSet : t \in Load \cup Store
  OBVIOUS
<1>3. t \notin Branch /\ t \notin JumpReg
  BY <1>2 DEF Load, Store, Branch, BranchRT, BranchZ, JumpReg
<1>4. t \in candidate_types(New, FALSE)
  BY <1>2, <1>3 DEF candidate_types, instr_set_no_branch, is_branch
<1> DEFINE a == 4 * MEM_SIZE - 4
           d == a - (a % Alignment(t))
<1>5. a \in mem_addr /\ a % 4 = 0 /\ a >= HALF \div 2
  <2> DEFINE h == HALF \div 2
  <2>1. h \in Nat /\ 4 * MEM_SIZE > h /\ h % 4 = 0
    BY <1>1
  <2> HIDE DEF h
  <2>2. 4 * MEM_SIZE - 4 >= h
    BY <1>1, <2>1
  <2>3. 4 * MEM_SIZE - 4 \in 0 .. 4 * MEM_SIZE - 1 /\ (4 * MEM_SIZE - 4) % 4 = 0
    BY <1>1
  <2> QED BY <2>2, <2>3 DEF mem_addr, h
<1>6. d = a
  <2>1. Alignment(t) \in {1, 2, 4}
    BY DEF Alignment
  <2>2. a \in Nat
    BY <1>1
  <2> HIDE DEF a
  <2> QED BY <1>5, <2>1, <2>2
<1>7. base_candidates(New, a) = {}
  <2>1. \A r \in DOMAIN New.grf : New.grf[r] = 0
    BY DEF New
  <2>2. ~InHalf(a - 0)
    BY <1>1, <1>5 DEF InHalf
  <2> QED BY <2>1, <2>2 DEF base_candidates
<1> QED BY <1>2, <1>4, <1>5, <1>6, <1>7 DEF NothingToChoose

\* What the generator may make trips no assertion of the emulator (machine.rs:168-193).
LEMMA NothingFails ==
  ASSUME NEW k, Steady(k), NEW n \in 0 .. INSTR_COUNT - 1, k.pc = TEXT_MIN + 4 * n, NEW i \in Candidates(k)
  PROVE  ~AssertionFails(k, i)
<1>1. PICK u \in {FALSE, EXCEPTIONS} : \E t \in candidate_types(k, u) : Suits(k, t, u, i)
  BY DEF Candidates
<1>2. CASE k.state.at = "Normal"
  <2>1. ASSUME i.op \in Branch PROVE ~(Target(i, k) <= k.pc)
    <3>1. Target(i, k) \in k.pc + 1 .. jump_limit
      BY <1>1, <2>1, GoesForward
    <3>2. k.pc \in Nat /\ jump_limit \in Nat
      BY GeneratorAssumption DEF jump_limit
    <3> QED BY <3>1, <3>2
  <2>2. BranchResult(i, k) # <<>> => i.op \in Branch /\ BranchResult(i, k)[1] = Target(i, k)
    BY DEF BranchResult
  <2>3. ~(i.op = "jalr" /\ i.rs = i.rd)
    <3>1. i.op = "jalr" => i.op \in Branch
      BY DEF Branch, JumpReg
    <3> QED BY <1>1, <3>1, BranchPlace
  <2> QED BY <1>2, <2>1, <2>2, <2>3 DEF AssertionFails
<1>3. CASE k.state.at = "InDelaySlot"
  <2>1. i.op \notin Branch
    BY <1>1, <1>3, BranchPlace
  <2>2. DELAYED
    BY <1>3 DEF Steady
  <2> QED BY <1>3, <2>1, <2>2 DEF AssertionFails
<1>4. CASE k.state.at = "Branching"
  BY <1>4 DEF AssertionFails
<1> QED BY <1>2, <1>3, <1>4 DEF Steady

Generating == Steady(machine) /\ AtWord(machine)

\* The machine an instruction is chosen for, after an interrupt or not.
LEMMA StartedSteady ==
  ASSUME Generating, NEW irq
  PROVE  Steady(Started(irq)) /\ Started(irq).pc = machine.pc
BY InterruptSteady DEF Started, Generating

\* A program that is not complete lacks a word.
LEMMA BeforeWord ==
  ASSUME Generating, ~Generated
  PROVE  \E n \in 0 .. INSTR_COUNT - 1 : machine.pc = TEXT_MIN + 4 * n
BY GeneratorAssumption DEF Generating, AtWord, Generated, jump_limit

\* So nothing panics between two words.
LEMMA GeneratingPanics == ASSUME Generating PROVE NeverPanics
<1> SUFFICES ASSUME ~Generated, NEW irq \in {FALSE, EXCEPTIONS}
             PROVE  LET k == Started(irq)
                    IN (OptionsServe => ~NothingToChoose(k)) /\ \A i \in Candidates(k) : ~AssertionFails(k, i)
  BY DEF NeverPanics
<1> DEFINE k == Started(irq)
<1>1. Steady(k) /\ k.pc = machine.pc
  BY StartedSteady
<1>2. PICK n \in 0 .. INSTR_COUNT - 1 : machine.pc = TEXT_MIN + 4 * n
  BY BeforeWord
<1> HIDE DEF k
<1>3. OptionsServe => ~NothingToChoose(k)
  BY <1>1, NothingLacks
<1>4. \A i \in Candidates(k) : ~AssertionFails(k, i)
  BY <1>1, <1>2, NothingFails
<1> QED BY <1>3, <1>4 DEF k

\* The new machine stands in front of the first word.
LEMMA NewMachine == Steady(New) /\ New.pc = TEXT_MIN
<1>1. IsMachine(New)
  BY DEF New, IsMachine, Parts
<1>2. New.grf = [r \in 0 .. NREG - 1 |-> 0] /\ New.state = Normal /\ New.pc = TEXT_MIN
  BY DEF New
<1>3. 0 \in 0 .. NREG - 1
  BY GeneratorAssumption
<1> QED BY <1>1, <1>2, <1>3 DEF Steady, Normal

\* Generating or running, the emulator stands between two words.
LEMMA GeneratingStep == Generating /\ [RunNext]_<<tester, isa>> => Generating'
<1> SUFFICES ASSUME Generating, [RunNext]_<<tester, isa>> PROVE Generating'
  OBVIOUS
<1>1. CASE UNCHANGED machine
  BY <1>1 DEF Generating, AtWord
<1>2. CASE GenerateOne
  <2>1. ~Generated /\ \E irq \in {FALSE, EXCEPTIONS} : \E i : machine' = Execute(Started(irq), i)
    BY <1>2 DEF GenerateOne, Generate
  <2>2. PICK irq, i : machine' = Execute(Started(irq), i)
    BY <2>1
  <2>3. PICK n \in 0 .. INSTR_COUNT - 1 : machine.pc = TEXT_MIN + 4 * n
    BY <2>1, BeforeWord
  <2> DEFINE k == Started(irq)
             e == Execute(k, i)
  <2>4. Steady(k) /\ k.pc = machine.pc
    BY StartedSteady
  <2> HIDE DEF k
  <2>5. Steady(e) /\ e.pc = k.pc + 4
    BY <2>4, ExecuteSteady
  <2>6. machine' = e
    BY <2>2 DEF k
  <2> HIDE DEF e
  <2>7. e.pc = TEXT_MIN + 4 * (n + 1) /\ n + 1 \in 0 .. INSTR_COUNT
    BY <2>3, <2>4, <2>5, GeneratorAssumption
  <2>8. Steady(e) /\ AtWord(e)
    BY <2>5, <2>7 DEF AtWord
  <2>9. Steady(machine') /\ AtWord(machine')
    BY <2>6, <2>8
  <2> QED BY <2>9 DEF Generating
<1> QED BY <1>1, <1>2 DEF RunNext, Loaded, Run, tester

\* With options that leave something to choose, the generator never chooses a type, a jump register
\* or a base from nothing; with any, what it makes never trips a debug assertion of the emulator;
\* with or without delayed branches, exceptions and interrupts (gen.rs:75, machine.rs:168-193).
THEOREM NeverPanicsHolds == RunSpec => []NeverPanics
<1>1. RunInit => Generating
  <2>1. 0 \in 0 .. INSTR_COUNT /\ TEXT_MIN = TEXT_MIN + 4 * 0
    BY GeneratorAssumption
  <2> QED BY <2>1, NewMachine DEF RunInit, GenInit, Generating, AtWord
<1>2. Generating => NeverPanics
  BY GeneratingPanics
<1> QED BY <1>1, <1>2, GeneratingStep, PTL DEF RunSpec
-----------------------------------------------------------------------------
(* The three copies of the semantics: the emulator's own, that of the       *)
(* sequential machine, whose memory fills the address space, and that of    *)
(* the proofs about the pipelines.                                          *)

\* The sequential machine has the semantics of the emulator.
LEMMA MachineSemantics ==
  \A i, m : /\ I!E!Effect(i, m) = Effect(i, m)
            /\ I!E!BranchResult(i, m) = BranchResult(i, m)
            /\ I!E!Addr(i, m) = Addr(i, m)
<1> USE DEF I!E!Arith3, Arith3, I!E!AddSub, AddSub, I!E!Logic, Logic, I!E!Compare, Compare, I!E!Shift, Shift, 
     I!E!ShiftV, ShiftV, I!E!AddImm, AddImm, I!E!LogicImm, LogicImm, I!E!CmpImm, CmpImm, I!E!ArithImm, ArithImm, 
     I!E!Load, Load, I!E!Store, Store, I!E!MulDiv, MulDiv, I!E!Branch, Branch, I!E!BranchRT, BranchRT, I!E!BranchZ, 
     BranchZ, I!E!JumpReg, JumpReg, I!E!WORDS, WORDS, I!E!BYTE, BYTE, I!E!HALF, HALF, I!E!U, U, I!E!S, S, I!E!Bit, Bit, 
     I!E!And, And, I!E!Or, Or, I!E!Xor, Xor, I!E!Sll, Sll, I!E!Srl, Srl, I!E!Sra, Sra, I!E!Flag, Flag, I!E!ExtHalf, 
     ExtHalf, I!E!ExtByte, ExtByte, I!E!Lane, Lane, I!E!Quot, Quot, I!E!Rem, Rem, I!E!AbsVal, AbsVal, I!E!SetGrf, 
     SetGrf, I!E!Rs, Rs, I!E!Rt, Rt, I!E!Simm, Simm, I!E!Addr, Addr, I!E!Granule, Granule, I!E!Fits, Fits, I!E!Operand, 
     Operand, I!E!SumValue, SumValue, I!E!CompareValue, CompareValue, I!E!LogicValue, LogicValue, I!E!ShiftValue, 
     ShiftValue, I!E!Value, Value, I!E!Bytes, Bytes, I!E!FromBytes, FromBytes, I!E!LoadValue, LoadValue, 
     I!E!StoreValue, StoreValue, I!E!Product, Product, I!E!MulDivEffect, MulDivEffect, I!E!HiLoEffect, HiLoEffect, 
     I!E!Effect, Effect, I!E!Taken, Taken, I!E!Region, Region, I!E!Target, Target, I!E!BranchResult, BranchResult
<1> SUFFICES ASSUME NEW i, NEW m
             PROVE  /\ I!E!Effect(i, m) = Effect(i, m)
                    /\ I!E!BranchResult(i, m) = BranchResult(i, m)
                    /\ I!E!Addr(i, m) = Addr(i, m)
  OBVIOUS
<1>1. I!E!Effect(i, m) = Effect(i, m)
  BY Zenon
<1>2. I!E!BranchResult(i, m) = BranchResult(i, m)
  BY Zenon
<1>3. I!E!Addr(i, m) = Addr(i, m)
  BY Zenon
<1> QED BY ONLY <1>1, <1>2, <1>3

\* So has the emulator that the proofs of the pipelines are about.
LEMMA PipelineSemantics ==
  \A i, m : /\ Em!Effect(i, m) = Effect(i, m)
            /\ Em!BranchResult(i, m) = BranchResult(i, m)
            /\ Em!Addr(i, m) = Addr(i, m) /\ Em!Rs(i, m) = Rs(i, m) /\ Em!Rt(i, m) = Rt(i, m)
            /\ Em!Exception(i, m) = I!E!Exception(i, m)
<1> USE DEF Em!Arith3, Arith3, Em!AddSub, AddSub, Em!Logic, Logic, Em!Compare, Compare, Em!Shift, Shift, Em!ShiftV, 
     ShiftV, Em!AddImm, AddImm, Em!LogicImm, LogicImm, Em!CmpImm, CmpImm, Em!ArithImm, ArithImm, Em!Load, Load, 
     Em!Store, Store, Em!MulDiv, MulDiv, Em!Branch, Branch, Em!BranchRT, BranchRT, Em!BranchZ, BranchZ, Em!JumpReg, 
     JumpReg, Em!WORDS, WORDS, Em!BYTE, BYTE, Em!HALF, HALF, Em!U, U, Em!S, S, Em!Bit, Bit, Em!And, And, Em!Or, Or, 
     Em!Xor, Xor, Em!Sll, Sll, Em!Srl, Srl, Em!Sra, Sra, Em!Flag, Flag, Em!ExtHalf, ExtHalf, Em!ExtByte, ExtByte, 
     Em!Lane, Lane, Em!Quot, Quot, Em!Rem, Rem, Em!AbsVal, AbsVal, Em!SetGrf, SetGrf, Em!Rs, Rs, Em!Rt, Rt, Em!Simm, 
     Simm, Em!Addr, Addr, Em!Granule, Granule, Em!Fits, Fits, Em!Operand, Operand, Em!SumValue, SumValue, 
     Em!CompareValue, CompareValue, Em!LogicValue, LogicValue, Em!ShiftValue, ShiftValue, Em!Value, Value, Em!Bytes, 
     Bytes, Em!FromBytes, FromBytes, Em!LoadValue, LoadValue, Em!StoreValue, StoreValue, Em!Product, Product, 
     Em!MulDivEffect, MulDivEffect, Em!HiLoEffect, HiLoEffect, Em!Effect, Effect, Em!Taken, Taken, Em!Region, Region, 
     Em!Target, Target, Em!BranchResult, BranchResult
<1> SUFFICES ASSUME NEW i, NEW m
             PROVE  /\ Em!Effect(i, m) = Effect(i, m)
                    /\ Em!BranchResult(i, m) = BranchResult(i, m)
                    /\ Em!Addr(i, m) = Addr(i, m) /\ Em!Rs(i, m) = Rs(i, m) /\ Em!Rt(i, m) = Rt(i, m)
                    /\ Em!Exception(i, m) = I!E!Exception(i, m)
  OBVIOUS
<1>1. Em!Effect(i, m) = Effect(i, m)
  BY Zenon
<1>2. Em!BranchResult(i, m) = BranchResult(i, m)
  BY Zenon
<1>3. Em!Addr(i, m) = Addr(i, m) /\ Em!Rs(i, m) = Rs(i, m) /\ Em!Rt(i, m) = Rt(i, m)
  BY Zenon
<1>4. Em!Exception(i, m) = I!E!Exception(i, m)
  BY Zenon DEF Em!Exception, Em!BadAddr, I!E!Exception, I!E!BadAddr, I!WORDS, I!E!Addr, I!E!Simm, I!E!Rs, I!E!Rt, I!E!U, I!E!S, I!E!WORDS, I!E!Granule, I!E!Fits, I!E!Load, I!E!Store, I!E!ExtHalf, I!E!HALF
<1> QED BY ONLY <1>1, <1>2, <1>3, <1>4

\* An access inside data memory raises the same exceptions whatever the size of the memory.
LEMMA SameException ==
  ASSUME NEW i, NEW m, Addr(i, m) \in Word, i.op \in Load \cup Store => Addr(i, m) < 4 * MEM_SIZE
  PROVE  Exception(i, m) = I!E!Exception(i, m)
<1>1. /\ I!E!Rs(i, m) = Rs(i, m) /\ I!E!Rt(i, m) = Rt(i, m) /\ I!E!Simm(i) = Simm(i) /\ I!E!Addr(i, m) = Addr(i, m)
      /\ I!E!Load = Load /\ I!E!Store = Store /\ I!E!Granule(i) = Granule(i)
      /\ \A n : I!E!Fits(n) = Fits(n) /\ I!E!S(n) = S(n)
  BY Zenon DEF I!E!Rs, Rs, I!E!Rt, Rt, I!E!Simm, Simm, I!E!Addr, Addr, I!E!Load, Load, I!E!Store, Store,
     I!E!Granule, Granule, I!E!Fits, Fits, I!E!S, S, I!E!WORDS, WORDS, I!E!U, U, I!E!ExtHalf, ExtHalf, I!E!HALF, HALF
<1>2. i.op \in Load \cup Store => Addr(i, m) \div 4 < MEM_SIZE /\ Addr(i, m) \div 4 < WORDS \div 4 /\ Addr(i, m) \div 4 \in Nat
  BY WordsDivisible, GeneratorAssumption DEF Word
<1>3. i.op \in Load \cup Store => (BadAddr(i, m) <=> I!E!BadAddr(i, m))
  BY <1>1, <1>2, WordsDivisible, GeneratorAssumption DEF BadAddr, I!E!BadAddr, I!WORDS, WORDS
<1> HIDE DEF Load, Store
<1>4. CASE i.op \in Load \cup Store
  BY <1>1, <1>3, <1>4, Zenon DEF Exception, I!E!Exception, Load, Store
<1>5. CASE i.op \notin Load \cup Store
  BY <1>1, <1>5, Zenon DEF Exception, I!E!Exception
<1> QED BY <1>4, <1>5
-----------------------------------------------------------------------------
(* The emulator and the sequential machine read and write the same: one has *)
(* a small memory, the other the same memory over and over again.           *)

\* The machine of an instruction: what of it the semantics look at.
View5(k, mm) == [pc |-> k.pc, grf |-> k.grf, lo |-> k.lo, hi |-> k.hi, mem |-> mm]

\* What an instruction reads in both.
LEMMA SameReads ==
  ASSUME NEW i, NEW k, NEW mm
  PROVE  LET m == View5(k, mm)
         IN /\ Rs(i, m) = Rs(i, k) /\ Rt(i, m) = Rt(i, k) /\ Addr(i, m) = Addr(i, k)
            /\ Value(i, m) = Value(i, k) /\ BranchResult(i, m) = BranchResult(i, k)
            /\ m.pc = k.pc /\ m.grf = k.grf /\ m.lo = k.lo /\ m.hi = k.hi /\ m.mem = mm
<1> DEFINE m == View5(k, mm)
<1>1. m.pc = k.pc /\ m.grf = k.grf /\ m.lo = k.lo /\ m.hi = k.hi /\ m.mem = mm
  BY DEF View5
<1> HIDE DEF m
<1>2. Rs(i, m) = Rs(i, k) /\ Rt(i, m) = Rt(i, k)
  BY <1>1, Zenon DEF Rs, Rt
<1>3. Addr(i, m) = Addr(i, k)
  BY <1>2, Zenon DEF Addr
<1>4. Operand(i, m) = Operand(i, k)
  BY <1>2, Zenon DEF Operand
<1>5. Value(i, m) = Value(i, k)
  BY <1>2, <1>4, Zenon DEF Value
<1>6. Taken(i, m) = Taken(i, k)
  BY <1>2, Zenon DEF Taken
<1>7. Target(i, m) = Target(i, k)
  BY <1>1, <1>2, Zenon DEF Target
<1>8. BranchResult(i, m) = BranchResult(i, k)
  BY <1>6, <1>7, Zenon DEF BranchResult
<1> QED BY <1>1, <1>2, <1>3, <1>5, <1>8 DEF m

\* An instruction raises the same exception whatever is in memory.
LEMMA SameTrap ==
  ASSUME NEW i, NEW k, NEW mm
  PROVE  Exception(i, View5(k, mm)) = Exception(i, k)
<1> DEFINE m == View5(k, mm)
<1>1. Rs(i, m) = Rs(i, k) /\ Rt(i, m) = Rt(i, k) /\ Addr(i, m) = Addr(i, k)
  BY SameReads
<1> HIDE DEF m
<1>2. BadAddr(i, m) = BadAddr(i, k)
  BY <1>1, Zenon DEF BadAddr
<1>3. Exception(i, m) = Exception(i, k)
  BY <1>1, <1>2, Zenon DEF Exception
<1> QED BY <1>3 DEF m

\* A word that is the same in both gives the same value to load and to store.
LEMMA SameMemory ==
  ASSUME NEW i, NEW k, NEW mm, mm[Addr(i, k) \div 4] = k.mem[Addr(i, k) \div 4]
  PROVE  LET m == View5(k, mm)
         IN LoadValue(i, m) = LoadValue(i, k) /\ StoreValue(i, m) = StoreValue(i, k)
<1> DEFINE m == View5(k, mm)
<1>1. Rt(i, m) = Rt(i, k) /\ Addr(i, m) = Addr(i, k) /\ m.mem = mm
  BY SameReads
<1> HIDE DEF m
<1>2. LoadValue(i, m) = LoadValue(i, k)
  BY <1>1, Zenon DEF LoadValue
<1>3. StoreValue(i, m) = StoreValue(i, k)
  BY <1>1, Zenon DEF StoreValue
<1> QED BY <1>2, <1>3 DEF m

SameFile(e, f) == e.grf = f.grf /\ e.lo = f.lo /\ e.hi = f.hi

\* Writing a register, or HI and LO, of either.
LEMMA SameSet ==
  ASSUME NEW k, IsMachine(k), NEW mm, NEW r, NEW v
  PROVE  LET m == View5(k, mm)
         IN SameFile(SetGrf(k, r, v), SetGrf(m, r, v)) /\ SetGrf(k, r, v).mem = k.mem /\ SetGrf(m, r, v).mem = mm
<1>1. SetGrf(View5(k, mm), r, v) = View5([grf |-> IF r = 0 THEN k.grf ELSE Put(k.grf, r, v), pc |-> k.pc, lo |-> k.lo, hi |-> k.hi], mm)
  BY DEF SetGrf, View5, Put
<1>2. SetGrf(k, r, v).grf = (IF r = 0 THEN k.grf ELSE Put(k.grf, r, v)) /\ SetGrf(k, r, v).lo = k.lo /\ SetGrf(k, r, v).hi = k.hi
      /\ SetGrf(k, r, v).mem = k.mem
  BY SetKeeps
<1> QED BY <1>1, <1>2 DEF View5, SameFile

\* Writing HI or LO of both.
LEMMA SameHiLoUpdates ==
  ASSUME NEW k, IsMachine(k), NEW mm, NEW v, NEW w
  PROVE  LET m == View5(k, mm)
         IN /\ SameFile(WithHiLo(k, v, w), WithHiLo(m, v, w)) /\ WithHiLo(k, v, w).mem = k.mem /\ WithHiLo(m, v, w).mem = mm
            /\ SameFile(WithLo(k, v), WithLo(m, v)) /\ WithLo(k, v).mem = k.mem /\ WithLo(m, v).mem = mm
            /\ SameFile(WithHi(k, v), WithHi(m, v)) /\ WithHi(k, v).mem = k.mem /\ WithHi(m, v).mem = mm
<1> DEFINE m == View5(k, mm)
<1>1. /\ WithHiLo(m, v, w) = View5([pc |-> k.pc, grf |-> k.grf, lo |-> v, hi |-> w], mm)
      /\ WithLo(m, v) = View5([pc |-> k.pc, grf |-> k.grf, lo |-> v, hi |-> k.hi], mm)
      /\ WithHi(m, v) = View5([pc |-> k.pc, grf |-> k.grf, lo |-> k.lo, hi |-> v], mm)
  <2>1. WithHiLo(m, v, w) = View5([pc |-> k.pc, grf |-> k.grf, lo |-> v, hi |-> w], mm)
    <3> DEFINE n == WithLo(m, v)
    <3>1. WithHiLo(m, v, w) = WithHi(n, w)
      BY Zenon DEF WithHiLo, WithHi, WithLo
    <3>2. n = View5([pc |-> k.pc, grf |-> k.grf, lo |-> v, hi |-> k.hi], mm)
      BY DEF WithLo, View5
    <3> HIDE DEF n
    <3>3. WithHi(n, w) = View5([pc |-> k.pc, grf |-> k.grf, lo |-> v, hi |-> w], mm)
      BY <3>2 DEF WithHi, View5
    <3> QED BY <3>1, <3>3
  <2>2. WithLo(m, v) = View5([pc |-> k.pc, grf |-> k.grf, lo |-> v, hi |-> k.hi], mm)
    BY DEF WithLo, View5
  <2>3. WithHi(m, v) = View5([pc |-> k.pc, grf |-> k.grf, lo |-> k.lo, hi |-> v], mm)
    BY DEF WithHi, View5
  <2> QED BY <2>1, <2>2, <2>3
<1>2. /\ WithHiLo(k, v, w).grf = k.grf /\ WithHiLo(k, v, w).lo = v /\ WithHiLo(k, v, w).hi = w /\ WithHiLo(k, v, w).mem = k.mem
      /\ WithLo(k, v).grf = k.grf /\ WithLo(k, v).lo = v /\ WithLo(k, v).hi = k.hi /\ WithLo(k, v).mem = k.mem
      /\ WithHi(k, v).grf = k.grf /\ WithHi(k, v).lo = k.lo /\ WithHi(k, v).hi = v /\ WithHi(k, v).mem = k.mem
  BY HiLoUpdate, Updates DEF Only, Parts
<1> HIDE DEF m
<1>3. \A x : View5(x, mm).grf = x.grf /\ View5(x, mm).lo = x.lo /\ View5(x, mm).hi = x.hi /\ View5(x, mm).mem = mm
  BY DEF View5
<1> QED BY <1>1, <1>2, <1>3 DEF SameFile, m

\* The effect of an instruction that is no store.
Alike(k, m, e, f) == SameFile(e, f) /\ e.mem = k.mem /\ f.mem = m.mem

\* What an operation does to HI and LO, by its kind.
LEMMA HiLoForm ==
  ASSUME NEW i, NEW k
  PROVE  /\ i.op = "mult" => HiLoEffect(i, k) = Product(k, S(Rs(i, k)) * S(Rt(i, k)))
         /\ i.op = "multu" => HiLoEffect(i, k) = Product(k, Rs(i, k) * Rt(i, k))
         /\ i.op \in {"div", "divu"} /\ Rt(i, k) = 0 => HiLoEffect(i, k) = WithHiLo(k, 0, 0)
         /\ i.op = "div" /\ Rt(i, k) # 0 =>
              HiLoEffect(i, k) = WithHiLo(k, U(Quot(S(Rs(i, k)), S(Rt(i, k)))), U(Rem(S(Rs(i, k)), S(Rt(i, k)))))
         /\ i.op = "divu" /\ Rt(i, k) # 0 => HiLoEffect(i, k) = WithHiLo(k, Rs(i, k) \div Rt(i, k), Rs(i, k) % Rt(i, k))
         /\ i.op = "mtlo" => HiLoEffect(i, k) = WithLo(k, Rs(i, k))
         /\ i.op = "mthi" => HiLoEffect(i, k) = WithHi(k, Rs(i, k))
         /\ i.op \notin MulDiv \cup MoveTo => HiLoEffect(i, k) = k
<1>1. i.op \in MulDiv => HiLoEffect(i, k) = MulDivEffect(i, k)
  BY Zenon DEF HiLoEffect, MulDiv
<1>2. i.op = "mult" => MulDivEffect(i, k) = Product(k, S(Rs(i, k)) * S(Rt(i, k)))
  BY Zenon DEF MulDivEffect
<1>3. i.op = "multu" => MulDivEffect(i, k) = Product(k, Rs(i, k) * Rt(i, k))
  BY Zenon DEF MulDivEffect
<1>4. i.op \in {"div", "divu"} /\ Rt(i, k) = 0 => MulDivEffect(i, k) = WithHiLo(k, 0, 0)
  BY Zenon DEF MulDivEffect, WithHiLo
<1>5. i.op = "div" /\ Rt(i, k) # 0 =>
        MulDivEffect(i, k) = WithHiLo(k, U(Quot(S(Rs(i, k)), S(Rt(i, k)))), U(Rem(S(Rs(i, k)), S(Rt(i, k)))))
  BY Zenon DEF MulDivEffect, WithHiLo
<1>6. i.op = "divu" /\ Rt(i, k) # 0 => MulDivEffect(i, k) = WithHiLo(k, Rs(i, k) \div Rt(i, k), Rs(i, k) % Rt(i, k))
  BY Zenon DEF MulDivEffect, WithHiLo
<1>7. i.op = "mtlo" => HiLoEffect(i, k) = WithLo(k, Rs(i, k))
  BY Zenon DEF HiLoEffect, WithLo, MulDiv
<1>8. i.op = "mthi" => HiLoEffect(i, k) = WithHi(k, Rs(i, k))
  BY Zenon DEF HiLoEffect, WithHi, MulDiv
<1>9. i.op \notin MulDiv \cup MoveTo => HiLoEffect(i, k) = k
  BY Zenon DEF HiLoEffect, MoveTo
<1>10. i.op \in {"mult", "multu", "div", "divu"} => i.op \in MulDiv
  BY DEF MulDiv
<1> QED BY <1>1, <1>2, <1>3, <1>4, <1>5, <1>6, <1>7, <1>8, <1>9, <1>10

\* The effect on HI and LO is the same in both.
LEMMA SameHiLo ==
  ASSUME NEW k, IsMachine(k), NEW mm, NEW i
  PROVE  Alike(k, View5(k, mm), HiLoEffect(i, k), HiLoEffect(i, View5(k, mm)))
<1> DEFINE m == View5(k, mm)
<1>0. Rs(i, m) = Rs(i, k) /\ Rt(i, m) = Rt(i, k) /\ m.mem = mm /\ Alike(k, m, k, m)
  BY SameReads DEF Alike, SameFile
<1>1. ASSUME NEW v, NEW w
      PROVE  Alike(k, m, WithHiLo(k, v, w), WithHiLo(m, v, w)) /\ Alike(k, m, WithLo(k, v), WithLo(m, v)) /\ Alike(k, m, WithHi(k, v), WithHi(m, v))
  BY <1>0, SameHiLoUpdates DEF Alike
<1> SUFFICES Alike(k, m, HiLoEffect(i, k), HiLoEffect(i, m))
  OBVIOUS
<1> HIDE DEF m
<1>2. ASSUME NEW p PROVE Alike(k, m, Product(k, p), Product(m, p))
  BY <1>1, Zenon DEF Product, WithHiLo
<1>3. CASE i.op = "mult"
  BY <1>0, <1>2, <1>3, HiLoForm
<1>4. CASE i.op = "multu"
  BY <1>0, <1>2, <1>4, HiLoForm
<1>5. CASE i.op = "div"
  BY <1>0, <1>1, <1>5, HiLoForm
<1>6. CASE i.op = "divu"
  BY <1>0, <1>1, <1>6, HiLoForm
<1>7. CASE i.op = "mtlo"
  BY <1>0, <1>1, <1>7, HiLoForm
<1>8. CASE i.op = "mthi"
  BY <1>0, <1>1, <1>8, HiLoForm
<1>9. CASE i.op \notin MulDiv \cup MoveTo
  BY <1>0, <1>9, HiLoForm
<1> QED BY <1>3, <1>4, <1>5, <1>6, <1>7, <1>8, <1>9 DEF MulDiv, MoveTo

\* What an instruction does, by its kind.
LEMMA EffectForm ==
  ASSUME NEW i, NEW k
  PROVE  /\ i.op \in Arith3 \cup Shift \cup ShiftV => Effect(i, k) = SetGrf(k, i.rd, Value(i, k))
         /\ i.op \in ArithImm \cup {"lui"} => Effect(i, k) = SetGrf(k, i.rt, Value(i, k))
         /\ i.op \in Load => Effect(i, k) = SetGrf(k, i.rt, LoadValue(i, k))
         /\ i.op \in Store => Effect(i, k) = WithWord(k, Addr(i, k) \div 4, StoreValue(i, k))
         /\ i.op = "mflo" => Effect(i, k) = SetGrf(k, i.rd, k.lo)
         /\ i.op = "mfhi" => Effect(i, k) = SetGrf(k, i.rd, k.hi)
         /\ i.op = "jal" => Effect(i, k) = SetGrf(k, RA, U(k.pc + 8))
         /\ i.op = "jalr" => Effect(i, k) = SetGrf(k, i.rd, U(k.pc + 8))
         /\ i.op \notin Computed \cup Load \cup Store \cup MoveFrom \cup {"jal", "jalr"} => Effect(i, k) = HiLoEffect(i, k)
<1> USE DEF Effect, WithWord
<1>1. i.op \in Arith3 \cup Shift \cup ShiftV => Effect(i, k) = SetGrf(k, i.rd, Value(i, k))
  BY Zenon DEF Arith3, AddSub, Logic, Compare, Shift, ShiftV, ArithImm, AddImm, LogicImm, CmpImm, Load, Store
<1>2. i.op \in ArithImm \cup {"lui"} => Effect(i, k) = SetGrf(k, i.rt, Value(i, k))
  BY Zenon DEF Arith3, AddSub, Logic, Compare, Shift, ShiftV, ArithImm, AddImm, LogicImm, CmpImm, Load, Store
<1>3. i.op \in Load => Effect(i, k) = SetGrf(k, i.rt, LoadValue(i, k))
  BY Zenon DEF Arith3, AddSub, Logic, Compare, Shift, ShiftV, ArithImm, AddImm, LogicImm, CmpImm, Load, Store
<1>4. i.op \in Store => Effect(i, k) = WithWord(k, Addr(i, k) \div 4, StoreValue(i, k))
  BY Zenon DEF Arith3, AddSub, Logic, Compare, Shift, ShiftV, ArithImm, AddImm, LogicImm, CmpImm, Load, Store
<1>5. i.op = "mflo" => Effect(i, k) = SetGrf(k, i.rd, k.lo)
  BY Zenon DEF Arith3, AddSub, Logic, Compare, Shift, ShiftV, ArithImm, AddImm, LogicImm, CmpImm, Load, Store
<1>6. i.op = "mfhi" => Effect(i, k) = SetGrf(k, i.rd, k.hi)
  BY Zenon DEF Arith3, AddSub, Logic, Compare, Shift, ShiftV, ArithImm, AddImm, LogicImm, CmpImm, Load, Store
<1>7. i.op = "jal" => Effect(i, k) = SetGrf(k, RA, U(k.pc + 8))
  BY Zenon DEF Arith3, AddSub, Logic, Compare, Shift, ShiftV, ArithImm, AddImm, LogicImm, CmpImm, Load, Store
<1>8. i.op = "jalr" => Effect(i, k) = SetGrf(k, i.rd, U(k.pc + 8))
  BY Zenon DEF Arith3, AddSub, Logic, Compare, Shift, ShiftV, ArithImm, AddImm, LogicImm, CmpImm, Load, Store
<1>9. i.op \notin Computed \cup Load \cup Store \cup MoveFrom \cup {"jal", "jalr"} => Effect(i, k) = HiLoEffect(i, k)
  BY Zenon DEF Computed, MoveFrom
<1> QED BY ONLY <1>1, <1>2, <1>3, <1>4, <1>5, <1>6, <1>7, <1>8, <1>9

\* The effect of an instruction that stores nothing is the same in both.
LEMMA SameEffects ==
  ASSUME NEW k, IsMachine(k), NEW mm, NEW i, i.op \notin Store,
         i.op \in Load => mm[Addr(i, k) \div 4] = k.mem[Addr(i, k) \div 4]
  PROVE  Alike(k, View5(k, mm), Effect(i, k), Effect(i, View5(k, mm)))
<1> DEFINE m == View5(k, mm)
<1>0. /\ Value(i, m) = Value(i, k) /\ m.mem = mm /\ m.pc = k.pc /\ m.lo = k.lo /\ m.hi = k.hi
      /\ (i.op \in Load => LoadValue(i, m) = LoadValue(i, k))
  BY SameReads, SameMemory
<1>1. ASSUME NEW r, NEW v PROVE Alike(k, m, SetGrf(k, r, v), SetGrf(m, r, v))
  BY <1>0, SameSet DEF Alike
<1>2. Alike(k, m, HiLoEffect(i, k), HiLoEffect(i, m))
  BY SameHiLo
<1> SUFFICES Alike(k, m, Effect(i, k), Effect(i, m))
  OBVIOUS
<1> HIDE DEF m
<1>3. CASE i.op \in Arith3 \cup Shift \cup ShiftV
  BY <1>0, <1>1, <1>3, EffectForm
<1>4. CASE i.op \in ArithImm \cup {"lui"}
  BY <1>0, <1>1, <1>4, EffectForm
<1>5. CASE i.op \in Load
  BY <1>0, <1>1, <1>5, EffectForm
<1>6. CASE i.op \in MoveFrom \cup {"jal", "jalr"}
  BY <1>0, <1>1, <1>6, EffectForm DEF MoveFrom
<1>7. CASE i.op \notin Computed \cup Load \cup Store \cup MoveFrom \cup {"jal", "jalr"}
  BY <1>2, <1>7, EffectForm
<1> QED BY <1>3, <1>4, <1>5, <1>6, <1>7 DEF Computed

\* A store changes the same word of both.
LEMMA SameStore ==
  ASSUME NEW k, IsMachine(k), NEW mm, NEW i, i.op \in Store,
         mm[Addr(i, k) \div 4] = k.mem[Addr(i, k) \div 4]
  PROVE  LET e == Effect(i, k)
             f == Effect(i, View5(k, mm))
         IN /\ SameFile(e, f) /\ e.grf = k.grf /\ e.lo = k.lo /\ e.hi = k.hi
            /\ e.mem = Put(k.mem, Addr(i, k) \div 4, StoreValue(i, k))
            /\ f.mem = Put(mm, Addr(i, k) \div 4, StoreValue(i, k))
<1> DEFINE m == View5(k, mm)
           a == Addr(i, k) \div 4
           v == StoreValue(i, k)
<1>1. Addr(i, m) = Addr(i, k) /\ StoreValue(i, m) = StoreValue(i, k)
  BY SameReads, SameMemory
<1>2. Effect(i, k) = WithWord(k, a, v)
  BY EffectForm
<1>3. Effect(i, m) = WithWord(m, a, v)
  <2> HIDE DEF m
  <2> QED BY <1>1, EffectForm, Zenon
<1> HIDE DEF a, v
<1>4. WithWord(m, a, v) = View5(k, Put(mm, a, v))
  BY DEF WithWord, View5, Put
<1>5. \A x : View5(k, x).grf = k.grf /\ View5(k, x).lo = k.lo /\ View5(k, x).hi = k.hi /\ View5(k, x).mem = x
  BY DEF View5
<1>6. Only(k, WithWord(k, a, v), "mem", Put(k.mem, a, v))
  BY WordUpdate
<1> HIDE DEF m
<1> QED BY <1>2, <1>3, <1>4, <1>5, <1>6 DEF Only, Parts, SameFile, a, v, m
-----------------------------------------------------------------------------
(* Words stay words. *)

\* The registers and the memory of a machine hold words.
Worded(k) == /\ k.grf \in [0 .. NREG - 1 -> Word] /\ k.lo \in Word /\ k.hi \in Word
             /\ k.mem \in [0 .. MEM_SIZE - 1 -> Word]
WellFormed(i) == /\ i.op \in Known \ {"mfc0", "mtc0", "eret"}
                 /\ {i.rs, i.rt, i.rd} \subseteq 0 .. NREG - 1 /\ i.imm \in Word
Reaches(i, k) == i.op \in Load \cup Store => Addr(i, k) < 4 * MEM_SIZE

\* Data memory as the machine sees it, over and over again.
Repeated(mem) == [a \in 0 .. WORDS \div 4 - 1 |-> mem[a % MEM_SIZE]]
Seen(k) == View5(k, Repeated(k.mem))

\* The repeated memory agrees with the memory where there is one, and holds words everywhere.
LEMMA RepeatedMemory ==
  ASSUME NEW mem \in [0 .. MEM_SIZE - 1 -> Word]
  PROVE  /\ \A a \in 0 .. MEM_SIZE - 1 : a \in 0 .. WORDS \div 4 - 1 /\ a % MEM_SIZE = a /\ Repeated(mem)[a] = mem[a]
         /\ \A a \in 0 .. WORDS \div 4 - 1 : Repeated(mem)[a] \in Word
<1>1. MEM_SIZE \in Nat \ {0} /\ 4 * MEM_SIZE <= WORDS /\ WORDS \in Nat /\ WORDS = 4 * (WORDS \div 4) /\ WORDS \div 4 \in Nat
  BY GeneratorAssumption, WordsAssumption, WordsDivisible
<1>2. MEM_SIZE <= WORDS \div 4
  <2> DEFINE w == WORDS \div 4
  <2>1. w \in Nat /\ WORDS = 4 * w
    BY <1>1
  <2> HIDE DEF w
  <2> SUFFICES MEM_SIZE <= w
    BY DEF w
  <2> QED BY ONLY <1>1, <2>1
<1>3. ASSUME NEW a \in 0 .. MEM_SIZE - 1 PROVE a \in 0 .. WORDS \div 4 - 1 /\ a % MEM_SIZE = a /\ Repeated(mem)[a] = mem[a]
  <2> DEFINE w == WORDS \div 4
  <2>1. w \in Nat /\ MEM_SIZE <= w
    BY <1>1, <1>2
  <2>2. a % MEM_SIZE = a
    BY <1>1, SmallMod
  <2>3. Repeated(mem) = [b \in 0 .. w - 1 |-> mem[b % MEM_SIZE]]
    BY DEF Repeated
  <2> SUFFICES a \in 0 .. w - 1 /\ a % MEM_SIZE = a /\ Repeated(mem)[a] = mem[a]
    OBVIOUS
  <2> HIDE DEF w
  <2>4. a \in 0 .. w - 1
    BY <1>1, <2>1
  <2> QED BY <2>2, <2>3, <2>4
<1>4. ASSUME NEW a \in 0 .. WORDS \div 4 - 1 PROVE Repeated(mem)[a] \in Word
  <2>1. a % MEM_SIZE \in 0 .. MEM_SIZE - 1
    BY <1>1
  <2> QED BY <2>1 DEF Repeated
<1> QED BY <1>3, <1>4

\* Where a load or store of a well-formed instruction goes.
LEMMA ReachedWord ==
  ASSUME NEW k, Worded(k), NEW i, WellFormed(i), Reaches(i, k)
  PROVE  /\ Rs(i, k) \in Word /\ Rt(i, k) \in Word /\ Addr(i, k) \in Word
         /\ i.op \in Load \cup Store => Addr(i, k) \div 4 \in 0 .. MEM_SIZE - 1
<1>1. Rs(i, k) \in Word /\ Rt(i, k) \in Word
  BY DEF Worded, WellFormed, Rs, Rt
<1>2. Simm(i) \in Word
  <2>1. i.imm \in Int
    BY WordsAssumption DEF WellFormed, Word
  <2> QED BY <2>1, ExtTyped DEF Simm
<1>3. Rs(i, k) + Simm(i) \in Int
  BY <1>1, <1>2, WordsAssumption DEF Word
<1>4. Addr(i, k) \in Word
  BY <1>3, Wraps DEF Addr
<1>5. i.op \in Load \cup Store => Addr(i, k) \div 4 \in 0 .. MEM_SIZE - 1
  BY <1>4, GeneratorAssumption, WordsAssumption DEF Reaches, Word
<1> QED BY <1>1, <1>4, <1>5

\* It raises the same exception, reads the same word and goes the same way in both.
LEMMA SeenAlike ==
  ASSUME NEW k, Worded(k), NEW i, WellFormed(i), Reaches(i, k)
  PROVE  /\ I!E!Exception(i, Seen(k)) = Exception(i, k)
         /\ i.op \in Load \cup Store => Repeated(k.mem)[Addr(i, k) \div 4] = k.mem[Addr(i, k) \div 4]
         /\ I!E!BranchResult(i, Seen(k)) = BranchResult(i, k)
         /\ I!E!Addr(i, Seen(k)) = Addr(i, k)
<1> DEFINE m == Seen(k)
<1>1. Addr(i, m) = Addr(i, k) /\ BranchResult(i, m) = BranchResult(i, k) /\ Exception(i, m) = Exception(i, k)
  BY SameReads, SameTrap DEF Seen
<1> SUFFICES /\ I!E!Exception(i, m) = Exception(i, k)
             /\ i.op \in Load \cup Store => Repeated(k.mem)[Addr(i, k) \div 4] = k.mem[Addr(i, k) \div 4]
             /\ I!E!BranchResult(i, m) = BranchResult(i, k)
             /\ I!E!Addr(i, m) = Addr(i, k)
  OBVIOUS
<1> HIDE DEF m
<1>2. Exception(i, m) = I!E!Exception(i, m)
  <2>1. Addr(i, m) \in Word /\ (i.op \in Load \cup Store => Addr(i, m) < 4 * MEM_SIZE)
    BY <1>1, ReachedWord DEF Reaches
  <2> QED BY <2>1, SameException
<1>3. i.op \in Load \cup Store => Repeated(k.mem)[Addr(i, k) \div 4] = k.mem[Addr(i, k) \div 4]
  BY ReachedWord, RepeatedMemory DEF Worded
<1> QED BY <1>1, <1>2, <1>3, MachineSemantics

\* The value an instruction writes is a word.
LEMMA ValueOutTyped ==
  ASSUME NEW k, k.pc \in Int, Worded(k), NEW i, WellFormed(i), Reaches(i, k)
  PROVE  ValueOut(i, Seen(k)) \in Word
<1> DEFINE m == Seen(k)
<1>1. /\ m.pc = k.pc /\ m.lo = k.lo /\ m.hi = k.hi /\ m.mem = Repeated(k.mem)
      /\ Rs(i, m) \in Word /\ Rt(i, m) \in Word /\ Addr(i, m) = Addr(i, k)
  BY SameReads, ReachedWord DEF Seen
<1> HIDE DEF m
<1>2. Em!Rs(i, m) \in Word /\ Em!Rt(i, m) \in Word /\ Em!Addr(i, m) = Addr(i, k)
  BY <1>1, PipelineSemantics
<1>3. AluOut(i, m) \in Word
  <2>1. Unit(m).lo \in Word /\ Unit(m).hi \in Word /\ i.imm \in Word
    BY <1>1 DEF Unit, Worded, WellFormed
  <2> QED BY <1>2, <2>1, AluTyped DEF AluOut
<1>4. WriteStage(i) = MEM => i.op \in Load
  BY DEF WellFormed, WriteStage, MEM, EXECUTE, DECODE, NEVER
<1>5. i.op \in Load => AluOut(i, m) = Addr(i, k)
  BY <1>2, AluAddress DEF AluOut
<1>6. WriteStage(i) = MEM => WriteBack(ExtType(i), ReadLane(i, AluOut(i, m), m.mem[AluOut(i, m) \div 4])) \in Word
  <2> SUFFICES ASSUME i.op \in Load PROVE WriteBack(ExtType(i), ReadLane(i, AluOut(i, m), m.mem[AluOut(i, m) \div 4])) \in Word
    BY <1>4
  <2>1. m.mem[AluOut(i, m) \div 4] \in Word
    BY <1>1, <1>5, ReachedWord, RepeatedMemory DEF Worded
  <2>2. AluOut(i, m) \in Int
    BY <1>3, WordsAssumption DEF Word
  <2> QED BY <2>1, <2>2, ReadTyped, WriteBackTyped
<1>7. U(m.pc + 8) \in Word
  BY <1>1, Wraps
<1>8. ValueOut(i, m) \in Word
  BY <1>3, <1>6, <1>7 DEF ValueOut
<1> QED BY <1>8 DEF m

\* What an instruction leaves are words.
LEMMA EffectWorded ==
  ASSUME NEW k, IsMachine(k), k.pc \in Int, Worded(k), NEW i, WellFormed(i), Reaches(i, k), Exception(i, k) = 0
  PROVE  Worded(Effect(i, k))
<1> DEFINE m == Seen(k)
           e == Effect(i, k)
           f == Effect(i, m)
           v == ValueOut(i, m)
           h == UnitOut(i, m)
           w == WriteLane(i, Addr(i, k), m.mem[Addr(i, k) \div 4], Rt(i, m))
<1>1. /\ m = [pc |-> m.pc, grf |-> m.grf, lo |-> m.lo, hi |-> m.hi, mem |-> m.mem]
      /\ m.pc = k.pc /\ m.grf = k.grf /\ m.lo = k.lo /\ m.hi = k.hi /\ m.mem = Repeated(k.mem)
      /\ Rs(i, m) \in Word /\ Rt(i, m) \in Word /\ Addr(i, m) = Addr(i, k)
  BY SameReads, ReachedWord DEF Seen, View5
<1>2. Em!Rs(i, m) = Rs(i, m) /\ Em!Rt(i, m) = Rt(i, m) /\ Em!Addr(i, m) = Addr(i, k) /\ Em!Exception(i, m) = 0 /\ Em!Effect(i, m) = f
  BY <1>1, PipelineSemantics, SeenAlike
<1>3. i.op \in Load \cup Store => m.mem[Addr(i, k) \div 4] \in Word
  BY <1>1, ReachedWord, RepeatedMemory DEF Worded
<1>4. f = [pc |-> m.pc, grf |-> IF WriteAddr(i) = 0 THEN m.grf ELSE [m.grf EXCEPT ![WriteAddr(i)] = v],
           lo |-> h.lo, hi |-> h.hi,
           mem |-> IF i.op \in Store THEN [m.mem EXCEPT ![Addr(i, k) \div 4] = w] ELSE m.mem]
  <2>1. i.op \in Known \ {"mfc0", "mtc0", "eret"} /\ i.imm \in Word
    BY DEF WellFormed
  <2> HIDE DEF m, f
  <2>2. Em!Effect(i, m) = [pc |-> m.pc, grf |-> IF WriteAddr(i) = 0 THEN m.grf ELSE [m.grf EXCEPT ![WriteAddr(i)] = v],
           lo |-> h.lo, hi |-> h.hi,
           mem |-> IF i.op \in Store THEN [m.mem EXCEPT ![Em!Addr(i, m) \div 4] =
                            WriteLane(i, Em!Addr(i, m), m.mem[Em!Addr(i, m) \div 4], Em!Rt(i, m))] ELSE m.mem]
    BY ONLY <1>1, <1>2, <1>3, <2>1, Completes
  <2> QED BY ONLY <1>2, <2>2
<1>5. v \in Word
  BY ValueOutTyped
<1>6. h.lo \in Word /\ h.hi \in Word
  <2>1. Unit(m) \in [lo : Word, hi : Word, busy : Nat]
    BY <1>1 DEF Unit, Worded
  <2> HIDE DEF m
  <2>2. h \in [lo : Word, hi : Word, busy : Nat]
    BY <1>1, <1>2, <2>1, MduStartTyped DEF UnitOut
  <2> QED BY <2>2
<1>7. i.op \in Store => w \in Word
  <2>1. Addr(i, k) \in Int
    BY ReachedWord, WordsAssumption DEF Word
  <2> QED BY <1>1, <1>3, <2>1, WriteTyped
<1>8. WriteAddr(i) \in 0 .. NREG - 1
  BY GeneratorAssumption, SMTT(30) DEF WriteAddr, WellFormed
<1> HIDE DEF h, v, w
<1>9. f.grf \in [0 .. NREG - 1 -> Word] /\ f.lo \in Word /\ f.hi \in Word
  <2>1. m.grf \in [0 .. NREG - 1 -> Word]
    BY <1>1 DEF Worded
  <2> HIDE DEF m, f
  <2> QED BY <1>4, <1>5, <1>6, <1>8, <2>1
<1>10. SameFile(e, f)
  BY SameEffects, SameStore, SeenAlike DEF Seen, Alike
<1>11. e.mem \in [0 .. MEM_SIZE - 1 -> Word]
  <2>1. CASE i.op \notin Store
    <3>1. e.mem = k.mem
      BY <2>1, SameEffects, SeenAlike DEF Seen, Alike
    <3> QED BY <3>1 DEF Worded
  <2>2. CASE i.op \in Store
    <3> DEFINE a == Addr(i, k) \div 4
               b == StoreValue(i, k)
    <3>1. e.mem = Put(k.mem, a, b) /\ f.mem = Put(Repeated(k.mem), a, b)
      BY <2>2, SameStore, SeenAlike DEF Seen
    <3>2. a \in 0 .. MEM_SIZE - 1 /\ a \in 0 .. WORDS \div 4 - 1
      BY <2>2, ReachedWord, RepeatedMemory DEF Worded
    <3>3. f.mem = [m.mem EXCEPT ![a] = w]
      BY <1>4, <2>2
    <3> HIDE DEF a, b, m, f, e
    <3>4. f.mem[a] = b /\ f.mem[a] = w
      BY <1>1, <3>1, <3>2, <3>3 DEF Put, Repeated
    <3>5. k.mem \in [0 .. MEM_SIZE - 1 -> Word]
      BY DEF Worded
    <3> QED BY <1>7, <2>2, <3>1, <3>2, <3>4, <3>5 DEF Put
  <2> QED BY <2>1, <2>2
<1> HIDE DEF e, f
<1>12. Worded(e)
  BY <1>9, <1>10, <1>11 DEF Worded, SameFile
<1> QED BY <1>12 DEF e
-----------------------------------------------------------------------------
(* One instruction on both machines. *)

SameData(e, f) == SameFile(e, f) /\ e.mem = f.mem

\* An instruction that raises an exception is ignored.
Done(k, i) == IF Exception(i, k) # 0 THEN k ELSE Effect(i, k)

\* What ExecuteOn does beside the logs.
LEMMA ExecuteOnData ==
  ASSUME ~EXCEPTIONS, NEW k, IsMachine(k), NEW i
  PROVE  /\ SamePlace(k, ExecuteOn(k, i)) /\ ExecuteOn(k, i).exc = k.exc
         /\ SameData(ExecuteOn(k, i), Done(k, i))
<1>1. CASE Exception(i, k) # 0
  <2>1. ExecuteOn(k, i) = k /\ Done(k, i) = k
    BY <1>1, Zenon DEF ExecuteOn, HandleException, Done
  <2> QED BY <2>1 DEF SamePlace, SameData, SameFile
<1>2. CASE Exception(i, k) = 0
  <2> DEFINE m == Effect(i, k)
  <2>1. \E g, l : ExecuteOn(k, i) = WithWrites(m, g, l)
    BY <1>2, Zenon DEF ExecuteOn, WithWrites
  <2>2. Kept(k, m) /\ Done(k, i) = m
    BY <1>2, EffectKeeps DEF Done
  <2> HIDE DEF m
  <2> QED BY <2>1, <2>2, WritesKeep DEF Kept, SamePlace, SameRegs, SameData, SameFile
<1> QED BY <1>1, <1>2

\* An instruction that completes accesses data memory.
LEMMA CompletesReaches ==
  ASSUME NEW k, Worded(k), NEW i, WellFormed(i), Exception(i, k) = 0
  PROVE  Reaches(i, k)
<1> SUFFICES ASSUME i.op \in Load \cup Store PROVE Addr(i, k) < 4 * MEM_SIZE
  BY DEF Reaches
<1>1. ~BadAddr(i, k)
  <2>1. i.op \in Load => Exception(i, k) = IF BadAddr(i, k) THEN 4 ELSE 0
    BY Zenon DEF Exception, Load, Store
  <2>2. i.op \in Store => Exception(i, k) = IF BadAddr(i, k) THEN 5 ELSE 0
    BY Zenon DEF Exception, Load, Store
  <2> QED BY <2>1, <2>2
<1>2. Addr(i, k) \in Word
  <2>0. Rs(i, k) \in Word
    BY DEF Worded, WellFormed, Rs
  <2>1. Rs(i, k) \in Word /\ i.imm \in Int
    BY <2>0, WordsAssumption DEF WellFormed, Word
  <2>2. Simm(i) \in Word
    BY <2>1, ExtTyped DEF Simm
  <2>3. Rs(i, k) + Simm(i) \in Int
    BY <2>1, <2>2, WordsAssumption DEF Word
  <2> QED BY <2>3, Wraps DEF Addr
<1>3. Addr(i, k) \in Nat
  BY <1>2, WordsAssumption DEF Word
<1>4. Addr(i, k) \div 4 < MEM_SIZE
  BY <1>1, <1>3, GeneratorAssumption DEF BadAddr
<1> HIDE DEF Addr
<1> QED BY <1>3, <1>4, GeneratorAssumption

\* Words stay words when an instruction is executed.
LEMMA ExecuteOnWorded ==
  ASSUME ~EXCEPTIONS, NEW k, IsMachine(k), k.pc \in Int, Worded(k), NEW i, WellFormed(i)
  PROVE  Worded(ExecuteOn(k, i))
<1>1. Worded(Done(k, i))
  BY CompletesReaches, EffectWorded DEF Done
<1> QED BY <1>1, ExecuteOnData DEF SameData, SameFile, Worded
\* The sequential machine has the registers and the memory of the emulator.
Holds(k) == grf = k.grf /\ hl = [lo |-> k.lo, hi |-> k.hi] /\ ram = k.mem

\* One step of both.
LEMMA MachineStep ==
  ASSUME ~EXCEPTIONS, NEW k, IsMachine(k), k.pc \in Int, Worded(k), NEW i, WellFormed(i), Reaches(i, k),
         I!Instr = i, pc = k.pc, Holds(k), I!Execute
  PROVE  LET r == BranchResult(i, k)
             after == IF r = <<>> THEN U(npc + 4) ELSE r[1]
         IN /\ Holds(ExecuteOn(k, i))'
            /\ IF I!Runs(npc, after) THEN pc' = npc /\ npc' = after ELSE pc' = I!STOP /\ npc' = I!STOP
<1> DEFINE m == Seen(k)
           e == ExecuteOn(k, i)
           f == Effect(i, m)
           a == Addr(i, k) \div 4
<1>1. I!M = m
  BY DEF I!M, Seen, View5, Repeated, Holds, I!WORDS, WORDS
<1>2. I!E!Exception(i, m) = Exception(i, k) /\ I!E!BranchResult(i, m) = BranchResult(i, k) /\ I!E!Addr(i, m) = Addr(i, k) /\ I!E!Effect(i, m) = f
  BY SeenAlike, MachineSemantics
<1>3. SameData(e, Done(k, i))
  BY ExecuteOnData
<1>4. m.grf = k.grf /\ m.lo = k.lo /\ m.hi = k.hi /\ m.mem = Repeated(k.mem)
  BY DEF Seen, View5
<1>5. I!U(npc + 4) = U(npc + 4) /\ I!Store = Store
  BY DEF I!U, U, I!WORDS, WORDS, I!Store, Store
<1>6. /\ grf' = (IF Exception(i, k) # 0 THEN m ELSE f).grf
      /\ hl' = [lo |-> (IF Exception(i, k) # 0 THEN m ELSE f).lo, hi |-> (IF Exception(i, k) # 0 THEN m ELSE f).hi]
      /\ ram' = IF Exception(i, k) # 0 THEN ram ELSE IF i.op \in Store THEN Put(ram, a % MEM_SIZE, f.mem[a]) ELSE ram
  <2> HIDE DEF m, f
  <2> QED BY <1>1, <1>2, <1>5, Zenon DEF I!Execute, I!Stored, Put
<1>7. LET after == IF BranchResult(i, k) = <<>> THEN U(npc + 4) ELSE BranchResult(i, k)[1]
      IN IF I!Runs(npc, after) THEN pc' = npc /\ npc' = after ELSE pc' = I!STOP /\ npc' = I!STOP
  <2> HIDE DEF m, f
  <2> QED BY <1>1, <1>2, <1>5, Zenon DEF I!Execute
<1>8. grf' = e.grf /\ hl' = [lo |-> e.lo, hi |-> e.hi] /\ ram' = e.mem
  <2>1. CASE Exception(i, k) # 0
    <3>1. Done(k, i) = k
      BY <2>1 DEF Done
    <3> HIDE DEF m, e, f
    <3> QED BY <1>3, <1>4, <1>6, <2>1, <3>1 DEF SameData, SameFile, Holds
  <2>2. CASE Exception(i, k) = 0 /\ i.op \notin Store
    <3>1. Done(k, i) = Effect(i, k)
      BY <2>2 DEF Done
    <3>2. Alike(k, m, Effect(i, k), f)
      BY <2>2, SameEffects, SeenAlike DEF Seen
    <3> HIDE DEF m, e, f
    <3> QED BY <1>3, <1>6, <2>2, <3>1, <3>2 DEF Alike, SameData, SameFile, Holds
  <2>3. CASE Exception(i, k) = 0 /\ i.op \in Store
    <3> DEFINE v == StoreValue(i, k)
    <3>1. Done(k, i) = Effect(i, k)
      BY <2>3 DEF Done
    <3>2. SameFile(Effect(i, k), f) /\ Effect(i, k).mem = Put(k.mem, a, v) /\ f.mem = Put(Repeated(k.mem), a, v)
      BY <2>3, SameStore, SeenAlike DEF Seen
    <3>3. a \in 0 .. MEM_SIZE - 1 /\ a \in DOMAIN Repeated(k.mem) /\ a % MEM_SIZE = a
      BY <2>3, ReachedWord, RepeatedMemory DEF Worded, Repeated
    <3> HIDE DEF m, e, f, a, v
    <3>4. f.mem[a] = v
      BY <3>2, <3>3 DEF Put
    <3> QED BY <1>3, <1>6, <2>3, <3>1, <3>2, <3>3, <3>4 DEF SameData, SameFile, Holds
  <2> QED BY <2>1, <2>2, <2>3
<1>9. Holds(e)'
  <2> SUFFICES grf' = e.grf /\ hl' = [lo |-> e.lo, hi |-> e.hi] /\ ram' = e.mem
    BY DEF Holds
  <2> QED BY <1>8
<1> QED BY <1>7, <1>9
-----------------------------------------------------------------------------
(* What the generator sees to when it makes the instruction for a word. *)

\* The address of a word of the program.
Place(j) == TEXT_MIN + 4 * j

\* The emulator in front of word j.
Ready(k, j) ==
  /\ IsMachine(k) /\ k.pc = Place(j) /\ k.exc = FALSE /\ Worded(k)
  /\ \/ k.state = Normal
     \/ j < INSTR_COUNT /\ \E m \in j .. INSTR_COUNT : k.state = InDelaySlot(Place(m))
     \/ \E m \in j + 1 .. INSTR_COUNT : k.state = Branching(Place(m))

\* What the generator sees to in the instruction for word j.
Fit(i, k, j) ==
  /\ WellFormed(i) /\ Reaches(i, k)
  /\ i.op \in Branch => /\ k.state.at # "InDelaySlot" /\ j + 1 < INSTR_COUNT
                        /\ \E m \in j + 1 .. INSTR_COUNT : Target(i, k) = Place(m)

\* The addresses of the program are words, aligned, and all different.
LEMMA Places ==
  /\ INSTR_COUNT \in Nat \ {0} /\ TEXT_MIN \in Nat /\ jump_limit = Place(INSTR_COUNT)
  /\ \A j \in 0 .. INSTR_COUNT : /\ Place(j) \in Word /\ Place(j) \in Nat /\ Place(j) % 4 = 0 /\ Place(j + 1) = Place(j) + 4
                                 /\ \A m \in 0 .. INSTR_COUNT : Place(j) = Place(m) <=> j = m
<1>1. /\ TEXT_MIN \in Nat /\ TEXT_MIN % 4 = 0 /\ INSTR_COUNT \in Nat \ {0} /\ TEXT_MIN + 4 * INSTR_COUNT < WORDS /\ WORDS \in Nat
  BY GeneratorAssumption, WordsAssumption
<1>2. jump_limit = Place(INSTR_COUNT)
  BY DEF jump_limit, Place
<1>3. ASSUME NEW j \in 0 .. INSTR_COUNT
      PROVE  /\ Place(j) \in Word /\ Place(j) \in Nat /\ Place(j) % 4 = 0 /\ Place(j + 1) = Place(j) + 4
             /\ \A m \in 0 .. INSTR_COUNT : Place(j) = Place(m) <=> j = m
  BY <1>1 DEF Place, Word
<1> QED BY <1>1, <1>2, <1>3

\* What is generated suits the word it is generated for.
LEMMA GeneratedFits ==
  ASSUME ~EXCEPTIONS, NEW j \in 0 .. INSTR_COUNT - 1, NEW k, Ready(k, j), NEW i \in Candidates(k)
  PROVE  Fit(i, k, j)
<1>0. EXCEPTIONS = FALSE
  BY GeneratorAssumption
<1>1. PICK t \in candidate_types(k, FALSE) : Suits(k, t, FALSE, i)
  <2>1. PICK u \in {FALSE, EXCEPTIONS} : \E t \in candidate_types(k, u) : Suits(k, t, u, i)
    BY DEF Candidates
  <2>2. u = FALSE
    BY <1>0, Zenon
  <2> QED BY <2>1, <2>2, Zenon
<1>2. k.pc = Place(j) /\ j \in 0 .. INSTR_COUNT /\ INSTR_COUNT \in Nat \ {0} /\ TEXT_MIN \in Nat
  BY Places DEF Ready
<1>3. WellFormed(i)
  <2>1. i.op \in Known \ {"mfc0", "mtc0", "eret"}
    <3>1. t \in InstructionType
      BY <1>1, GeneratorAssumption DEF candidate_types, instr_set_no_branch
    <3>2. i.op = Built(t)
      BY <1>1 DEF Suits
    <3>3. "sll" \in Known \ {"mfc0", "mtc0", "eret"} /\ "sb" \in Known \ {"mfc0", "mtc0", "eret"}
      BY DEF Known, Shift, Store
    <3> QED BY <3>1, <3>2, <3>3 DEF InstructionType, Built
  <2>2. (k.pc - TEXT_MIN) \div 4 = j
    BY <1>2 DEF Place
  <2>3. PICK s \in Shapes : i \in s[j + 1]
    BY <2>2 DEF Candidates, Considered
  <2>4. {i.rs, i.rt, i.rd} \subseteq 0 .. NREG - 1 /\ i.imm \in Word
    BY <1>2, <2>3, GeneratorAssumption
  <2> QED BY <2>1, <2>4 DEF WellFormed
<1>4. Reaches(i, k)
  <2> SUFFICES ASSUME i.op \in Load \cup Store PROVE Addr(i, k) < 4 * MEM_SIZE
    BY DEF Reaches
  <2>1. t \in Load \cup Store
    <3>1. i.op = Built(t)
      BY <1>1 DEF Suits
    <3> QED BY <3>1 DEF Built, Load, Store
  <2>2. gen_base_and_offset(k, t, i.rs, Simm(i))
    BY <1>1, <2>1 DEF Suits
  <2>3. PICK a \in mem_addr : LET addr == a - (a % Alignment(t))
                              IN i.rs \in base_candidates(k, addr) /\ Simm(i) = U(addr - k.grf[i.rs])
    <3>1. PICK a \in mem_addr, any \in {FALSE, EXCEPTIONS} :
             LET addr == IF any THEN a ELSE a - (a % Alignment(t))
             IN IF i.rs \in base_candidates(k, addr) THEN Simm(i) = U(addr - k.grf[i.rs]) ELSE any
      BY <2>2, Zenon DEF gen_base_and_offset
    <3>2. any = FALSE
      BY <1>0, Zenon
    <3> QED BY <3>1, <3>2, Zenon
  <2> DEFINE d == a - (a % Alignment(t))
  <2>4. d \in 0 .. 4 * MEM_SIZE - 1
    <3>1. Alignment(t) \in {1, 2, 4}
      BY DEF Alignment
    <3>2. a \in Nat /\ a <= 4 * MEM_SIZE - 1
      BY GeneratorAssumption DEF mem_addr
    <3>3. a % Alignment(t) \in 0 .. a
      BY <3>1, <3>2
    <3> QED BY <3>2, <3>3, GeneratorAssumption
  <2> HIDE DEF d
  <2>5. Rs(i, k) = k.grf[i.rs] /\ Rs(i, k) \in Int
    <3>1. Rs(i, k) = k.grf[i.rs] /\ Rs(i, k) \in Word
      BY <1>3 DEF Rs, WellFormed, Ready, Worded
    <3> QED BY <3>1, WordsAssumption DEF Word
  <2>6. Simm(i) = U(d - Rs(i, k))
    BY <2>3, <2>5 DEF d
  <2>7. d \in Int /\ d - Rs(i, k) \in Int /\ (d - Rs(i, k)) + Rs(i, k) = d
    BY <2>4, <2>5, GeneratorAssumption
  <2>8. U(U(d - Rs(i, k)) + Rs(i, k)) = U(d)
    <3> DEFINE x == d - Rs(i, k)
    <3>1. x \in Int /\ x + Rs(i, k) = d
      BY <2>7
    <3> HIDE DEF x
    <3>2. U(U(x) + Rs(i, k)) = U(x + Rs(i, k))
      BY <2>5, <3>1, WrapAdd
    <3> QED BY <3>1, <3>2 DEF x
  <2>9. d \in Word
    <3>1. 4 * MEM_SIZE <= WORDS /\ MEM_SIZE \in Nat /\ WORDS \in Nat
      BY GeneratorAssumption, WordsAssumption
    <3> QED BY <2>4, <3>1 DEF Word
  <2>10. Addr(i, k) = d
    <3>1. Simm(i) \in Int
      <4>1. U(d - Rs(i, k)) \in Word
        BY <2>7, Wraps
      <4> QED BY <2>6, <4>1, WordsAssumption DEF Word
    <3>2. Rs(i, k) + Simm(i) = Simm(i) + Rs(i, k)
      BY <2>5, <3>1
    <3>3. Addr(i, k) = U(U(d - Rs(i, k)) + Rs(i, k))
      BY <2>6, <3>2, Zenon DEF Addr
    <3> QED BY <2>8, <2>9, <3>3, Wraps
  <2> QED BY <2>4, <2>10, GeneratorAssumption
<1>5. i.op \in Branch => /\ k.state.at # "InDelaySlot" /\ j + 1 < INSTR_COUNT
                         /\ \E m \in j + 1 .. INSTR_COUNT : Target(i, k) = Place(m)
  <2> SUFFICES ASSUME i.op \in Branch
               PROVE  /\ k.state.at # "InDelaySlot" /\ j + 1 < INSTR_COUNT
                      /\ \E m \in j + 1 .. INSTR_COUNT : Target(i, k) = Place(m)
    OBVIOUS
  <2>1. k.state.at # "InDelaySlot" /\ k.pc + 4 # jump_limit
    BY <1>1, BranchPlace
  <2>2. j + 1 < INSTR_COUNT
    BY <1>2, <2>1 DEF Place, jump_limit
  <2>3. Target(i, k) \in k.pc + 1 .. jump_limit /\ Target(i, k) % 4 = 0
    BY <1>1, <1>2, GoesForward DEF Place
  <2> DEFINE w == Target(i, k)
             m == (w - TEXT_MIN) \div 4
  <2> HIDE DEF w
  <2>4. w \in Place(j) + 1 .. Place(INSTR_COUNT) /\ w % 4 = 0 /\ TEXT_MIN % 4 = 0 /\ w \in Int
    BY <1>2, <2>3, Places, GeneratorAssumption DEF w
  <2>5. w = TEXT_MIN + 4 * m /\ m \in Int
    BY <1>2, <2>4
  <2> HIDE DEF m
  <2>6. m \in j + 1 .. INSTR_COUNT
    BY <1>2, <2>4, <2>5 DEF Place
  <2> QED BY <2>1, <2>2, <2>5, <2>6 DEF Place, w
<1> QED BY <1>3, <1>4, <1>5 DEF Fit
-----------------------------------------------------------------------------
(* From one word to the next in the emulator, with delayed branches and     *)
(* without exceptions.                                                      *)

\* Updates that change no data.
LEMMA SameDataUpdates ==
  ASSUME NEW k, IsMachine(k), NEW v
  PROVE  /\ IsMachine(WithPc(k, v)) /\ SameData(WithPc(k, v), k) /\ WithPc(k, v).pc = v
         /\ WithPc(k, v).state = k.state /\ WithPc(k, v).exc = k.exc
         /\ IsMachine(WithState(k, v)) /\ SameData(WithState(k, v), k) /\ WithState(k, v).state = v
         /\ WithState(k, v).pc = k.pc /\ WithState(k, v).exc = k.exc
         /\ IsMachine(WithExc(k, v)) /\ SameData(WithExc(k, v), k) /\ WithExc(k, v).exc = v
         /\ WithExc(k, v).pc = k.pc /\ WithExc(k, v).state = k.state
BY Updates DEF Only, Parts, SameData, SameFile

\* Forgetting that an exception occurred.
LEMMA Cleared ==
  ASSUME NEW k, IsMachine(k)
  PROVE  LET e == WithExc(k, FALSE)
         IN IsMachine(e) /\ SameData(e, k) /\ e.exc = FALSE /\ e.pc = k.pc /\ e.state = k.state
<1>1. Only(k, WithExc(k, FALSE), "exc", FALSE)
  BY Updates, Zenon
<1> QED BY <1>1 DEF Only, Parts, SameData, SameFile

\* The slot of a branch to itself, executed once.
Again(k, i) == WithState(ExecuteOn(k, i), Normal)

\* What Execute does, by the state of the machine, when branches are delayed and there
\* are no exceptions.
LEMMA ExecuteForm ==
  ASSUME DELAYED, ~EXCEPTIONS, NEW k, IsMachine(k), k.exc = FALSE, NEW i
  PROVE  LET x == ExecuteOn(k, i)
             m == WithPc(x, k.pc + 4)
             r == BranchResult(i, k)
             t == k.state.target
             e == Execute(k, i)
         IN /\ k.state.at = "Normal" /\ i.op \notin Branch => e = WithExc(m, FALSE)
            /\ k.state.at = "Normal" /\ i.op \in Branch =>
                 e = WithExc(WithState(m, InDelaySlot(IF r = <<>> THEN m.pc + 4 ELSE r[1])), FALSE)
            /\ k.state.at = "InDelaySlot" =>
                 e = WithExc(WithPc(IF t > k.pc + 4 THEN WithState(Again(k, i), Branching(t))
                                    ELSE IF t <= k.pc THEN ExecuteOn(Again(k, i), i) ELSE Again(k, i), k.pc + 4), FALSE)
            /\ k.state.at = "Branching" =>
                 e = WithExc(IF t > k.pc + 4 THEN WithPc(k, k.pc + 4) ELSE WithState(WithPc(k, k.pc + 4), Normal), FALSE)
<1> DEFINE x == ExecuteOn(k, i)
           m == WithPc(x, k.pc + 4)
           r == BranchResult(i, k)
           t == k.state.target
           e == Execute(k, i)
           a == Again(k, i)
           b == WithState(WithPc(k, k.pc + 4), Normal)
<1>0. IsMachine(x) /\ x.exc = FALSE
  BY ExecuteOnData DEF SamePlace
<1>1. k.state.at = "Normal" => e = WithExc(InNormal(k, i), FALSE)
  BY Zenon DEF Execute, WithExc
<1>2. k.state.at = "InDelaySlot" => e = WithExc(WithPc(InSlot(k, i, t), k.pc + 4), FALSE)
  BY Zenon DEF Execute, WithExc, WithPc
<1>3. k.state.at = "Branching" =>
        e = WithExc(IF t > k.pc + 4 THEN WithPc(k, k.pc + 4) ELSE CheckBranchTarget(b, t), FALSE)
  BY Zenon DEF Execute, WithExc, WithPc, WithState
<1>4. i.op \notin Branch => InNormal(k, i) = m
  BY Zenon DEF InNormal, WithPc
<1>5. i.op \in Branch => InNormal(k, i) = WithState(m, InDelaySlot(IF r = <<>> THEN m.pc + 4 ELSE r[1]))
  <2>1. ASSUME i.op \in Branch, r = <<>> PROVE InNormal(k, i) = WithState(m, InDelaySlot(m.pc + 4))
    BY <2>1, Zenon DEF InNormal, WithPc, WithState
  <2>2. ASSUME i.op \in Branch, r # <<>> PROVE InNormal(k, i) = WithState(m, InDelaySlot(r[1]))
    BY <2>2, Zenon DEF InNormal, WithPc, WithState
  <2> QED BY <2>1, <2>2, Zenon
<1>6. IsMachine(a) /\ a.exc = FALSE
  <2> HIDE DEF x
  <2> QED BY <1>0, SameDataUpdates DEF Again, x
<1>7. InSlot(k, i, t) = IF a.exc THEN ExecuteOn(a, i)
                        ELSE IF t > k.pc + 4 THEN WithState(a, Branching(t))
                        ELSE IF t <= k.pc THEN ExecuteOn(CheckBranchTarget(a, t), i) ELSE CheckBranchTarget(a, t)
  BY Zenon DEF InSlot, WithState, Again
<1> HIDE DEF a
<1>8. CheckBranchTarget(a, t) = a
  BY <1>6, CheckKeeps
<1>9. IsMachine(b)
  BY SameDataUpdates
<1> HIDE DEF b
<1>10. CheckBranchTarget(b, t) = b
  BY <1>9, CheckKeeps
<1>11. InSlot(k, i, t) = IF t > k.pc + 4 THEN WithState(a, Branching(t))
                         ELSE IF t <= k.pc THEN ExecuteOn(a, i) ELSE a
  BY <1>6, <1>7, <1>8, Zenon
<1> HIDE DEF m, r, t, e
<1>12. k.state.at = "Normal" /\ i.op \notin Branch => e = WithExc(m, FALSE)
  BY <1>1, <1>4
<1>13. k.state.at = "Normal" /\ i.op \in Branch => e = WithExc(WithState(m, InDelaySlot(IF r = <<>> THEN m.pc + 4 ELSE r[1])), FALSE)
  BY <1>1, <1>5
<1>14. k.state.at = "InDelaySlot" => e = WithExc(WithPc(IF t > k.pc + 4 THEN WithState(a, Branching(t))
                                    ELSE IF t <= k.pc THEN ExecuteOn(a, i) ELSE a, k.pc + 4), FALSE)
  BY <1>2, <1>11, Zenon
<1>15. k.state.at = "Branching" => e = WithExc(IF t > k.pc + 4 THEN WithPc(k, k.pc + 4) ELSE b, FALSE)
  BY <1>3, <1>10, Zenon
<1> QED BY <1>12, <1>13, <1>14, <1>15, Zenon DEF m, r, t, e, a, b, x

\* From one word to the next: where the emulator goes and what it has done.
LEMMA ReadyNormal ==
  ASSUME DELAYED, ~EXCEPTIONS, NEW j \in 0 .. INSTR_COUNT - 1, NEW k, Ready(k, j), NEW i, Fit(i, k, j), k.state = Normal
  PROVE  LET e == Execute(k, i)
             r == BranchResult(i, k)
         IN /\ Ready(e, j + 1) /\ SameData(e, ExecuteOn(k, i))
            /\ i.op \notin Branch => r = <<>> /\ e.state = Normal
            /\ i.op \in Branch => \E m \in j + 1 .. INSTR_COUNT :
                                     /\ e.state = InDelaySlot(Place(m))
                                     /\ (r = <<>> /\ m = j + 2) \/ r = <<Place(m)>>
<1> DEFINE e == Execute(k, i)
           r == BranchResult(i, k)
           x == ExecuteOn(k, i)
           m == WithPc(x, k.pc + 4)
<1>1. IsMachine(k) /\ k.exc = FALSE /\ k.pc = Place(j) /\ k.pc \in Int /\ k.state.at = "Normal" /\ Worded(k)
  BY Places DEF Ready, Normal
<1>2. SamePlace(k, x) /\ x.exc = FALSE /\ Worded(x)
  BY <1>1, ExecuteOnData, ExecuteOnWorded DEF Fit
<1>3. /\ i.op \notin Branch => e = WithExc(m, FALSE)
      /\ i.op \in Branch => e = WithExc(WithState(m, InDelaySlot(IF r = <<>> THEN m.pc + 4 ELSE r[1])), FALSE)
  BY <1>1, ExecuteForm
<1> HIDE DEF x, e
<1>4. IsMachine(m) /\ SameData(m, x) /\ m.pc = k.pc + 4 /\ m.state = Normal
  BY <1>2, SameDataUpdates DEF SamePlace
<1> HIDE DEF m
<1>5. k.pc + 4 = Place(j + 1) /\ k.pc + 8 = Place(j + 2) /\ j + 1 \in 0 .. INSTR_COUNT
  BY <1>1, Places DEF Place
<1>6. CASE i.op \notin Branch
  <2>1. IsMachine(e) /\ SameData(e, m) /\ e.pc = m.pc /\ e.state = Normal /\ e.exc = FALSE
    BY <1>3, <1>4, <1>6, Cleared
  <2>2. r = <<>>
    BY <1>6 DEF BranchResult
  <2> QED BY <1>2, <1>4, <1>5, <1>6, <2>1, <2>2 DEF Ready, SameData, SameFile, Worded, e, x
<1>7. CASE i.op \in Branch
  <2>1. PICK n \in j + 1 .. INSTR_COUNT : Target(i, k) = Place(n)
    BY <1>7 DEF Fit
  <2>2. j + 1 < INSTR_COUNT
    BY <1>7 DEF Fit
  <2>3. r = <<>> \/ r = <<Place(n)>>
    BY <2>1 DEF BranchResult
  <2> HIDE DEF r
  <2>4. PICK q \in j + 1 .. INSTR_COUNT : /\ (IF r = <<>> THEN m.pc + 4 ELSE r[1]) = Place(q)
                                          /\ (r = <<>> /\ q = j + 2) \/ r = <<Place(q)>>
    <3>1. CASE r = <<>>
      <4>1. j + 2 \in j + 1 .. INSTR_COUNT /\ m.pc + 4 = Place(j + 2)
        BY <1>1, <1>4, <1>5, <2>2, Places
      <4> QED BY <3>1, <4>1
    <3>2. CASE r = <<Place(n)>>
      <4>1. (IF r = <<>> THEN m.pc + 4 ELSE r[1]) = Place(n)
        BY <3>2
      <4> QED BY <3>2, <4>1
    <3> QED BY <2>3, <3>1, <3>2
  <2> DEFINE g == WithState(m, InDelaySlot(Place(q)))
  <2>5. e = WithExc(g, FALSE)
    BY <1>3, <1>7, <2>4, Zenon
  <2>6. IsMachine(g) /\ SameData(g, m) /\ g.pc = m.pc /\ g.state = InDelaySlot(Place(q))
    BY <1>4, SameDataUpdates
  <2> HIDE DEF g
  <2>7. IsMachine(e) /\ SameData(e, g) /\ e.pc = m.pc /\ e.state = InDelaySlot(Place(q)) /\ e.exc = FALSE
    BY <2>5, <2>6, Cleared
  <2>8. SameData(e, x)
    BY <1>4, <2>6, <2>7 DEF SameData, SameFile
  <2>9. Ready(e, j + 1)
    BY <1>2, <1>4, <1>5, <2>2, <2>7, <2>8 DEF Ready, SameData, SameFile, Worded
  <2> QED BY <1>7, <2>4, <2>7, <2>8, <2>9 DEF e, x, r
<1> QED BY <1>6, <1>7

\* The word of a slot: executed, and where its branch leads from there; twice if it leads to the slot.
LEMMA ReadySlot ==
  ASSUME DELAYED, ~EXCEPTIONS, NEW j \in 0 .. INSTR_COUNT - 1, NEW k, Ready(k, j), NEW i, Fit(i, k, j),
         NEW m \in j .. INSTR_COUNT, k.state = InDelaySlot(Place(m))
  PROVE  LET e == Execute(k, i)
         IN /\ Ready(e, j + 1) /\ i.op \notin Branch
            /\ m > j + 1 => e.state = Branching(Place(m)) /\ SameData(e, ExecuteOn(k, i))
            /\ m = j + 1 => e.state = Normal /\ SameData(e, ExecuteOn(k, i))
            /\ m = j => e.state = Normal /\ SameData(e, ExecuteOn(Again(k, i), i))
<1> DEFINE e == Execute(k, i)
           x == ExecuteOn(k, i)
           a == Again(k, i)
           y == ExecuteOn(a, i)
           t == Place(m)
<1>1. IsMachine(k) /\ k.exc = FALSE /\ k.pc = Place(j) /\ k.pc \in Int /\ k.state.at = "InDelaySlot" /\ k.state.target = t /\ Worded(k)
  BY Places DEF Ready, InDelaySlot
<1>2. i.op \notin Branch /\ WellFormed(i)
  BY <1>1 DEF Fit
<1>3. IsMachine(x) /\ x.pc = k.pc /\ x.exc = FALSE /\ Worded(x)
  BY <1>1, <1>2, ExecuteOnData, ExecuteOnWorded DEF SamePlace
<1>4. e = WithExc(WithPc(IF t > k.pc + 4 THEN WithState(a, Branching(t)) ELSE IF t <= k.pc THEN y ELSE a, k.pc + 4), FALSE)
  BY <1>1, ExecuteForm
<1>5. IsMachine(a) /\ SameData(a, x) /\ a.pc = k.pc /\ a.exc = FALSE /\ a.state = Normal
  <2> HIDE DEF x
  <2> QED BY <1>3, SameDataUpdates DEF Again, x
<1> HIDE DEF x, a, e
<1>6. Worded(a)
  BY <1>3, <1>5 DEF Worded, SameData, SameFile
<1>7. IsMachine(y) /\ y.pc = k.pc /\ y.state = Normal /\ y.exc = FALSE /\ Worded(y)
  BY <1>1, <1>2, <1>5, <1>6, ExecuteOnData, ExecuteOnWorded DEF SamePlace
<1> HIDE DEF y
<1>8. k.pc + 4 = Place(j + 1) /\ j + 1 \in 0 .. INSTR_COUNT /\ m \in Int
  BY <1>1, Places
<1>9. (t > k.pc + 4 <=> m > j + 1) /\ (t <= k.pc <=> m = j)
  BY <1>1, <1>8, Places DEF Place
<1> HIDE DEF t
<1>10. ASSUME NEW g, IsMachine(g), Worded(g), e = WithExc(WithPc(g, k.pc + 4), FALSE)
       PROVE  IsMachine(e) /\ Worded(e) /\ SameData(e, g) /\ e.pc = Place(j + 1) /\ e.exc = FALSE /\ e.state = g.state
  <2> DEFINE u == WithPc(g, k.pc + 4)
  <2>1. IsMachine(u) /\ SameData(u, g) /\ u.pc = k.pc + 4 /\ u.state = g.state
    BY <1>10, SameDataUpdates
  <2> HIDE DEF u
  <2>2. IsMachine(e) /\ SameData(e, u) /\ e.pc = u.pc /\ e.exc = FALSE /\ e.state = u.state
    BY <1>10, <2>1, Cleared DEF u
  <2> QED BY <1>8, <1>10, <2>1, <2>2 DEF SameData, SameFile, Worded
<1>11. CASE m > j + 1
  <2> DEFINE g == WithState(a, Branching(t))
  <2>1. IsMachine(g) /\ SameData(g, a) /\ g.state = Branching(t)
    BY <1>5, SameDataUpdates
  <2>2. e = WithExc(WithPc(g, k.pc + 4), FALSE)
    BY <1>4, <1>9, <1>11, Zenon
  <2> HIDE DEF g
  <2>3. Worded(g)
    BY <1>6, <2>1 DEF Worded, SameData, SameFile
  <2>4. IsMachine(e) /\ Worded(e) /\ SameData(e, g) /\ e.pc = Place(j + 1) /\ e.exc = FALSE /\ e.state = g.state
    BY <1>10, <2>1, <2>2, <2>3
  <2>5. SameData(e, x) /\ e.state = Branching(Place(m))
    BY <1>5, <2>1, <2>4 DEF SameData, SameFile, t
  <2>6. m \in (j + 1) + 1 .. INSTR_COUNT /\ m # j + 1 /\ m # j
    BY <1>8, <1>11
  <2>7. Ready(e, j + 1)
    BY <2>4, <2>5, <2>6 DEF Ready
  <2> QED BY <1>2, <2>5, <2>6, <2>7 DEF e, x
<1>12. CASE m = j + 1
  <2>1. e = WithExc(WithPc(a, k.pc + 4), FALSE)
    <3>1. ~(t > k.pc + 4) /\ ~(t <= k.pc)
      BY <1>8, <1>9, <1>12
    <3> QED BY <1>4, <3>1, Zenon
  <2>2. IsMachine(e) /\ Worded(e) /\ SameData(e, a) /\ e.pc = Place(j + 1) /\ e.exc = FALSE /\ e.state = a.state
    BY <1>5, <1>6, <1>10, <2>1
  <2>3. SameData(e, x)
    BY <1>5, <2>2 DEF SameData, SameFile
  <2>4. Ready(e, j + 1)
    BY <1>5, <2>2 DEF Ready
  <2> QED BY <1>2, <1>5, <1>8, <1>12, <2>2, <2>3, <2>4 DEF e, x
<1>13. CASE m = j
  <2>1. e = WithExc(WithPc(y, k.pc + 4), FALSE)
    <3>1. ~(t > k.pc + 4) /\ t <= k.pc
      BY <1>8, <1>9, <1>13
    <3> QED BY <1>4, <3>1, Zenon
  <2>2. IsMachine(e) /\ Worded(e) /\ SameData(e, y) /\ e.pc = Place(j + 1) /\ e.exc = FALSE /\ e.state = y.state
    BY <1>7, <1>10, <2>1
  <2>4. Ready(e, j + 1)
    BY <1>7, <2>2 DEF Ready
  <2> QED BY <1>2, <1>7, <1>8, <1>13, <2>2, <2>4 DEF e, y, a
<1> QED BY <1>8, <1>11, <1>12, <1>13

\* A word that a branch skips does nothing.
LEMMA ReadyBranching ==
  ASSUME DELAYED, ~EXCEPTIONS, NEW j \in 0 .. INSTR_COUNT - 1, NEW k, Ready(k, j), NEW i,
         NEW m \in j + 1 .. INSTR_COUNT, k.state = Branching(Place(m))
  PROVE  LET e == Execute(k, i)
         IN Ready(e, j + 1) /\ SameData(e, k) /\ e.state = IF m > j + 1 THEN k.state ELSE Normal
<1> DEFINE e == Execute(k, i)
           t == Place(m)
           u == WithPc(k, k.pc + 4)
           v == WithState(u, Normal)
           w == IF m > j + 1 THEN u ELSE v
<1>1. IsMachine(k) /\ k.exc = FALSE /\ k.pc = Place(j) /\ k.pc \in Int /\ k.state.at = "Branching" /\ k.state.target = t /\ Worded(k)
  BY Places DEF Ready, Branching
<1>2. k.pc + 4 = Place(j + 1) /\ j + 1 \in 0 .. INSTR_COUNT /\ m \in Int
  BY <1>1, Places
<1>3. t > k.pc + 4 <=> m > j + 1
  BY <1>1, <1>2, Places DEF Place
<1>4. e = WithExc(w, FALSE)
  <2>1. e = WithExc(IF t > k.pc + 4 THEN u ELSE v, FALSE)
    BY <1>1, ExecuteForm
  <2> QED BY <1>3, <2>1, Zenon
<1> HIDE DEF e, t
<1>5. IsMachine(u) /\ SameData(u, k) /\ u.pc = k.pc + 4 /\ u.state = k.state
  BY <1>1, SameDataUpdates
<1> HIDE DEF u
<1>6. IsMachine(v) /\ SameData(v, u) /\ v.pc = u.pc /\ v.state = Normal
  BY <1>5, SameDataUpdates
<1> HIDE DEF v
<1>7. IsMachine(w) /\ SameData(w, k) /\ w.pc = k.pc + 4 /\ w.state = IF m > j + 1 THEN k.state ELSE Normal
  BY <1>5, <1>6 DEF SameData, SameFile
<1> HIDE DEF w
<1>8. IsMachine(e) /\ SameData(e, k) /\ e.pc = Place(j + 1) /\ e.exc = FALSE /\ e.state = IF m > j + 1 THEN k.state ELSE Normal
  BY <1>2, <1>4, <1>7, Cleared DEF SameData, SameFile
<1>9. Worded(e)
  BY <1>1, <1>8 DEF Worded, SameData, SameFile
<1>10. Ready(e, j + 1)
  BY <1>2, <1>8, <1>9 DEF Ready
<1> QED BY <1>8, <1>10 DEF e
-----------------------------------------------------------------------------
(* The history of the emulator: where it was in front of each word.  The    *)
(* sequential machine visits some of those places again.                    *)

\* The emulator went over n words, and this is where it was in front of each of them.
Traced(h, n) ==
  /\ n \in 0 .. INSTR_COUNT /\ h[0] = New /\ h[n] = machine
  /\ DOMAIN prog = {Place(j) : j \in 0 .. n - 1}
  /\ \A j \in 0 .. n : Ready(h[j], j)
  /\ \A j \in 0 .. n - 1 : Fit(prog[Place(j)], h[j], j) /\ h[j + 1] = Execute(h[j], prog[Place(j)])

\* The sequential machine is where the emulator was, or about to execute a slot once more.
Following(h) ==
  \/ pc = I!STOP /\ Holds(h[INSTR_COUNT])
  \/ \E j \in 0 .. INSTR_COUNT - 1 :
       /\ pc = Place(j)
       /\ \/ h[j].state = Normal /\ npc = Place(j + 1) /\ Holds(h[j])
          \/ h[j].state = InDelaySlot(npc) /\ Holds(h[j])
          \/ /\ h[j].state = InDelaySlot(pc) /\ npc = Place(j + 1)
             /\ Holds(Again(h[j], prog[pc])) /\ Reaches(prog[pc], Again(h[j], prog[pc]))

\* What a generated run keeps.
Tracking ==
  \E h, n : /\ Traced(h, n)
            /\ \/ phase = "generate" /\ pc = Place(0) /\ npc = Place(1) /\ Holds(New)
               \/ phase = "run" /\ n = INSTR_COUNT /\ Following(h)

\* The new machine is ready for the first word.
LEMMA NewReady == Ready(New, 0)
<1>1. /\ New.grf = [r \in 0 .. NREG - 1 |-> 0] /\ New.state = Normal /\ New.pc = TEXT_MIN /\ New.exc = FALSE
      /\ New.lo = 0 /\ New.hi = 0 /\ New.mem = [a \in 0 .. MEM_SIZE - 1 |-> 0] /\ IsMachine(New)
  BY DEF New, IsMachine, Parts
<1>2. 0 \in Word
  BY WordsAssumption DEF Word
<1>3. Worded(New)
  BY <1>1, <1>2 DEF Worded
<1>4. Place(0) = TEXT_MIN
  BY GeneratorAssumption DEF Place
<1> QED BY <1>1, <1>3, <1>4 DEF Ready

\* One more word.
LEMMA TraceGrows ==
  ASSUME DELAYED, ~EXCEPTIONS, NEW h, NEW n, Traced(h, n), Generate
  PROVE  n \in 0 .. INSTR_COUNT - 1 /\ \E g : Traced(g, n + 1)'
<1>1. EXCEPTIONS = FALSE /\ INSTR_COUNT \in Nat \ {0} /\ n \in 0 .. INSTR_COUNT
  BY GeneratorAssumption DEF Traced
<1>2. PICK irq \in {FALSE, EXCEPTIONS} : \E i \in Candidates(Started(irq)) :
         machine' = Execute(Started(irq), i) /\ prog' = Written(prog, Started(irq).pc, i)
  BY Zenon DEF Generate
<1>3. Started(irq) = machine
  <2>1. irq = FALSE
    BY <1>1, <1>2, Zenon
  <2> QED BY <2>1, Zenon DEF Started
<1>20. PICK i \in Candidates(machine) : machine' = Execute(machine, i) /\ prog' = Written(prog, machine.pc, i)
  BY <1>2, <1>3
<1>4. h[n] = machine /\ Ready(h[n], n)
  BY <1>1 DEF Traced
<1>5. n \in 0 .. INSTR_COUNT - 1
  <2>1. machine.pc = Place(n) /\ ~(machine.pc >= jump_limit)
    BY <1>4 DEF Ready, Generate, Generated
  <2> QED BY <1>1, <2>1, GeneratorAssumption DEF Place, jump_limit
<1>6. Fit(i, h[n], n)
  BY <1>20, <1>4, <1>5, GeneratedFits
<1> DEFINE k == h[n]
           e == Execute(k, i)
           g == [j \in 0 .. n + 1 |-> IF j = n + 1 THEN e ELSE h[j]]
           p == Written(prog, Place(n), i)
<1>7. machine' = e /\ prog' = p
  <2>1. machine.pc = Place(n)
    BY <1>4 DEF Ready
  <2> QED BY <1>20, <1>4, <2>1
<1>8. Ready(e, n + 1)
  <2>1. CASE k.state = Normal
    BY <1>4, <1>5, <1>6, <2>1, ReadyNormal
  <2>2. CASE \E m \in n .. INSTR_COUNT : k.state = InDelaySlot(Place(m))
    BY <1>4, <1>5, <1>6, <2>2, ReadySlot
  <2>3. CASE \E m \in n + 1 .. INSTR_COUNT : k.state = Branching(Place(m))
    BY <1>4, <1>5, <2>3, ReadyBranching
  <2> QED BY <1>4, <2>1, <2>2, <2>3 DEF Ready
<1>9. /\ DOMAIN p = {Place(j) : j \in 0 .. n} /\ p[Place(n)] = i
      /\ \A j \in 0 .. n - 1 : p[Place(j)] = prog[Place(j)]
  <2>1. DOMAIN p = DOMAIN prog \cup {Place(n)} /\ p[Place(n)] = i
        /\ \A a \in DOMAIN prog : a # Place(n) => p[a] = prog[a]
    BY DEF Written
  <2> HIDE DEF p
  <2>2. DOMAIN prog = {Place(j) : j \in 0 .. n - 1}
    BY DEF Traced
  <2>3. DOMAIN p = {Place(j) : j \in 0 .. n}
    BY <1>1, <2>1, <2>2
  <2>4. ASSUME NEW j \in 0 .. n - 1 PROVE p[Place(j)] = prog[Place(j)]
    <3>1. Place(j) # Place(n)
      BY <1>1, Places
    <3> QED BY <2>1, <2>2, <3>1
  <2> QED BY <2>1, <2>3, <2>4
<1>10. /\ g[0] = New /\ g[n + 1] = e /\ \A j \in 0 .. n : g[j] = h[j]
  <2> HIDE DEF e
  <2> QED BY <1>1 DEF Traced
<1> HIDE DEF e, g, p
<1>11. \A j \in 0 .. n + 1 : Ready(g[j], j)
  <2>1. \A j \in 0 .. n : Ready(h[j], j)
    BY DEF Traced
  <2> QED BY <1>1, <1>8, <1>10, <2>1
<1>12. ASSUME NEW j \in 0 .. n PROVE Fit(p[Place(j)], g[j], j) /\ g[j + 1] = Execute(g[j], p[Place(j)])
  <2>1. CASE j = n
    BY <1>6, <1>9, <1>10, <2>1 DEF e
  <2>2. CASE j # n
    <3>1. j \in 0 .. n - 1 /\ j \in 0 .. n /\ j + 1 \in 0 .. n
      BY <1>1, <2>2
    <3>2. Fit(prog[Place(j)], h[j], j) /\ h[j + 1] = Execute(h[j], prog[Place(j)])
      BY <3>1 DEF Traced
    <3> QED BY <1>9, <1>10, <3>1, <3>2
  <2> QED BY <2>1, <2>2
<1>13. Traced(g, n + 1)'
  <2> SUFFICES /\ n + 1 \in 0 .. INSTR_COUNT /\ g[0] = New /\ g[n + 1] = machine'
               /\ DOMAIN prog' = {Place(j) : j \in 0 .. (n + 1) - 1}
               /\ \A j \in 0 .. n + 1 : Ready(g[j], j)
               /\ \A j \in 0 .. (n + 1) - 1 : Fit(prog'[Place(j)], g[j], j) /\ g[j + 1] = Execute(g[j], prog'[Place(j)])
    BY DEF Traced
  <2>1. (n + 1) - 1 = n /\ n + 1 \in 0 .. INSTR_COUNT
    BY <1>1, <1>5
  <2> QED BY <1>7, <1>9, <1>10, <1>11, <1>12, <2>1
<1> QED BY <1>5, <1>13

\* Branching, the emulator gets to the target with what it had when it left the slot.
LEMMA Skips ==
  ASSUME DELAYED, ~EXCEPTIONS, NEW h, Traced(h, INSTR_COUNT), NEW j \in 0 .. INSTR_COUNT - 1, NEW m \in j + 1 .. INSTR_COUNT,
         h[j].state = Branching(Place(m))
  PROVE  h[m].state = Normal /\ SameData(h[m], h[j])
<1> DEFINE n == m - 1 - j
           G == {q \in Nat : h[j + q].state = Branching(Place(m)) /\ SameData(h[j + q], h[j])}
<1>1. n \in Nat /\ INSTR_COUNT \in Nat \ {0} /\ j \in Nat /\ m \in Nat /\ j + n = m - 1 /\ j + 0 = j
  BY Places
<1>2. 0 \in G
  BY <1>1 DEF SameData, SameFile
<1>3. ASSUME NEW q \in Nat, q <= n, q \in G
      PROVE  /\ SameData(h[j + q + 1], h[j])
             /\ h[j + q + 1].state = IF m > j + q + 1 THEN Branching(Place(m)) ELSE Normal
  <2> DEFINE p == j + q
  <2>1. p \in 0 .. INSTR_COUNT - 1 /\ m \in p + 1 .. INSTR_COUNT /\ p \in 0 .. INSTR_COUNT
    BY <1>1, <1>3
  <2>2. h[p].state = Branching(Place(m)) /\ SameData(h[p], h[j])
    BY <1>3
  <2> HIDE DEF p
  <2>3. Ready(h[p], p) /\ h[p + 1] = Execute(h[p], prog[Place(p)])
    BY <2>1 DEF Traced
  <2>4. SameData(h[p + 1], h[p]) /\ h[p + 1].state = IF m > p + 1 THEN h[p].state ELSE Normal
    BY <2>1, <2>2, <2>3, ReadyBranching
  <2>5. SameData(h[p + 1], h[j]) /\ h[p + 1].state = IF m > p + 1 THEN Branching(Place(m)) ELSE Normal
    BY <2>2, <2>4 DEF SameData, SameFile
  <2> QED BY <2>5 DEF p
<1> HIDE DEF n
<1>4. ASSUME NEW q \in 0 .. n - 1, q \in G PROVE q + 1 \in G
  <2>1. q \in Nat /\ q <= n /\ m > j + q + 1 /\ j + (q + 1) = j + q + 1 /\ q + 1 \in Nat
    BY <1>1
  <2>2. SameData(h[j + q + 1], h[j]) /\ h[j + q + 1].state = Branching(Place(m))
    BY <1>3, <1>4, <2>1
  <2> QED BY <2>1, <2>2
<1>5. n \in G
  <2> HIDE DEF G
  <2>1. \A q \in 0 .. n : q \in G
    BY <1>1, <1>2, <1>4, Induction
  <2> QED BY <1>1, <2>1
<1>6. j + n + 1 = m /\ ~(m > j + n + 1)
  BY <1>1
<1> QED BY <1>1, <1>3, <1>5, <1>6
-----------------------------------------------------------------------------
(* The sequential machine follows the history. *)

\* The words of the program, as the sequential machine sees them.
LEMMA WordsInMemory ==
  ASSUME NEW h, Traced(h, INSTR_COUNT), NEW m \in 0 .. INSTR_COUNT
  PROVE  /\ I!Align(Place(m)) = Place(m) /\ Align(Place(m)) = Place(m) /\ Place(m) # I!STOP
         /\ Place(m) \in DOMAIN prog <=> m < INSTR_COUNT
         /\ \A next : I!Runs(Place(m), next) <=> m < INSTR_COUNT
<1>1. /\ Place(m) \in Nat /\ Place(m) % 4 = 0 /\ Place(m) \in Word /\ INSTR_COUNT \in Nat
      /\ \A j \in 0 .. INSTR_COUNT : Place(m) = Place(j) <=> m = j
  BY Places
<1>2. I!Align(Place(m)) = Place(m) /\ Align(Place(m)) = Place(m)
  BY <1>1 DEF I!Align, Align
<1>3. Place(m) # I!STOP
  BY <1>1 DEF I!STOP
<1>4. Place(m) \in DOMAIN prog <=> m < INSTR_COUNT
  BY <1>1 DEF Traced
<1>5. I!InMemory(Place(m))
  BY <1>1, GeneratorAssumption, WordsAssumption DEF I!InMemory, Place, Word
<1>6. \A next : I!Runs(Place(m), next) <=> m < INSTR_COUNT
  BY <1>2, <1>4, <1>5 DEF I!Runs
<1> QED BY <1>2, <1>3, <1>4, <1>6

\* Both machines come to word m, or behind the last one.
LEMMA Arrives ==
  ASSUME NEW h, Traced(h, INSTR_COUNT), NEW m \in 1 .. INSTR_COUNT, NEW x, SameData(h[m], x), Holds(x)',
         m < INSTR_COUNT => h[m].state = Normal, npc = Place(m), UNCHANGED prog,
         IF I!Runs(npc, U(npc + 4)) THEN pc' = npc /\ npc' = U(npc + 4) ELSE pc' = I!STOP /\ npc' = I!STOP
  PROVE  Following(h)'
<1>1. INSTR_COUNT \in Nat /\ m \in 0 .. INSTR_COUNT
  BY Places
<1>2. Holds(h[m])'
  BY DEF Holds, SameData, SameFile
<1>3. I!Runs(Place(m), U(npc + 4)) <=> m < INSTR_COUNT
  BY <1>1, WordsInMemory
<1>4. CASE m < INSTR_COUNT
  <2>1. pc' = Place(m) /\ npc' = U(Place(m) + 4)
    BY <1>3, <1>4
  <2>2. m \in 0 .. INSTR_COUNT - 1 /\ m + 1 \in 0 .. INSTR_COUNT
    BY <1>1, <1>4
  <2>3. Place(m) + 4 = Place(m + 1) /\ Place(m + 1) \in Word
    BY <1>1, <2>2, Places
  <2>4. npc' = Place(m + 1)
    BY <2>1, <2>3, Wraps
  <2> QED BY <1>2, <1>4, <2>1, <2>2, <2>4 DEF Following
<1>5. CASE m = INSTR_COUNT
  <2>1. pc' = I!STOP
    BY <1>1, <1>3, <1>5
  <2> QED BY <1>2, <1>5, <2>1 DEF Following
<1> QED BY <1>1, <1>4, <1>5

\* A load that keeps its base accesses data memory once more.
LEMMA ReachesAgain ==
  ASSUME ~EXCEPTIONS, NEW k, IsMachine(k), Worded(k), NEW i, WellFormed(i), Reaches(i, k), ~(i.op \in Load /\ i.rs = i.rt)
  PROVE  Reaches(i, Again(k, i))
<1> DEFINE x == ExecuteOn(k, i)
           a == Again(k, i)
<1>1. IsMachine(x) /\ SameData(x, Done(k, i))
  BY ExecuteOnData DEF SamePlace
<1> HIDE DEF x
<1>2. a.grf = x.grf
  BY <1>1, SameDataUpdates DEF Again, SameData, SameFile, x
<1> HIDE DEF a
<1> SUFFICES ASSUME i.op \in Load \cup Store PROVE Addr(i, a) < 4 * MEM_SIZE
  BY DEF Reaches, a
<1>3. a.grf[i.rs] = k.grf[i.rs]
  <2>1. CASE Exception(i, k) # 0
    BY <1>1, <1>2, <2>1 DEF Done, SameData, SameFile
  <2>2. CASE Exception(i, k) = 0 /\ i.op \in Load
    <3>1. Done(k, i) = SetGrf(k, i.rt, LoadValue(i, k))
      BY <2>2, EffectForm DEF Done
    <3>2. a.grf = IF i.rt = 0 THEN k.grf ELSE Put(k.grf, i.rt, LoadValue(i, k))
      BY <1>1, <1>2, <3>1, SetKeeps DEF SameData, SameFile
    <3>3. i.rs # i.rt /\ i.rs \in DOMAIN k.grf
      BY <2>2 DEF WellFormed, Worded
    <3> QED BY <3>2, <3>3 DEF Put
  <2>3. CASE Exception(i, k) = 0 /\ i.op \in Store
    <3>1. Done(k, i) = WithWord(k, Addr(i, k) \div 4, StoreValue(i, k))
      BY <2>3, EffectForm DEF Done
    <3>2. Done(k, i).grf = k.grf
      BY <3>1, WordUpdate DEF Only, Parts
    <3> QED BY <1>1, <1>2, <3>2 DEF SameData, SameFile
  <2> QED BY <2>1, <2>2, <2>3
<1>4. Addr(i, a) = Addr(i, k)
  BY <1>3, Zenon DEF Addr, Rs
<1> QED BY <1>4 DEF Reaches

\* One step of the sequential machine.
LEMMA RunFollows ==
  ASSUME DELAYED, ~EXCEPTIONS, NEW h, Traced(h, INSTR_COUNT), Following(h), BaseKept, phase = "run", Run
  PROVE  Following(h)'
<1>1. pc # I!STOP /\ I!Execute /\ UNCHANGED prog
  BY DEF Run, I!Next, tester
<1>2. PICK j \in 0 .. INSTR_COUNT - 1 :
       /\ pc = Place(j)
       /\ \/ h[j].state = Normal /\ npc = Place(j + 1) /\ Holds(h[j])
          \/ h[j].state = InDelaySlot(npc) /\ Holds(h[j])
          \/ /\ h[j].state = InDelaySlot(pc) /\ npc = Place(j + 1)
             /\ Holds(Again(h[j], prog[pc])) /\ Reaches(prog[pc], Again(h[j], prog[pc]))
  BY <1>1 DEF Following
<1>10. PICK k, i : k = h[j] /\ i = prog[Place(j)]
  BY Zenon
<1>11. PICK e, x, r : e = Execute(k, i) /\ x = ExecuteOn(k, i) /\ r = BranchResult(i, k)
  BY Zenon
<1>3. /\ INSTR_COUNT \in Nat \ {0} /\ j \in 0 .. INSTR_COUNT /\ j + 1 \in 0 .. INSTR_COUNT /\ j + 1 \in 1 .. INSTR_COUNT
      /\ Place(j) \in Int
  BY Places
<1>4. Ready(k, j) /\ Fit(i, k, j) /\ h[j + 1] = e
  BY <1>3, <1>10, <1>11 DEF Traced
<1>5. IsMachine(k) /\ k.pc = Place(j) /\ k.pc \in Int /\ Worded(k) /\ WellFormed(i) /\ Reaches(i, k) /\ k.exc = FALSE
  BY <1>3, <1>4 DEF Ready, Fit
<1>6. I!Instr = i
  BY <1>2, <1>3, <1>10, WordsInMemory DEF I!Instr
<1>7. CASE k.state = Normal /\ npc = Place(j + 1) /\ Holds(k)
  <2>1. /\ Holds(x)'
        /\ LET after == IF r = <<>> THEN U(npc + 4) ELSE r[1]
           IN IF I!Runs(npc, after) THEN pc' = npc /\ npc' = after ELSE pc' = I!STOP /\ npc' = I!STOP
    BY <1>1, <1>2, <1>5, <1>6, <1>7, <1>11, MachineStep
  <2>2. /\ SameData(e, x)
        /\ i.op \notin Branch => r = <<>> /\ e.state = Normal
        /\ i.op \in Branch => \E m \in j + 1 .. INSTR_COUNT :
                                     /\ e.state = InDelaySlot(Place(m))
                                     /\ (r = <<>> /\ m = j + 2) \/ r = <<Place(m)>>
    BY <1>4, <1>7, <1>11, ReadyNormal
  <2>3. CASE i.op \notin Branch
    <3>1. IF I!Runs(npc, U(npc + 4)) THEN pc' = npc /\ npc' = U(npc + 4) ELSE pc' = I!STOP /\ npc' = I!STOP
      BY <2>1, <2>2, <2>3
    <3> QED BY <1>1, <1>3, <1>4, <1>7, <2>1, <2>2, <2>3, <3>1, Arrives
  <2>4. CASE i.op \in Branch
    <3>1. PICK m \in j + 1 .. INSTR_COUNT : /\ e.state = InDelaySlot(Place(m))
                                            /\ (r = <<>> /\ m = j + 2) \/ r = <<Place(m)>>
      BY <2>2, <2>4
    <3> DEFINE after == IF r = <<>> THEN U(npc + 4) ELSE r[1]
    <3>2. m \in 0 .. INSTR_COUNT
      BY <1>3
    <3>3. after = Place(m)
      <4>1. CASE r = <<>> /\ m = j + 2
        <5>0. TEXT_MIN \in Int /\ j \in Int
          BY <1>3, GeneratorAssumption
        <5>1. npc + 4 = Place(m)
          BY <1>7, <4>1, <5>0 DEF Place
        <5>2. Place(m) \in Word
          BY <3>2, Places
        <5> QED BY <4>1, <5>1, <5>2, Wraps
      <4>2. CASE r = <<Place(m)>>
        BY <4>2
      <4> QED BY <3>1, <4>1, <4>2
    <3>4. j + 1 < INSTR_COUNT
      BY <1>4, <2>4 DEF Fit
    <3>5. IF I!Runs(npc, after) THEN pc' = npc /\ npc' = after ELSE pc' = I!STOP /\ npc' = I!STOP
      BY <2>1
    <3>6. pc' = Place(j + 1) /\ npc' = Place(m)
      <4>1. I!Runs(Place(j + 1), after)
        BY <1>3, <3>4, WordsInMemory
      <4> QED BY <1>7, <3>3, <3>5, <4>1
    <3>7. Holds(e)'
      BY <2>1, <2>2 DEF Holds, SameData, SameFile
    <3>8. j + 1 \in 0 .. INSTR_COUNT - 1
      BY <1>3, <3>4
    <3>9. Holds(h[j + 1])'
      BY <1>4, <3>7 DEF Holds
    <3> QED BY <1>4, <3>1, <3>6, <3>8, <3>9 DEF Following
  <2> QED BY <2>3, <2>4
<1>8. CASE k.state = InDelaySlot(npc) /\ Holds(k)
  <2>1. PICK m \in j .. INSTR_COUNT : npc = Place(m)
    <3>1. k.state.at = "InDelaySlot" /\ k.state.target = npc
      BY <1>8 DEF InDelaySlot
    <3>2. Normal.at # "InDelaySlot" /\ \A t : Branching(t).at # "InDelaySlot" /\ InDelaySlot(t).target = t
      BY DEF Normal, Branching, InDelaySlot
    <3>3. \E m \in j .. INSTR_COUNT : k.state = InDelaySlot(Place(m))
      BY <1>4, <3>1, <3>2 DEF Ready
    <3> QED BY <3>1, <3>2, <3>3
  <2>2. k.state = InDelaySlot(Place(m)) /\ m \in 0 .. INSTR_COUNT /\ (m # j => m \in j + 1 .. INSTR_COUNT /\ m \in 1 .. INSTR_COUNT)
    BY <1>3, <1>8, <2>1
  <2>3. /\ i.op \notin Branch
        /\ m > j + 1 => e.state = Branching(Place(m)) /\ SameData(e, x)
        /\ m = j + 1 => e.state = Normal /\ SameData(e, x)
    BY <1>4, <2>2, <1>11, ReadySlot
  <2>4. r = <<>>
    BY <1>11, <2>3 DEF BranchResult
  <2>5. /\ Holds(x)'
        /\ IF I!Runs(npc, U(npc + 4)) THEN pc' = npc /\ npc' = U(npc + 4) ELSE pc' = I!STOP /\ npc' = I!STOP
    BY <1>1, <1>2, <1>5, <1>6, <1>8, <2>4, <1>11, MachineStep
  <2>6. CASE m = j
    <3>1. I!Runs(Place(j), U(npc + 4))
      BY <1>3, WordsInMemory
    <3>2. pc' = Place(j) /\ npc' = Place(j + 1)
      <4>1. pc' = Place(j) /\ npc' = U(Place(j) + 4)
        BY <2>1, <2>5, <2>6, <3>1
      <4>2. Place(j) + 4 = Place(j + 1) /\ Place(j + 1) \in Word
        BY <1>3, Places
      <4> QED BY <4>1, <4>2, Wraps
    <3>3. Reaches(i, Again(k, i))
      <4>1. ~(i.op \in Load /\ i.rs = i.rt)
        BY <1>1, <1>2, <1>6, <2>1, <2>6 DEF BaseKept
      <4> QED BY <1>5, <4>1, ReachesAgain
    <3>0. PICK a : a = Again(k, i)
      BY Zenon
    <3>4. Holds(a)'
      <4>1. IsMachine(x)
        BY <1>5, <1>11, ExecuteOnData DEF SamePlace
      <4>2. SameData(a, x)
        BY <1>11, <3>0, <4>1, SameDataUpdates DEF Again
      <4> QED BY <2>5, <4>2 DEF Holds, SameData, SameFile
    <3>5. prog'[pc'] = i
      BY <1>1, <1>10, <3>2
    <3>6. k.state = InDelaySlot(pc')
      BY <2>2, <2>6, <3>2
    <3>7. Holds(Again(h[j], prog[pc]))' /\ Reaches(prog'[pc'], Again(h[j], prog'[pc']))
      BY <1>10, <3>0, <3>3, <3>4, <3>5 DEF Holds
    <3> QED BY <1>10, <3>2, <3>6, <3>7 DEF Following
  <2>7. CASE m = j + 1
    BY <1>1, <1>3, <1>4, <2>1, <2>3, <2>5, <2>7, Arrives
  <2>8. CASE m > j + 1
    <3>1. j + 1 \in 0 .. INSTR_COUNT - 1 /\ m \in (j + 1) + 1 .. INSTR_COUNT
      BY <1>3, <2>2, <2>8
    <3>2. h[m].state = Normal /\ SameData(h[m], h[j + 1])
      BY <1>4, <2>3, <2>8, <3>1, Skips
    <3>3. SameData(h[m], x)
      BY <1>4, <2>3, <2>8, <3>2 DEF SameData, SameFile
    <3> QED BY <1>1, <1>3, <2>1, <2>2, <2>5, <2>8, <3>2, <3>3, Arrives
  <2> QED BY <1>3, <2>6, <2>7, <2>8
<1>9. CASE /\ k.state = InDelaySlot(Place(j)) /\ npc = Place(j + 1)
           /\ Holds(Again(k, i)) /\ Reaches(i, Again(k, i))
  <2>0. PICK a, y : a = Again(k, i) /\ y = ExecuteOn(a, i)
    BY Zenon
  <2>1. IsMachine(a) /\ a.pc = k.pc /\ Worded(a)
    <3>1. IsMachine(x) /\ x.pc = k.pc /\ Worded(x)
      BY <1>5, <1>11, ExecuteOnData, ExecuteOnWorded DEF SamePlace
    <3>2. IsMachine(a) /\ a.pc = x.pc /\ SameData(a, x)
      BY <1>11, <2>0, <3>1, SameDataUpdates DEF Again
    <3> QED BY <3>1, <3>2 DEF SameData, SameFile, Worded
  <2>2. i.op \notin Branch /\ e.state = Normal /\ SameData(e, y)
    <3>1. j \in j .. INSTR_COUNT
      BY <1>3
    <3> QED BY <1>4, <1>9, <1>11, <2>0, <3>1, ReadySlot
  <2>3. BranchResult(i, a) = <<>>
    BY <2>2 DEF BranchResult
  <2>4. Holds(a) /\ Reaches(i, a)
    BY <1>9, <2>0
  <2>5. /\ Holds(y)'
        /\ IF I!Runs(npc, U(npc + 4)) THEN pc' = npc /\ npc' = U(npc + 4) ELSE pc' = I!STOP /\ npc' = I!STOP
    BY <1>1, <1>2, <1>5, <1>6, <2>1, <2>3, <2>0, <2>4, MachineStep
  <2> QED BY <1>1, <1>3, <1>4, <1>9, <2>2, <2>5, Arrives
<1> QED BY <1>2, <1>7, <1>8, <1>9, <1>10

\* The invariant holds at first, and as long as the bases are kept.
LEMMA TrackingStarts == RunInit => Tracking
<1> SUFFICES ASSUME RunInit PROVE Tracking
  OBVIOUS
<1> DEFINE h == [j \in {0} |-> New]
<1>1. h[0] = New
  OBVIOUS
<1> HIDE DEF h
<1>2. Traced(h, 0)
  <2>1. 0 \in 0 .. INSTR_COUNT /\ machine = New /\ DOMAIN prog = {}
    BY Places DEF RunInit, GenInit
  <2> QED BY <1>1, <2>1, NewReady DEF Traced
<1>3. Place(0) = TEXT_MIN /\ Place(1) = TEXT_MIN + 4
  BY GeneratorAssumption DEF Place
<1>4. New.lo = 0 /\ New.hi = 0
  BY DEF New
<1>5. phase = "generate" /\ pc = Place(0) /\ npc = Place(1) /\ Holds(New)
  BY <1>3, <1>4 DEF RunInit, Holds
<1> QED BY <1>2, <1>5 DEF Tracking

\* Every step keeps the invariant.
LEMMA TrackingStep ==
  ASSUME DELAYED, ~EXCEPTIONS, Tracking, BaseKept, [RunNext]_<<tester, isa>>
  PROVE  Tracking'
<1>1. PICK h, n : /\ Traced(h, n)
                  /\ \/ phase = "generate" /\ pc = Place(0) /\ npc = Place(1) /\ Holds(New)
                     \/ phase = "run" /\ n = INSTR_COUNT /\ Following(h)
  BY DEF Tracking
<1>2. CASE GenerateOne
  <2>1. phase = "generate" /\ Generate /\ UNCHANGED <<phase, isa>>
    BY <1>2 DEF GenerateOne
  <2>2. PICK g : Traced(g, n + 1)'
    BY <1>1, <2>1, TraceGrows
  <2>3. phase' = "generate" /\ pc' = Place(0) /\ npc' = Place(1) /\ Holds(New)'
    BY <1>1, <2>1 DEF isa, Holds
  <2> QED BY <2>2, <2>3 DEF Tracking
<1>3. CASE Loaded
  <2>1. /\ phase = "generate" /\ machine.pc >= jump_limit /\ phase' = "run" /\ UNCHANGED <<machine, prog>>
        /\ UNCHANGED isa
    BY <1>3 DEF Loaded, Generated
  <2>2. n = INSTR_COUNT
    <3>1. n \in 0 .. INSTR_COUNT /\ INSTR_COUNT \in Nat /\ TEXT_MIN \in Nat
      BY <1>1, Places DEF Traced
    <3>2. machine.pc = Place(n)
      BY <1>1, <3>1 DEF Traced, Ready
    <3> QED BY <2>1, <3>1, <3>2 DEF jump_limit, Place
  <2>3. Traced(h, n)'
    BY <1>1, <2>1 DEF Traced
  <2>4. h[0].state = Normal /\ pc' = Place(0) /\ npc' = Place(0 + 1) /\ Holds(h[0])'
    BY <1>1, <2>1 DEF Traced, New, isa, Holds
  <2>5. Following(h)'
    <3>1. 0 \in 0 .. INSTR_COUNT - 1
      BY Places
    <3> QED BY <2>4, <3>1 DEF Following
  <2> QED BY <2>1, <2>2, <2>3, <2>5 DEF Tracking
<1>4. CASE Run
  <2>1. phase = "run" /\ UNCHANGED <<machine, prog, phase>>
    BY <1>4 DEF Run, tester
  <2>2. Following(h)'
    BY <1>1, <1>4, <2>1, RunFollows
  <2>3. Traced(h, n)'
    BY <1>1, <2>1 DEF Traced
  <2> QED BY <1>1, <2>1, <2>2, <2>3 DEF Tracking
<1>5. CASE UNCHANGED <<tester, isa>>
  <2>1. UNCHANGED <<machine, prog, phase, pc, npc, grf, hl, ram>>
    BY <1>5 DEF tester, isa
  <2>2. Traced(h, n)' /\ (Following(h) => Following(h)') /\ (Holds(New) => Holds(New)')
    BY <1>1, <2>1 DEF Traced, Following, Holds
  <2> QED BY <1>1, <2>1, <2>2 DEF Tracking
<1> QED BY <1>2, <1>3, <1>4, <1>5 DEF RunNext
-----------------------------------------------------------------------------
(* The theorems about generated programs. *)

\* At the end of both the invariant is what was promised.
LEMMA TrackingSameEffect == ASSUME Tracking PROVE SameEffect
<1> SUFFICES ASSUME phase = "run", pc = I!STOP
             PROVE  machine.grf = grf /\ machine.mem = ram /\ machine.lo = hl.lo /\ machine.hi = hl.hi
  BY DEF SameEffect
<1>1. PICK h : Traced(h, INSTR_COUNT) /\ Following(h)
  BY DEF Tracking
<1>2. ASSUME NEW j \in 0 .. INSTR_COUNT - 1 PROVE pc # Place(j)
  BY <1>1, Places, WordsInMemory
<1>3. Holds(h[INSTR_COUNT])
  BY <1>1, <1>2 DEF Following
<1> QED BY <1>1, <1>3 DEF Traced, Holds

\* On the way, it says where the next two words are.
LEMMA TrackingStaysInside == ASSUME DELAYED, ~EXCEPTIONS, Tracking PROVE StaysInside
<1> SUFFICES ASSUME phase = "run", pc # I!STOP
             PROVE  /\ npc >= pc
                    /\ Align(npc) \notin DOMAIN prog => npc = jump_limit
                    /\ I!Instr.op \in Branch /\ Align(npc) \in DOMAIN prog => prog[Align(npc)].op \notin Branch
  BY DEF StaysInside
<1>1. PICK h : Traced(h, INSTR_COUNT) /\ Following(h)
  BY DEF Tracking
<1>2. PICK j \in 0 .. INSTR_COUNT - 1 :
       /\ pc = Place(j)
       /\ \/ h[j].state = Normal /\ npc = Place(j + 1)
          \/ h[j].state = InDelaySlot(npc)
          \/ h[j].state = InDelaySlot(pc) /\ npc = Place(j + 1)
  BY <1>1 DEF Following
<1>3. j \in 0 .. INSTR_COUNT /\ j + 1 \in 0 .. INSTR_COUNT /\ INSTR_COUNT \in Nat
  BY Places
<1>4. Ready(h[j], j) /\ Fit(prog[Place(j)], h[j], j) /\ h[j + 1] = Execute(h[j], prog[Place(j)])
  BY <1>1, <1>3 DEF Traced
<1>5. PICK m \in 0 .. INSTR_COUNT : npc = Place(m) /\ m >= j /\ (h[j].state = Normal => m = j + 1)
  <2>1. CASE npc = Place(j + 1)
    BY <1>3, <2>1
  <2>2. CASE h[j].state = InDelaySlot(npc)
    <3>1. h[j].state.at = "InDelaySlot" /\ h[j].state.target = npc
      BY <2>2 DEF InDelaySlot
    <3>2. Normal.at # "InDelaySlot" /\ \A t : Branching(t).at # "InDelaySlot" /\ InDelaySlot(t).target = t
      BY DEF Normal, Branching, InDelaySlot
    <3>3. PICK m \in j .. INSTR_COUNT : h[j].state = InDelaySlot(Place(m))
      BY <1>4, <3>1, <3>2 DEF Ready
    <3>4. m \in 0 .. INSTR_COUNT /\ npc = Place(m) /\ m >= j /\ h[j].state # Normal
      BY <1>3, <3>1, <3>2, <3>3
    <3> QED BY <3>4
  <2> QED BY <1>2, <2>1, <2>2
<1>6. Align(npc) = npc /\ (npc \in DOMAIN prog <=> m < INSTR_COUNT)
  BY <1>1, <1>5, WordsInMemory
<1>7. npc \notin DOMAIN prog => npc = jump_limit
  <2>1. npc \notin DOMAIN prog => m = INSTR_COUNT
    BY <1>3, <1>6
  <2> QED BY <1>5, <2>1, Places
<1>8. ASSUME I!Instr.op \in Branch, npc \in DOMAIN prog PROVE prog[npc].op \notin Branch
  <2>1. I!Instr = prog[Place(j)]
    BY <1>1, <1>2, <1>3, WordsInMemory DEF I!Instr
  <2>2. h[j].state.at # "InDelaySlot" /\ j + 1 < INSTR_COUNT
    BY <1>4, <1>8, <2>1 DEF Fit
  <2>3. \A t : InDelaySlot(t).at = "InDelaySlot"
    BY DEF InDelaySlot
  <2>4. h[j].state = Normal /\ m = j + 1
    BY <1>2, <1>5, <2>2, <2>3
  <2>5. \E t : h[j + 1].state = InDelaySlot(t)
    BY <1>4, <1>8, <2>1, <2>4, ReadyNormal
  <2>6. Fit(prog[Place(j + 1)], h[j + 1], j + 1)
    BY <1>1, <1>3, <2>2 DEF Traced
  <2> QED BY <1>5, <2>3, <2>4, <2>5, <2>6 DEF Fit
<1>9. npc >= pc
  <2>1. TEXT_MIN \in Nat /\ m \in Nat /\ j \in Nat
    BY <1>3, Places
  <2> QED BY <1>2, <1>5, <2>1 DEF Place
<1> QED BY <1>6, <1>7, <1>8, <1>9

\* Run for real on a machine with delay slots that ignores problematic instructions, a program
\* leaves the registers, HI, LO and data memory that the single pass of the emulator over its
\* words left (machine.rs:154-209), unless a slot executed twice moves the base of its own load.
THEOREM SameEffectHolds ==
  ASSUME DELAYED, ~EXCEPTIONS
  PROVE  RunSpec /\ []BaseKept => []SameEffect
<1>1. Tracking /\ BaseKept /\ [RunNext]_<<tester, isa>> => Tracking'
  BY TrackingStep
<1>2. Tracking => SameEffect
  BY TrackingSameEffect
<1> QED BY <1>1, <1>2, TrackingStarts, PTL DEF RunSpec

\* Under the same premises such a program never goes back, is never left but behind its last
\* word, and has no branch in the slot of another (gen.rs:166-178, :193, :199).
THEOREM StaysInsideHolds ==
  ASSUME DELAYED, ~EXCEPTIONS
  PROVE  RunSpec /\ []BaseKept => []StaysInside
<1>1. Tracking /\ BaseKept /\ [RunNext]_<<tester, isa>> => Tracking'
  BY TrackingStep
<1>2. Tracking => StaysInside
  BY TrackingStaysInside
<1> QED BY <1>1, <1>2, TrackingStarts, PTL DEF RunSpec
=============================================================================
