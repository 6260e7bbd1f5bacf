------------------------------ MODULE P5Proofs ------------------------------
(***************************************************************************)
(* The pipeline of P5 implements the sequential machine Isa, for every      *)
(* width of a word, every number of registers, every size of the memories   *)
(* and every program of its instructions that makes no misaligned access.   *)
(* The invariant differs from the one of P6 where the CPUs differ: P5 looks *)
(* at the next address when it fetches, and forwards by number alone.       *)
(***************************************************************************)
EXTENDS P5Isa, DatapathProofs

Reg == 0 .. NREG - 1
InText(a) == a \in TEXT_MIN .. TEXT_MAX - 1
Known5(a) == Align(a) \in DOMAIN text                                 \* a word was loaded there

\* The machine an instruction in E works on, once M and W have finished.
Mach == [pc |-> de.pc, grf |-> [r \in Reg |-> Pending(r)], lo |-> 0, hi |-> 0,
         mem |-> [a \in 0 .. WORDS \div 4 - 1 |-> PendingRam[a % RAM_WORDS]]]
After == IF Em!BranchResult(de.ins, Mach) = <<>> THEN U(fd.pc + 4) ELSE Em!BranchResult(de.ins, Mach)[1]

-----------------------------------------------------------------------------
(* The invariant. *)

\* The fields of an instruction the datapath uses.
Usable(i) == i.rs \in Reg /\ i.rt \in Reg /\ i.imm \in Word /\ WriteAddr(i) \in Reg

Data ==
  /\ text \in Programs /\ f_pc \in Word
  /\ fd = [pc |-> fd.pc, ins |-> fd.ins] /\ fd.pc \in Word /\ Usable(fd.ins)
  /\ de = [pc |-> de.pc, ins |-> de.ins, v0 |-> de.v0, v1 |-> de.v1, link |-> de.link]
  /\ de.pc \in Word /\ Usable(de.ins) /\ de.v0 \in Word /\ de.v1 \in Word /\ de.link \in Word
  /\ em = [pc |-> em.pc, ins |-> em.ins, v1 |-> em.v1, wd |-> em.wd, alu |-> em.alu]
  /\ Usable(em.ins) /\ em.v1 \in Word /\ em.wd \in Word /\ em.alu \in Word
  /\ mw = [pc |-> mw.pc, wa |-> mw.wa, wd |-> mw.wd] /\ mw.wa \in Reg /\ mw.wd \in Word
  /\ grf \in [Reg -> Word] /\ grf[0] = 0
  /\ ram \in [0 .. RAM_WORDS - 1 -> Word]

\* D and E hold what the program has at their addresses, or Bubble.
Holds(s) == IF Real(s) THEN InText(s.pc) /\ Known5(s.pc) /\ s.ins = text[Align(s.pc)] ELSE s.ins = Bubble
Fetched == Holds(fd) /\ Holds(de)

\* While the CPU fetches, the address is in memory.  What is behind an instruction in D was
\* in memory when it was fetched, and once nothing comes behind an instruction in E, the address
\* behind it is none of the program, or the next one is outside of memory.
Halting == /\ halted \/ f_pc = TEXT_MIN \/ InText(f_pc)
           /\ Real(fd) => InText(f_pc) /\ (halted => ~Known5(f_pc))
           /\ Real(de) /\ ~Real(fd) => halted /\ ~(InText(fd.pc) /\ Known5(fd.pc) /\ InText(f_pc))

\* The delay slot is fetched next, and behind it what the branch in front of it says.
SlotBehind == Real(fd) /\ fd.ins.op \in Branch => f_pc = U(fd.pc + 4)
TargetBehind == Real(de) => f_pc = After
Linked == de.ins.op = "jal" => de.link = U(de.pc + 8)

\* What D read is still in the register, unless it is on its way in M or W; and what is on its
\* way in M can be forwarded to an instruction that reads it in E.
Kept(r, v) == r # 0 /\ r # WriteAddr(em.ins) /\ r # mw.wa => v = grf[r]
Latched == Kept(de.ins.rs, de.v0) /\ Kept(de.ins.rt, de.v1)
Ready(r) == r # 0 /\ r = WriteAddr(em.ins) => WriteStage(em.ins) <= EXECUTE
OperandsReady == /\ ReadStage0(de.ins) <= EXECUTE => Ready(de.ins.rs)
                 /\ ReadStage1(de.ins) <= EXECUTE => Ready(de.ins.rt)

Pipeline == Fetched /\ Halting /\ SlotBehind /\ TargetBehind /\ Linked /\ Latched /\ OperandsReady
IsaInv == Data /\ Pipeline

-----------------------------------------------------------------------------
(* Types. *)

\* Zero is a word and a register.
LEMMA Zero ==
  ASSUME P5Assumption
  PROVE  0 \in Word /\ 0 \in Reg
BY WordsAssumption DEF P5Assumption, Reg, Word

\* A bubble is usable.
LEMMA BubbleUsable ==
  ASSUME P5Assumption
  PROVE  Usable(Bubble)
BY Zero, BubbleFacts DEF Usable

\* What P5 knows of the instructions it has.
LEMMA OpFacts ==
  ASSUME NEW i, i.op \in Implemented \/ i = Nop
  PROVE  /\ i.op \in Known \ {"mfc0", "mtc0", "eret"} /\ i.op # "bubble"
         /\ ~CheckOverflow(i) /\ i.op \notin MulDiv /\ i.op \notin MoveTo /\ i.op # "jalr"
         /\ i.op \in Load <=> i.op = "lw"
         /\ i.op \in Store <=> i.op = "sw"
         /\ ExtType(i) = "NONE"
<1>1. i.op \in Implemented \cup {"sll"}
  BY DEF Nop
<1> QED BY <1>1 DEF Implemented, Known, Arith3, AddSub, Logic, Compare, Shift, ShiftV, ArithImm, AddImm, LogicImm, CmpImm,
         Load, Store, Branch, BranchRT, BranchZ, JumpReg, MulDiv, MoveFrom, MoveTo, HiLoOp, CheckOverflow, ExtType

\* Every instruction of a program can be used.
LEMMA TextFacts ==
  ASSUME P5Assumption, text \in Programs, NEW a \in DOMAIN text
  PROVE  Usable(text[a]) /\ (text[a].op \in Implemented \/ text[a] = Nop)
BY DEF P5Assumption, Usable, Reg

\* The index of a word in data memory.
LEMMA RamIndexTyped == \A a \in Int : RamIndex(a) \in 0 .. RAM_WORDS - 1
<1> SUFFICES ASSUME NEW a \in Int PROVE (a \div 4) % RAM_WORDS \in 0 .. RAM_WORDS - 1
  BY DEF RamIndex
<1>1. a \div 4 \in Int
  OBVIOUS
<1> QED BY <1>1, MemoryAssumption

\* What the ALU computes is a word.
LEMMA AluOutTyped ==
  ASSUME NEW i, NEW a \in Word, NEW b \in Word
  PROVE  alu_result(i, a, b) \in Word
<1>1. a \in Nat /\ b \in Nat
  BY WordsAssumption DEF Word
<1>2. HALF \in Nat
  BY Sizes
<1>3. a + b \in Int /\ a - b \in Int /\ b * HALF \in Int
  BY <1>1, <1>2
<1>4. U(a + b) \in Word /\ U(a - b) \in Word /\ U(b * HALF) \in Word
  BY <1>3, Wraps
<1>5. Or(a, b) \in Word /\ And(a, b) \in Word
  BY LogicTyped
<1> QED BY <1>4, <1>5 DEF alu_result

\* The values on their way are words.
LEMMA SignalsTyped ==
  ASSUME P5Assumption, Data
  PROVE  /\ m_write_data \in Word /\ m_read_data \in Word
         /\ \A r \in Reg : Pending(r) \in Word /\ d_read_data(r) \in Word /\ GrfRead(r) \in Word
         /\ e_read_data(de.ins.rs, de.v0) \in Word /\ e_read_data(de.ins.rt, de.v1) \in Word /\ e_alu_result \in Word
         /\ PendingRam \in [0 .. RAM_WORDS - 1 -> Word]
         /\ Pending(0) = 0
<1> USE DEF Data
<1>1. 0 \in Word /\ 0 \in Reg
  BY Zero
<1>2. ram[RamIndex(em.alu)] \in Word
  <2>1. em.alu \in Int
    BY WordsAssumption DEF Word
  <2> QED BY <2>1, RamIndexTyped
<1>3. m_write_data \in Word
  BY <1>2 DEF m_write_data
<1>4. m_read_data \in Word
  BY <1>1 DEF m_read_data
<1>5. PendingRam \in [0 .. RAM_WORDS - 1 -> Word]
  BY <1>4 DEF PendingRam
<1>6. \A r \in Reg : Pending(r) \in Word /\ d_read_data(r) \in Word /\ GrfRead(r) \in Word
  BY <1>1, <1>3 DEF Pending, d_read_data, GrfRead
<1>7. e_read_data(de.ins.rs, de.v0) \in Word /\ e_read_data(de.ins.rt, de.v1) \in Word
  BY <1>1 DEF e_read_data
<1>8. e_alu_result \in Word
  <2>1. In1(de.ins, e_read_data(de.ins.rt, de.v1)) \in Word
    <3>1. de.ins.imm \in Int /\ de.ins.imm \in Word
      BY WordsAssumption DEF Usable, Word
    <3>2. ExtHalf(de.ins.imm) \in Word
      BY <3>1, ExtTyped
    <3> QED BY <1>7, <3>1, <3>2 DEF In1, ExtImm
  <2> QED BY <1>7, <2>1, AluOutTyped DEF e_alu_result
<1>9. Pending(0) = 0
  BY <1>1 DEF Pending
<1> QED BY <1>3, <1>4, <1>5, <1>6, <1>7, <1>8, <1>9

-----------------------------------------------------------------------------
(* One clock. *)

\* What the stages hold after a clock, and what the register file shows.
LEMMA StageFacts ==
  ASSUME P5Assumption, Data, Next
  PROVE  /\ text' = text /\ (halted' <=> should_halt) /\ f_pc' = f_next_pc
         /\ stall => fd' = fd /\ de'.ins = Bubble
         /\ ~stall => /\ fd'.pc = f_pc /\ fd'.ins = f_instr
                      /\ de' = [pc |-> fd.pc, ins |-> fd.ins, v0 |-> d_read_data(fd.ins.rs),
                                v1 |-> d_read_data(fd.ins.rt), link |-> U(f_pc + 4)]
         /\ em' = [pc |-> de.pc, ins |-> de.ins, v1 |-> e_read_data(de.ins.rt, de.v1), alu |-> e_alu_result,
                   wd |-> IF WriteStage(de.ins) = EXECUTE THEN e_alu_result ELSE de.link]
         /\ mw' = [pc |-> em.pc, wa |-> WriteAddr(em.ins), wd |-> m_write_data]
         /\ \A r \in Reg : r # 0 => grf'[r] = GrfRead(r)
         /\ grf' \in [Reg -> Word] /\ grf'[0] = 0
         /\ ram' = PendingRam
<1>1. /\ \A r \in Reg : r # 0 => grf'[r] = GrfRead(r)
      /\ grf' \in [Reg -> Word] /\ grf'[0] = 0
  <2>1. grf' = IF mw.wa # 0 THEN [grf EXCEPT ![mw.wa] = mw.wd] ELSE grf
    BY DEF Next
  <2>2. grf \in [Reg -> Word] /\ grf[0] = 0 /\ mw.wa \in Reg /\ mw.wd \in Word /\ 0 \in Reg
    BY Zero DEF Data
  <2> QED BY <2>1, <2>2 DEF GrfRead
<1>2. ram' = PendingRam
  BY DEF Next, PendingRam
<1>3. /\ stall => fd' = fd /\ de'.ins = Bubble
      /\ ~stall => /\ fd'.pc = f_pc /\ fd'.ins = f_instr
                   /\ de' = [pc |-> fd.pc, ins |-> fd.ins, v0 |-> d_read_data(fd.ins.rs),
                             v1 |-> d_read_data(fd.ins.rt), link |-> U(f_pc + 4)]
  BY DEF Next, Stall, Advance, Killed, DecodeOut
<1> QED BY <1>1, <1>2, <1>3 DEF Next

\* The types are kept.
LEMMA DataStep ==
  ASSUME P5Assumption, Data, Next
  PROVE  Data'
<1>1. /\ m_write_data \in Word /\ m_read_data \in Word
      /\ \A r \in Reg : Pending(r) \in Word /\ d_read_data(r) \in Word
      /\ e_read_data(de.ins.rt, de.v1) \in Word /\ e_alu_result \in Word
      /\ PendingRam \in [0 .. RAM_WORDS - 1 -> Word]
  BY SignalsTyped
<1>2. text' = text /\ text \in Programs /\ text' \in Programs
  BY DEF Data, Next
<1>3. U(f_pc + 4) \in Word
  <2>1. f_pc + 4 \in Int
    BY WordsAssumption DEF Data, Word
  <2> QED BY <2>1, Wraps
<1>4. Usable(f_instr)
  BY <1>2, TextFacts, BubbleUsable DEF f_instr, should_halt
<1>5. d_read_data(fd.ins.rs) \in Word /\ d_read_data(fd.ins.rt) \in Word
  BY <1>1 DEF Data, Usable
<1>6. f_pc' \in Word
  <2>1. d_next_pc \in Word
    BY <1>5, NextPcTyped DEF d_next_pc, Data, Usable
  <2> QED BY <2>1 DEF Next, f_next_pc, Data
<1>7. fd' = [pc |-> fd'.pc, ins |-> fd'.ins] /\ fd'.pc \in Word /\ Usable(fd'.ins)
  <2>1. CASE Stall
    BY <2>1 DEF Stall, Data
  <2>2. CASE Advance
    BY <2>2, <1>4 DEF Advance, Data
  <2> QED BY <2>1, <2>2 DEF Next
<1>8. /\ de' = [pc |-> de'.pc, ins |-> de'.ins, v0 |-> de'.v0, v1 |-> de'.v1, link |-> de'.link]
      /\ de'.pc \in Word /\ Usable(de'.ins) /\ de'.v0 \in Word /\ de'.v1 \in Word /\ de'.link \in Word
  <2>1. CASE Stall
    BY <2>1, <1>3, <1>5, BubbleUsable DEF Stall, Killed, DecodeOut, Data
  <2>2. CASE Advance
    BY <2>2, <1>3, <1>5 DEF Advance, DecodeOut, Data
  <2> QED BY <2>1, <2>2 DEF Next
<1>9. /\ em' = [pc |-> em'.pc, ins |-> em'.ins, v1 |-> em'.v1, wd |-> em'.wd, alu |-> em'.alu]
      /\ Usable(em'.ins) /\ em'.v1 \in Word /\ em'.wd \in Word /\ em'.alu \in Word
  BY <1>1, StageFacts DEF Data
<1>10. mw' = [pc |-> mw'.pc, wa |-> mw'.wa, wd |-> mw'.wd] /\ mw'.wa \in Reg /\ mw'.wd \in Word
  BY <1>1, StageFacts DEF Data, Usable
<1>11. grf' \in [Reg -> Word] /\ grf'[0] = 0 /\ ram' \in [0 .. RAM_WORDS - 1 -> Word]
  BY <1>1, StageFacts
<1> QED BY <1>2, <1>6, <1>7, <1>8, <1>9, <1>10, <1>11 DEF Data

\* The registers as they will be: a clock adds the result of the instruction that leaves E.
LEMMA PendingStep ==
  ASSUME P5Assumption, Data, Next, NEW r \in Reg
  PROVE  Pending(r)' = IF r # 0 /\ r = WriteAddr(de.ins) THEN m_write_data' ELSE Pending(r)
<1>1. /\ mw'.wa = WriteAddr(em.ins) /\ mw'.wd = m_write_data
      /\ r # 0 => grf'[r] = GrfRead(r)
      /\ grf'[0] = 0 /\ em'.ins = de.ins
  BY StageFacts
<1>2. Pending(r)' = IF r = 0 THEN grf'[0]
                    ELSE IF r = WriteAddr(em'.ins) THEN m_write_data'
                    ELSE IF r = mw'.wa THEN mw'.wd ELSE grf'[r]
  BY DEF Pending
<1> QED BY <1>1, <1>2 DEF Pending, GrfRead, Data

\* A branch that does not wait in D reads what its registers will hold once the instructions
\* in front of it have finished, although the choice looks at register numbers alone.
LEMMA DecodeReads ==
  ASSUME P5Assumption, Data, Next, ~stall, NEW r \in Reg,
         \/ r = fd.ins.rs /\ ReadStage0(fd.ins) = DECODE
         \/ r = fd.ins.rt /\ ReadStage1(fd.ins) = DECODE
  PROVE  d_read_data(r) = Pending(r)'
<1>1. \A stage \in Nat : r # 0 /\ stage > 0 => Needs(r, stage)
  BY DEF Needs, DECODE
<1>2. r # 0 /\ r = WriteAddr(de.ins) => WriteStage(de.ins) = DECODE
  <2>1. WriteStage(de.ins) \in {DECODE, EXECUTE, MEM}
    BY WriterFacts
  <2> QED BY <1>1, <2>1 DEF stall, stall_de, DECODE, EXECUTE, MEM
<1>3. r # 0 /\ r = WriteAddr(em.ins) => WriteStage(em.ins) = EXECUTE
  <2>1. WriteStage(em.ins) \in {DECODE, EXECUTE, MEM}
    BY WriterFacts
  <2>2. WORDS - 1 \in Nat /\ WORDS - 1 > 0
    BY WordsDivisible
  <2>3. ~stall_em
    BY DEF stall
  <2> QED BY <1>1, <2>1, <2>2, <2>3 DEF stall_em, DECODE, EXECUTE, MEM
<1>4. em'.ins = de.ins /\ em'.wd = IF WriteStage(de.ins) = EXECUTE THEN e_alu_result ELSE de.link
  BY StageFacts
<1>5. Pending(r)' = IF r # 0 /\ r = WriteAddr(de.ins) THEN m_write_data' ELSE Pending(r)
  BY PendingStep
<1>6. CASE r = 0
  BY <1>5, <1>6, SignalsTyped DEF d_read_data
<1>7. CASE r # 0 /\ r = WriteAddr(de.ins)
  <2>1. m_write_data' = de.link
    BY <1>2, <1>4, <1>7 DEF m_write_data, DECODE, EXECUTE, MEM
  <2> QED BY <1>5, <1>7, <2>1 DEF d_read_data
<1>8. CASE r # 0 /\ r # WriteAddr(de.ins)
  <2>1. Pending(r)' = Pending(r)
    BY <1>5, <1>8
  <2>2. CASE r = WriteAddr(em.ins)
    BY <1>3, <1>8, <2>1, <2>2 DEF d_read_data, Pending, m_write_data, EXECUTE, MEM
  <2>3. CASE r # WriteAddr(em.ins)
    BY <1>8, <2>1, <2>3 DEF d_read_data, Pending, GrfRead
  <2> QED BY <2>2, <2>3
<1> QED BY <1>6, <1>7, <1>8

\* An instruction in E computes with the registers as they will be.
LEMMA ExecuteReads ==
  ASSUME P5Assumption, Data, Latched, OperandsReady
  PROVE  /\ ReadStage0(de.ins) <= EXECUTE => e_read_data(de.ins.rs, de.v0) = Pending(de.ins.rs)
         /\ ReadStage1(de.ins) <= EXECUTE => e_read_data(de.ins.rt, de.v1) = Pending(de.ins.rt)
         /\ de.ins.rt # WriteAddr(em.ins) => e_read_data(de.ins.rt, de.v1) = Pending(de.ins.rt)
<1>1. ASSUME NEW r \in Reg, NEW v, Kept(r, v), Ready(r)
      PROVE  e_read_data(r, v) = Pending(r)
  <2>1. CASE r = 0
    BY <2>1, SignalsTyped DEF e_read_data
  <2>2. CASE r # 0 /\ r = WriteAddr(em.ins)
    <3>1. WriteStage(em.ins) # MEM
      BY <1>1, <2>2 DEF Ready, MEM, EXECUTE
    <3> QED BY <2>2, <3>1 DEF e_read_data, Pending, m_write_data
  <2>3. CASE r # 0 /\ r # WriteAddr(em.ins)
    BY <1>1, <2>3 DEF e_read_data, Pending, Kept
  <2> QED BY <2>1, <2>2, <2>3
<1>2. de.ins.rs \in Reg /\ de.ins.rt \in Reg
  BY DEF Data, Usable
<1>3. de.ins.rt # WriteAddr(em.ins) => Ready(de.ins.rt)
  BY DEF Ready
<1> QED BY <1>1, <1>2, <1>3 DEF Latched, OperandsReady

-----------------------------------------------------------------------------
(* The invariant holds. *)

\* A word is fetched only if it and the word behind it are in memory.
LEMMA FetchesText ==
  ASSUME P5Assumption, Data, Halting, ~should_halt
  PROVE  InText(f_pc) /\ Known5(f_pc) /\ InText(f_next_pc) /\ f_instr = text[Align(f_pc)]
<1>1. ~halted /\ InText(f_next_pc) /\ Known5(f_pc)
  BY DEF should_halt, InText, Known5
<1>2. TEXT_MIN \in Int /\ TEXT_MAX \in Int
  BY WordsAssumption DEF P5Assumption, Word
<1>3. InText(TEXT_MIN)
  BY <1>1, <1>2 DEF InText
<1> QED BY <1>1, <1>3 DEF Halting, f_instr

\* A bubble does not wait.
LEMMA BubbleGoesOn == fd.ins = Bubble => ~stall
BY BubbleFacts DEF stall, stall_de, stall_em, Needs

\* What was fetched is the program's.
LEMMA FetchedStep ==
  ASSUME P5Assumption, Data, Fetched, Halting, Next
  PROVE  Fetched'
<1>1. CASE stall
  BY <1>1, StageFacts, BubbleFacts DEF Fetched, Holds, Real, Known5
<1>2. CASE ~stall
  <2>1. Holds(fd)'
    <3>1. CASE should_halt
      BY <1>2, <3>1, StageFacts, BubbleFacts DEF Holds, Real, f_instr
    <3>2. CASE ~should_halt
      BY <1>2, <3>2, StageFacts, FetchesText, TextFacts, OpFacts DEF Holds, Real, Known5, Data
    <3> QED BY <3>1, <3>2
  <2>2. Holds(de)'
    BY <1>2, StageFacts DEF Fetched, Holds, Real, Known5
  <2> QED BY <2>1, <2>2 DEF Fetched
<1> QED BY <1>1, <1>2

\* A program that has been left is not entered again.
LEMMA HaltingStep ==
  ASSUME P5Assumption, Data, Halting, Next
  PROVE  Halting'
<1>1. text' = text /\ (halted' <=> should_halt) /\ f_pc' = f_next_pc
  BY StageFacts
<1>2. halted' \/ f_pc' = TEXT_MIN \/ InText(f_pc')
  BY <1>1, FetchesText
<1>3. CASE stall
  <2>1. f_pc' = f_pc /\ fd' = fd /\ ~Real(de)'
    BY <1>1, <1>3, StageFacts, BubbleFacts DEF f_next_pc, Real
  <2>2. Real(fd) => InText(f_pc') /\ (halted' => ~Known5(f_pc'))
    BY <1>1, <1>3, <2>1 DEF Halting, should_halt, f_next_pc, InText, Known5
  <2> QED BY <1>1, <1>2, <2>1, <2>2 DEF Halting, Real, Known5
<1>4. CASE ~stall
  <2>1. Real(fd)' <=> ~should_halt
    <3>1. CASE should_halt
      BY <1>4, <3>1, StageFacts, BubbleFacts DEF Real, f_instr
    <3>2. CASE ~should_halt
      BY <1>4, <3>2, StageFacts, FetchesText, TextFacts, OpFacts DEF Real, Known5, Data
    <3> QED BY <3>1, <3>2
  <2>2. Real(de)' <=> Real(fd)
    BY <1>4, StageFacts DEF Real
  <2>3. fd'.pc = f_pc
    BY <1>4, StageFacts
  <2>4. Real(fd)' => InText(f_pc') /\ ~halted'
    BY <1>1, <2>1, FetchesText
  <2>5. Real(de)' /\ ~Real(fd)' => halted' /\ ~(InText(f_pc) /\ Known5(f_pc) /\ InText(f_pc'))
    BY <1>1, <2>1, <2>2 DEF Halting, should_halt, InText, Known5
  <2> QED BY <1>1, <1>2, <2>3, <2>4, <2>5 DEF Halting, Known5
<1> QED BY <1>3, <1>4

\* Behind a branch its delay slot is fetched: no branch is in the slot of another.
LEMMA SlotBehindStep ==
  ASSUME P5Assumption, Data, Fetched, Halting, SlotBehind, Next
  PROVE  SlotBehind'
<1>1. CASE stall
  BY <1>1, StageFacts DEF SlotBehind, Real, f_next_pc
<1>2. CASE ~stall
  <2> SUFFICES ASSUME Real(fd)', fd'.ins.op \in Branch PROVE f_pc' = U(fd'.pc + 4)
    BY DEF SlotBehind
  <2>1. fd'.pc = f_pc /\ fd'.ins = text[Align(f_pc)] /\ Known5(f_pc) /\ f_pc' = d_next_pc
    BY <1>2, StageFacts, FetchesText, BubbleFacts DEF f_instr, Real, f_next_pc
  <2>2. fd.ins.op \notin Branch
    <3> SUFFICES ASSUME fd.ins.op \in Branch PROVE FALSE
      OBVIOUS
    <3>1. Real(fd)
      BY BubbleFacts DEF Real, Fetched, Holds
    <3>2. fd.ins = text[Align(fd.pc)] /\ Known5(fd.pc) /\ f_pc = U(fd.pc + 4)
      BY <3>1 DEF Fetched, Holds, SlotBehind
    <3>3. Align(f_pc) = U(Align(fd.pc) + 4)
      BY <3>2, AlignNext DEF Data
    <3> QED BY <2>1, <3>2, <3>3 DEF P5Assumption, Data, Known5
  <2>3. fd.ins.op # "eret"
    <3>1. CASE Real(fd)
      BY <3>1, TextFacts, OpFacts DEF Fetched, Holds, Known5, Data
    <3>2. CASE ~Real(fd)
      BY <3>2 DEF Real
    <3> QED BY <3>1, <3>2
  <2>4. d_next_pc = U(f_pc + 4)
    BY <2>2, <2>3 DEF d_next_pc, NextPc, ShouldBranch, Branch, BranchRT, BranchZ, JumpReg
  <2> QED BY <2>1, <2>4
<1> QED BY <1>1, <1>2

\* What follows a branch and its slot is its target.
LEMMA TargetBehindStep ==
  ASSUME P5Assumption, Data, Fetched, SlotBehind, Next
  PROVE  TargetBehind'
<1> SUFFICES ASSUME Real(de)' PROVE f_pc' = After'
  BY DEF TargetBehind
<1> DEFINE i == fd.ins
           m == Mach'
           x == d_read_data(i.rs)
           y == d_read_data(i.rt)
<1>1. ~stall
  BY StageFacts, BubbleFacts DEF Real
<1>2. f_pc' = NextPc(i, f_pc, x, y, 0) /\ fd'.pc = f_pc /\ de'.ins = i /\ de'.pc = fd.pc
  BY <1>1, StageFacts DEF f_next_pc, d_next_pc
<1>3. Real(fd) /\ i = text[Align(fd.pc)] /\ InText(fd.pc) /\ Known5(fd.pc)
  BY <1>2 DEF Real, Fetched, Holds
<1>4. /\ i.op \in Known \ {"mfc0", "mtc0", "eret"} /\ i.imm \in Word /\ i.rs \in Reg /\ i.rt \in Reg
      /\ f_pc \in Word /\ fd.pc \in Word
  BY <1>3, TextFacts, OpFacts DEF Data, Usable, Known5
<1>5. m.pc = fd.pc /\ \A r \in Reg : m.grf[r] = Pending(r)'
  BY <1>2 DEF Mach
<1> PICK rs \in Reg, rt \in Reg : rs = i.rs /\ rt = i.rt
  BY <1>4
<1>6. Em!Rs(i, m) = Pending(rs)' /\ Em!Rt(i, m) = Pending(rt)'
  <2> HIDE DEF i, m
  <2> QED BY <1>5 DEF Em!Rs, Em!Rt
<1>7. i.op \in BranchRT \cup BranchZ \cup JumpReg => x = Em!Rs(i, m)
  <2>1. i.op \in BranchRT \cup BranchZ \cup JumpReg => ReadStage0(i) = DECODE
    BY DEF ReadStage0
  <2> QED BY <1>1, <1>4, <1>6, <2>1, DecodeReads
<1>8. i.op \in BranchRT => y = Em!Rt(i, m)
  <2>1. i.op \in BranchRT => ReadStage1(i) = DECODE
    BY DEF ReadStage1
  <2> QED BY <1>1, <1>4, <1>6, <2>1, DecodeReads
<1>9. i.op \in Branch => f_pc = U(m.pc + 4)
  BY <1>3, <1>5 DEF SlotBehind
<1>10. i.op \in {"j", "jal"} => 4 * i.imm < 2^(BITS - REGION_BITS) /\ m.pc + 4 < 2^(BITS - REGION_BITS)
  <2> DEFINE R == 2^(BITS - REGION_BITS)
  <2>1. R \in Nat
    <3>1. BITS - REGION_BITS \in 0 .. BITS
      BY WordsAssumption, DecodeAssumption
    <3> QED BY <3>1, PowerPositive
  <2>2. TEXT_MAX + 4 <= R /\ (i.op \in {"j", "jal"} => 4 * i.imm < R)
    BY <1>3 DEF P5Assumption, Data, Known5
  <2> HIDE DEF R, m
  <2>3. TEXT_MAX \in Nat /\ TEXT_MIN \in Nat /\ fd.pc \in TEXT_MIN .. TEXT_MAX - 1 /\ m.pc = fd.pc
    BY <1>3, <1>5, WordsAssumption DEF P5Assumption, InText, Word
  <2>4. m.pc + 4 < R
    BY <2>1, <2>2, <2>3
  <2> QED BY <2>2, <2>4 DEF R
<1>11. After' = IF Em!BranchResult(i, m) = <<>> THEN U(f_pc + 4) ELSE Em!BranchResult(i, m)[1]
  BY <1>2 DEF After
<1> HIDE DEF i, m, x, y
<1>12. m.pc \in Word
  BY <1>4, <1>5
<1>13. NextPc(i, f_pc, x, y, 0) =
         IF Em!BranchResult(i, m) = <<>> THEN U(f_pc + 4) ELSE Em!BranchResult(i, m)[1]
  BY ONLY <1>4, <1>7, <1>8, <1>9, <1>10, <1>12, BranchTarget
<1> QED BY <1>2, <1>11, <1>13

\* The link is the address behind the slot.
LEMMA LinkedStep ==
  ASSUME P5Assumption, Data, Fetched, SlotBehind, Next
  PROVE  Linked'
<1>1. CASE stall
  BY <1>1, StageFacts, BubbleFacts DEF Linked
<1>2. CASE ~stall
  <2> SUFFICES ASSUME fd.ins.op = "jal" PROVE U(f_pc + 4) = U(fd.pc + 8)
    BY <1>2, StageFacts DEF Linked
  <2>1. fd.ins.op \in Branch /\ Real(fd)
    BY DEF Branch, JumpReg, Real
  <2>2. f_pc = U(fd.pc + 4) /\ fd.pc \in Int
    BY <2>1, WordsAssumption DEF SlotBehind, Data, Word
  <2> QED BY <2>2, WrapTwice
<1> QED BY <1>1, <1>2

\* D reads the registers.
LEMMA LatchedStep ==
  ASSUME P5Assumption, Data, Next
  PROVE  Latched'
<1>1. CASE stall
  BY <1>1, StageFacts, BubbleFacts DEF Latched, Kept
<1>2. CASE ~stall
  <2>1. ASSUME NEW r \in Reg, r # 0, r # WriteAddr(em'.ins), r # mw'.wa PROVE d_read_data(r) = grf'[r]
    BY <2>1, StageFacts DEF d_read_data
  <2>2. de'.ins = fd.ins /\ de'.v0 = d_read_data(fd.ins.rs) /\ de'.v1 = d_read_data(fd.ins.rt)
    BY <1>2, StageFacts
  <2>3. fd.ins.rs \in Reg /\ fd.ins.rt \in Reg
    BY DEF Data, Usable
  <2> QED BY <2>1, <2>2, <2>3 DEF Latched, Kept
<1> QED BY <1>1, <1>2

\* An instruction waits in D until what it reads in E can be forwarded.
LEMMA OperandsReadyStep ==
  ASSUME P5Assumption, Data, Next
  PROVE  OperandsReady'
<1>1. CASE stall
  BY <1>1, StageFacts, BubbleFacts DEF OperandsReady, Ready
<1>2. CASE ~stall
  <2>1. de'.ins = fd.ins /\ ~stall_de /\ em'.ins = de.ins
    BY <1>2, StageFacts DEF stall
  <2>2. WriteStage(de.ins) \in Int /\ ReadStage0(fd.ins) \in Int /\ ReadStage1(fd.ins) \in Int /\ EXECUTE \in Int
    BY DEF WriteStage, ReadStage0, ReadStage1, DECODE, EXECUTE, MEM, NEVER
  <2>3. ASSUME NEW r, r # 0, r = WriteAddr(de.ins),
               \/ r = fd.ins.rs /\ ReadStage0(fd.ins) <= EXECUTE
               \/ r = fd.ins.rt /\ ReadStage1(fd.ins) <= EXECUTE
        PROVE  WriteStage(de.ins) <= EXECUTE
    BY <2>1, <2>2, <2>3 DEF stall_de, Needs
  <2> QED BY <2>1, <2>3 DEF OperandsReady, Ready
<1> QED BY <1>1, <1>2

\* The pipeline after reset.
LEMMA IsaInvInit ==
  ASSUME P5Assumption, Init
  PROVE  IsaInv
<1> USE DEF Init
<1>1. Data
  <2>1. TEXT_MIN \in Word
    BY DEF P5Assumption
  <2>2. grf \in [Reg -> Word] /\ grf[0] = 0 /\ ram \in [0 .. RAM_WORDS - 1 -> Word]
    BY Zero DEF Reg
  <2> QED BY <2>1, <2>2, Zero, BubbleFacts, BubbleUsable DEF Data
<1>2. ~Real(fd) /\ ~Real(de)
  BY BubbleFacts DEF Real
<1>3. Latched /\ OperandsReady
  BY BubbleFacts DEF Latched, Kept, OperandsReady, Ready
<1>4. Linked
  BY BubbleFacts DEF Linked
<1> QED BY <1>1, <1>2, <1>3, <1>4 DEF IsaInv, Pipeline, Fetched, Holds, Halting, SlotBehind, TargetBehind

\* A clock keeps the invariant.
LEMMA IsaInvStep ==
  ASSUME P5Assumption, IsaInv, [Next]_vars
  PROVE  IsaInv'
<1>1. CASE Next
  BY <1>1, DataStep, FetchedStep, HaltingStep, SlotBehindStep, TargetBehindStep, LinkedStep, LatchedStep,
     OperandsReadyStep DEF IsaInv, Pipeline
<1>2. CASE UNCHANGED vars
  <2>1. /\ Data' <=> Data
        /\ (Fetched <=> Fetched') /\ (Linked <=> Linked')
        /\ (SlotBehind <=> SlotBehind') /\ (Halting <=> Halting')
    BY <1>2 DEF vars, Data, Fetched, Holds, Real, Known5, Linked, SlotBehind, Halting
  <2>2. (Latched <=> Latched') /\ (OperandsReady <=> OperandsReady')
    BY <1>2 DEF vars, Latched, Kept, OperandsReady, Ready
  <2>3. TargetBehind <=> TargetBehind'
    <3>1. \A r : Pending(r)' = Pending(r)
      BY <1>2 DEF vars, Pending, m_write_data, RamIndex
    <3>2. PendingRam' = PendingRam
      BY <1>2 DEF vars, PendingRam, m_read_data, RamIndex
    <3>3. Mach' = Mach
      BY <1>2, <3>1, <3>2 DEF Mach, vars
    <3>4. After' = After
      BY <1>2, <3>3 DEF After, vars
    <3> QED BY <1>2, <3>4 DEF TargetBehind, vars, Real
  <2> QED BY <2>1, <2>2, <2>3 DEF IsaInv, Pipeline
<1> QED BY <1>1, <1>2

-----------------------------------------------------------------------------
(* Every clock is a step of the sequential machine. *)

\* The sequential machine has the semantics of the emulator.
LEMMA Semantics ==
  \A i, m : /\ A!E!Effect(i, m) = Em!Effect(i, m)
            /\ A!E!Exception(i, m) = Em!Exception(i, m)
            /\ A!E!BranchResult(i, m) = Em!BranchResult(i, m)
            /\ A!E!Addr(i, m) = Em!Addr(i, m)
<1> USE DEF A!WORDS, WORDS, A!E!Arith3, Em!Arith3, A!E!AddSub, Em!AddSub, A!E!Logic, Em!Logic, A!E!Compare, Em!Compare,
     A!E!Shift, Em!Shift, A!E!ShiftV, Em!ShiftV, A!E!AddImm, Em!AddImm, A!E!LogicImm, Em!LogicImm, A!E!CmpImm,
     Em!CmpImm, A!E!ArithImm, Em!ArithImm, A!E!Load, Em!Load, A!E!Store, Em!Store, A!E!MulDiv, Em!MulDiv,
     A!E!Branch, Em!Branch, A!E!BranchRT, Em!BranchRT, A!E!BranchZ, Em!BranchZ, A!E!JumpReg, Em!JumpReg,
     A!E!WORDS, Em!WORDS, A!E!BYTE, Em!BYTE, A!E!HALF, Em!HALF, A!E!U, Em!U, A!E!S, Em!S, A!E!Bit, Em!Bit,
     A!E!And, Em!And, A!E!Or, Em!Or, A!E!Xor, Em!Xor, A!E!Sll, Em!Sll, A!E!Srl, Em!Srl, A!E!Sra, Em!Sra,
     A!E!Flag, Em!Flag, A!E!ExtHalf, Em!ExtHalf, A!E!ExtByte, Em!ExtByte, A!E!Lane, Em!Lane, A!E!Quot, Em!Quot,
     A!E!Rem, Em!Rem, A!E!AbsVal, Em!AbsVal, A!E!SetGrf, Em!SetGrf, A!E!Rs, Em!Rs, A!E!Rt, Em!Rt, A!E!Simm,
     Em!Simm, A!E!Addr, Em!Addr, A!E!Granule, Em!Granule, A!E!BadAddr, Em!BadAddr, A!E!Fits, Em!Fits,
     A!E!Exception, Em!Exception, A!E!Operand, Em!Operand, A!E!SumValue, Em!SumValue, A!E!CompareValue,
     Em!CompareValue, A!E!LogicValue, Em!LogicValue, A!E!ShiftValue, Em!ShiftValue, A!E!Value, Em!Value,
     A!E!Bytes, Em!Bytes, A!E!FromBytes, Em!FromBytes, A!E!LoadValue, Em!LoadValue, A!E!StoreValue,
     Em!StoreValue, A!E!Product, Em!Product, A!E!MulDivEffect, Em!MulDivEffect, A!E!HiLoEffect, Em!HiLoEffect,
     A!E!Effect, Em!Effect, A!E!Taken, Em!Taken, A!E!Region, Em!Region, A!E!Target, Em!Target, A!E!BranchResult,
     Em!BranchResult
<1> SUFFICES ASSUME NEW i, NEW m
             PROVE  /\ A!E!Effect(i, m) = Em!Effect(i, m)
                    /\ A!E!Exception(i, m) = Em!Exception(i, m)
                    /\ A!E!BranchResult(i, m) = Em!BranchResult(i, m)
                    /\ A!E!Addr(i, m) = Em!Addr(i, m)
  OBVIOUS
<1>1. A!E!Effect(i, m) = Em!Effect(i, m)
  BY Zenon
<1>2. A!E!Exception(i, m) = Em!Exception(i, m)
  BY Zenon
<1>3. A!E!BranchResult(i, m) = Em!BranchResult(i, m)
  BY Zenon
<1>4. A!E!Addr(i, m) = Em!Addr(i, m)
  BY Zenon
<1> QED BY ONLY <1>1, <1>2, <1>3, <1>4


\* What the stages know of an instruction that leaves E, in the terms of the emulator.
LEMMA Leaving ==
  ASSUME P5Assumption, Data, Pipeline, Aligned, Real(de)
  PROVE  /\ Em!Rs(de.ins, Mach) = Pending(de.ins.rs) /\ Em!Rt(de.ins, Mach) = Pending(de.ins.rt)
         /\ de.ins.op \in Implemented \/ de.ins = Nop
         /\ Em!Addr(de.ins, Mach) \in Word
         /\ de.ins.op \in Implemented \ Branch => e_alu_result = AluOut(de.ins, Mach)
         /\ Em!Exception(de.ins, Mach) = 0
<1> DEFINE i == de.ins
           u == Unit(Mach)
           P0 == Pending(i.rs)
           P1 == Pending(i.rt)
           v0 == e_read_data(i.rs, de.v0)
           v1 == e_read_data(i.rt, de.v1)
           x == AluOut(i, Mach)
<1>1. i.op \in Implemented \/ i = Nop
  BY TextFacts DEF Pipeline, Fetched, Holds, Known5, Data
<1>2. Em!Rs(i, Mach) = P0 /\ Em!Rt(i, Mach) = P1 /\ x = AluResult(i, In0(i, P0), In1(i, P1), u)
  <2>1. i.rs \in Reg /\ i.rt \in Reg
    BY DEF Data, Usable
  <2> QED BY <2>1 DEF Em!Rs, Em!Rt, Mach, AluOut
<1>3. P0 \in Word /\ P1 \in Word /\ v0 \in Word /\ v1 \in Word /\ i.imm \in Word
  BY SignalsTyped DEF Data, Usable
<1>4. Em!Addr(i, Mach) \in Word
  <2>1. P0 + ExtHalf(i.imm) \in Int
    <3>1. i.imm \in Int /\ P0 \in Int
      BY <1>3, WordsAssumption DEF Word
    <3>2. ExtHalf(i.imm) \in Int
      BY <3>1, ExtTyped, WordsAssumption DEF Word
    <3> QED BY <3>1, <3>2
  <2>2. Em!Addr(i, Mach) = U(P0 + ExtHalf(i.imm))
    BY <1>2, EmulatorImm DEF Em!Addr, Em!U, U, Em!WORDS, WORDS
  <2> QED BY <2>1, <2>2, Wraps
<1>5. ASSUME i.op \in Implemented \ Branch
      PROVE  e_alu_result = x
  <2>1. e_alu_result = alu_result(i, v0, In1(i, v1))
    BY DEF e_alu_result
  <2>2. In1(i, v1) = In1(i, P1)
    <3>1. CASE i.op \in {"andi", "ori", "lw", "sw", "lui"}
      BY <3>1 DEF In1, ArithImm, LogicImm, Load, Store
    <3>2. CASE i.op \in {"addu", "subu"}
      <4>1. ReadStage1(i) <= EXECUTE
        BY <3>2 DEF ReadStage1, DECODE, EXECUTE, Arith3, AddSub
      <4> QED BY <4>1, ExecuteReads DEF Pipeline
    <3> QED BY <1>5, <3>1, <3>2 DEF Implemented, Branch, BranchRT, JumpReg
  <2>3. CASE i.op = "lui"
    <3>1. In1(i, P1) \in Word
      BY <1>3, <2>3 DEF In1, ExtImm, AddImm, CmpImm, Load, Store
    <3>2. x = Sll(In1(i, P1), BITS \div 2)
      BY <1>2, <2>3 DEF AluResult, In0
    <3>3. e_alu_result = U(In1(i, P1) * HALF)
      BY <2>1, <2>2, <2>3 DEF alu_result
    <3> QED BY <3>1, <3>2, <3>3, LuiShift DEF HALF
  <2>4. CASE i.op \in {"addu", "subu", "andi", "ori", "lw", "sw"}
    <3>1. v0 = P0
      <4>1. ReadStage0(i) <= EXECUTE
        BY <2>4 DEF ReadStage0, DECODE, EXECUTE, Arith3, AddSub, ArithImm, LogicImm, Load, Store
      <4> QED BY <4>1, ExecuteReads DEF Pipeline
    <3>2. In0(i, P0) = P0
      BY <2>4 DEF In0, Shift
    <3>3. \A a, b : alu_result(i, a, b) = AluResult(i, a, b, u)
      BY <2>4 DEF alu_result, AluResult
    <3> QED BY <1>2, <2>1, <2>2, <3>1, <3>2, <3>3
  <2> QED BY <1>5, <2>3, <2>4 DEF Implemented, Branch, BranchRT, JumpReg
<1>6. Em!Exception(i, Mach) = 0
  <2>1. i.op \in Known /\ ~CheckOverflow(i) /\ (i.op \in Load \cup Store <=> i.op \in {"lw", "sw"})
    BY <1>1, OpFacts
  <2>2. CASE i.op \in {"lw", "sw"}
    <3>1. i.op \in Implemented \ Branch
      BY <2>2 DEF Implemented, Branch, BranchRT, BranchZ, JumpReg
    <3>2. e_alu_result = Em!Addr(i, Mach)
      BY <1>5, <2>1, <2>2, <3>1, AluAddress DEF AluOut
    <3>3. Em!Addr(i, Mach) % 4 = 0
      BY <2>2, <3>2 DEF Aligned
    <3>4. ~InvalidAddr(i, Em!Addr(i, Mach))
      BY <2>2, <3>3 DEF InvalidAddr, MemType
    <3> QED BY <1>4, <2>1, <2>2, <3>4, TrapsAgree
  <2>3. CASE i.op \notin {"lw", "sw"}
    BY <1>4, <2>1, <2>3, TrapsAgree
  <2> QED BY <2>2, <2>3
<1> QED BY <1>1, <1>2, <1>4, <1>5, <1>6

\* The result of an instruction that leaves E, as it will be written: Completes, with what the
\* stages behind E compute.
LEMMA Results ==
  ASSUME P5Assumption, Data, Pipeline, Aligned, Next, Real(de)
  PROVE  LET i == de.ins
             m == Em!Effect(i, Mach)
         IN  /\ [r \in Reg |-> Pending(r)'] = m.grf
             /\ m.lo = 0 /\ m.hi = 0
             /\ PendingRam' = IF i.op \notin Store THEN PendingRam
                              ELSE [PendingRam EXCEPT ![RamIndex(Em!Addr(i, Mach))] = m.mem[Em!Addr(i, Mach) \div 4]]
<1> DEFINE i == de.ins
<1> PICK rs \in Reg, rt \in Reg : rs = i.rs /\ rt = i.rt
  BY DEF Data, Usable
<1> DEFINE P0 == Pending(rs)
           P1 == Pending(rt)
           x == AluOut(i, Mach)
           h == UnitOut(i, Mach)
           v == ValueOut(i, Mach)
           a == Em!Addr(i, Mach)
           m == Em!Effect(i, Mach)
           g == Mach.grf
<1>1. /\ Em!Rs(i, Mach) = P0 /\ Em!Rt(i, Mach) = P1
      /\ i.op \in Implemented \/ i = Nop
      /\ a \in Word
      /\ i.op \in Implemented \ Branch => e_alu_result = x
      /\ Em!Exception(i, Mach) = 0
  BY Leaving
<1>2. /\ em'.ins = i /\ em'.alu = e_alu_result /\ em'.v1 = e_read_data(rt, de.v1)
      /\ em'.wd = IF WriteStage(i) = EXECUTE THEN e_alu_result ELSE de.link
      /\ mw'.wa = WriteAddr(em.ins) /\ mw'.wd = m_write_data
      /\ ram' = PendingRam
  BY StageFacts
<1>3. /\ i.op \in Known \ {"mfc0", "mtc0", "eret"}
      /\ (i.op \in Load <=> i.op = "lw") /\ (i.op \in Store <=> i.op = "sw")
      /\ i.op \notin MulDiv /\ i.op \notin MoveTo /\ ExtType(i) = "NONE" /\ i.op # "jalr"
  BY <1>1, OpFacts
<1>4. \A r \in Reg : Pending(r)' = IF r # 0 /\ r = WriteAddr(i) THEN m_write_data' ELSE Pending(r)
  BY PendingStep
<1>5. P0 \in Word /\ P1 \in Word /\ i.imm \in Word /\ WriteAddr(i) \in Reg /\ PendingRam \in [0 .. RAM_WORDS - 1 -> Word]
  BY SignalsTyped DEF Data, Usable
<1>6. i.op \in Load \cup Store => x = a /\ e_alu_result = a
  <2>1. i.op \in Load \cup Store => i.op \in Implemented \ Branch
    BY <1>3 DEF Implemented, Branch, BranchRT, BranchZ, JumpReg
  <2> QED BY <1>1, <2>1, AluAddress DEF AluOut
<1>7. /\ a \div 4 \in 0 .. WORDS \div 4 - 1
      /\ Mach.mem[a \div 4] = PendingRam[RamIndex(a)] /\ PendingRam[RamIndex(a)] \in Word
  <2>1. a \in 0 .. WORDS - 1 /\ WORDS = 4 * (WORDS \div 4) /\ WORDS \div 4 \in Nat
    BY <1>1, WordsDivisible DEF Word
  <2> HIDE DEF a
  <2>2. a \div 4 \in 0 .. WORDS \div 4 - 1
    BY <2>1
  <2>3. RamIndex(a) \in 0 .. RAM_WORDS - 1
    BY <2>1, RamIndexTyped
  <2> QED BY <1>5, <2>2, <2>3 DEF Mach, RamIndex
<1>8. m = [pc |-> Mach.pc, grf |-> IF WriteAddr(i) = 0 THEN g ELSE [g EXCEPT ![WriteAddr(i)] = v],
           lo |-> h.lo, hi |-> h.hi,
           mem |-> IF i.op \in Store
                   THEN [Mach.mem EXCEPT ![a \div 4] = WriteLane(i, a, Mach.mem[a \div 4], Em!Rt(i, Mach))] ELSE Mach.mem]
  <2>1. Mach = [pc |-> Mach.pc, grf |-> Mach.grf, lo |-> Mach.lo, hi |-> Mach.hi, mem |-> Mach.mem]
    BY DEF Mach
  <2>2. i.op \in Load \cup Store => Mach.mem[a \div 4] \in Word
    BY <1>7
  <2>3. Em!Rs(i, Mach) \in Word /\ Em!Rt(i, Mach) \in Word /\ Em!Exception(i, Mach) = 0
    BY <1>1, <1>5
  <2>4. i.op \in Known \ {"mfc0", "mtc0", "eret"} /\ i.imm \in Word
    BY <1>3, <1>5
  <2> QED BY ONLY <2>1, <2>2, <2>3, <2>4, Completes
<1>9. ASSUME WriteAddr(i) # 0 PROVE m_write_data' = v
  <2>1. i.op \in Implemented
    <3>1. WriteAddr(Nop) = 0
      BY DEF WriteAddr, Nop, Arith3, AddSub, Logic, Compare, Shift
    <3> QED BY <1>1, <1>9, <3>1
  <2>2. CASE WriteStage(i) = EXECUTE
    <3>1. i.op \notin Branch
      BY <2>1, <2>2 DEF WriteStage, EXECUTE, MEM, DECODE, Branch, BranchRT, BranchZ, JumpReg, Implemented,
                        Arith3, AddSub, Logic, Compare, Shift, ShiftV, ArithImm, AddImm, LogicImm, CmpImm, MoveFrom, Load
    <3>2. m_write_data' = x
      BY <1>1, <1>2, <2>1, <2>2, <3>1 DEF m_write_data, EXECUTE, MEM
    <3> QED BY <2>2, <3>2 DEF ValueOut
  <2>3. CASE WriteStage(i) = MEM
    <3>1. i.op \in Load /\ i.op = "lw"
      BY <1>3, <2>3 DEF WriteStage, EXECUTE, MEM, DECODE
    <3>2. m_write_data' = ram'[RamIndex(em'.alu)]
      BY <1>2, <2>3 DEF m_write_data, RamIndex
    <3>3. m_write_data' = Mach.mem[x \div 4]
      BY <1>2, <1>6, <1>7, <3>1, <3>2
    <3>4. WriteBack(ExtType(i), ReadLane(i, x, Mach.mem[x \div 4])) = Mach.mem[x \div 4]
      BY <1>3, <3>1 DEF WriteBack, ReadLane, MemType
    <3> QED BY <2>3, <3>3, <3>4 DEF EXECUTE, MEM, ValueOut
  <2>4. CASE WriteStage(i) = DECODE
    <3>1. m_write_data' = de.link
      BY <1>2, <2>4 DEF m_write_data, DECODE, EXECUTE, MEM
    <3>2. de.link = U(Mach.pc + 8)
      BY <1>3, <1>9, <2>4, WriterFacts DEF Pipeline, Linked, Mach
    <3> QED BY <2>4, <3>1, <3>2 DEF ValueOut, DECODE, EXECUTE, MEM
  <2> QED BY <2>2, <2>3, <2>4, WriterFacts
<1>10. [r \in Reg |-> Pending(r)'] = m.grf
  <2>1. \A r \in Reg : Pending(r)' = IF r # 0 /\ r = WriteAddr(i) THEN v ELSE Pending(r)
    BY <1>4, <1>9
  <2>2. g = [r \in Reg |-> Pending(r)]
    BY DEF Mach
  <2> HIDE DEF v, i, m, g
  <2>3. m.grf = IF WriteAddr(i) = 0 THEN g ELSE [g EXCEPT ![WriteAddr(i)] = v]
    BY <1>8
  <2> QED BY <2>1, <2>2, <2>3
<1>11. m.lo = 0 /\ m.hi = 0
  <2>1. h = Unit(Mach)
    BY <1>3 DEF UnitOut, MduStart, MulDiv, MoveTo
  <2>2. h.lo = 0 /\ h.hi = 0
    BY <2>1 DEF Unit, Mach
  <2>3. m.lo = h.lo /\ m.hi = h.hi
    <3> HIDE DEF m, h, g, a, v
    <3> QED BY <1>8
  <2> QED BY <2>2, <2>3
<1>12. CASE i.op \notin Store
  <2>1. PendingRam' = PendingRam
    BY <1>2, <1>3, <1>12 DEF PendingRam
  <2> QED BY <1>10, <1>11, <1>12, <2>1
<1>13. CASE i.op \in Store
  <2>1. m_read_data' = P1
    <3>1. m_read_data' = IF rt = 0 THEN 0 ELSE IF rt = mw'.wa THEN mw'.wd ELSE em'.v1
      BY <1>2 DEF m_read_data
    <3>2. CASE rt = 0
      BY <3>1, <3>2, SignalsTyped
    <3>3. CASE rt # 0 /\ rt = WriteAddr(em.ins)
      BY <1>2, <3>1, <3>3 DEF Pending
    <3>4. CASE rt # 0 /\ rt # WriteAddr(em.ins)
      BY <1>2, <3>1, <3>4, ExecuteReads DEF Pipeline
    <3> QED BY <3>2, <3>3, <3>4
  <2>2. PendingRam' = [PendingRam EXCEPT ![RamIndex(a)] = P1]
    <3>1. PendingRam' = [ram' EXCEPT ![RamIndex(em'.alu)] = m_read_data']
      BY <1>2, <1>3, <1>13 DEF PendingRam, RamIndex
    <3> QED BY <1>2, <1>6, <1>13, <2>1, <3>1
  <2>3. WriteLane(i, a, Mach.mem[a \div 4], P1) = P1
    BY <1>3, <1>13 DEF WriteLane, MemType
  <2>4. m.mem = [Mach.mem EXCEPT ![a \div 4] = P1]
    BY <1>1, <1>8, <1>13, <2>3
  <2>5. DOMAIN Mach.mem = 0 .. WORDS \div 4 - 1
    BY DEF Mach
  <2>6. m.mem[a \div 4] = P1
    BY <1>7, <2>4, <2>5
  <2> QED BY <1>10, <1>11, <1>13, <2>2, <2>6
<1> QED BY <1>12, <1>13

\* Where the pipeline is after a clock in which an instruction leaves E.
LEMMA ExecutePcs ==
  ASSUME P5Assumption, Data, Pipeline, Next, Real(de)
  PROVE  IF InText(fd.pc) /\ Known5(fd.pc) /\ InText(After) THEN OldestPc' = fd.pc /\ SecondPc' = After
         ELSE OldestPc' = STOP /\ SecondPc' = STOP
<1>1. halted' <=> should_halt
  BY StageFacts
<1>2. f_pc = After
  BY DEF Pipeline, TargetBehind
<1>3. CASE Real(fd)
  <2>1. InText(fd.pc) /\ Known5(fd.pc) /\ InText(After)
    BY <1>2, <1>3 DEF Pipeline, Fetched, Holds, Halting
  <2>2. CASE stall
    <3>1. ~Real(de)' /\ Real(fd)' /\ fd' = fd /\ f_pc' = f_pc
      BY <1>3, <2>2, StageFacts, BubbleFacts DEF Real, f_next_pc
    <3> QED BY <1>2, <2>1, <3>1 DEF OldestPc, SecondPc
  <2>3. CASE ~stall
    <3>1. Real(de)' /\ de'.pc = fd.pc /\ fd'.pc = f_pc
      BY <1>3, <2>3, StageFacts DEF Real
    <3> QED BY <1>2, <2>1, <3>1 DEF OldestPc, SecondPc
  <2> QED BY <2>2, <2>3
<1>4. CASE ~Real(fd)
  <2>1. halted /\ ~(InText(fd.pc) /\ Known5(fd.pc) /\ InText(After)) /\ should_halt
    BY <1>2, <1>4 DEF Pipeline, Halting, should_halt
  <2>2. ~Real(de)' /\ ~Real(fd)'
    BY <1>4, <2>1, StageFacts, BubbleFacts DEF Real, f_instr
  <2>3. should_halt'
    BY <1>1, <2>1 DEF should_halt
  <2> QED BY <2>1, <2>2, <2>3 DEF OldestPc, SecondPc
<1> QED BY <1>3, <1>4

\* An instruction that leaves E completes in the sequential machine.
LEMMA ExecuteStep ==
  ASSUME P5Assumption, IsaInv, Aligned, Next, Real(de)
  PROVE  A!Next
<1> DEFINE i == de.ins
           a == Em!Addr(i, Mach)
           m == Em!Effect(i, Mach)
<1> USE DEF IsaInv
<1>1. OldestPc = de.pc /\ SecondPc = fd.pc /\ de.pc # STOP
  <2>1. de.pc \in Nat
    BY WordsAssumption DEF Data, Word
  <2>2. de.pc # STOP
    BY <2>1 DEF STOP
  <2> QED BY <2>2 DEF OldestPc, SecondPc
<1>2. A!Instr = i
  BY <1>1 DEF A!Instr, A!Align, Align, Pipeline, Fetched, Holds
<1>3. A!M = Mach
  BY <1>1 DEF A!M, Mach, A!WORDS, WORDS, Reg
<1>4. /\ [r \in Reg |-> Pending(r)'] = m.grf
      /\ m.lo = 0 /\ m.hi = 0
      /\ PendingRam' = IF i.op \notin Store THEN PendingRam
                       ELSE [PendingRam EXCEPT ![RamIndex(a)] = m.mem[a \div 4]]
  BY Results
<1>5. /\ A!E!Effect(A!Instr, A!M) = m
      /\ A!E!Exception(A!Instr, A!M) = 0
      /\ A!E!BranchResult(A!Instr, A!M) = Em!BranchResult(i, Mach)
      /\ A!E!Addr(A!Instr, A!M) = a
  BY <1>2, <1>3, Semantics, Leaving
<1>6. A!Stored(m) = PendingRam'
  BY <1>2, <1>4, <1>5 DEF A!Stored, A!Store, Store, RamIndex
<1>7. IF A!Runs(fd.pc, After) THEN OldestPc' = fd.pc /\ SecondPc' = After
      ELSE OldestPc' = STOP /\ SecondPc' = STOP
  BY ExecutePcs DEF A!Runs, InText, Known5, A!InMemory, A!Align, Align
<1>8. text' = text
  BY StageFacts
<1>9. After = IF A!E!BranchResult(A!Instr, A!M) = <<>> THEN A!U(SecondPc + 4) ELSE A!E!BranchResult(A!Instr, A!M)[1]
  BY <1>1, <1>5 DEF After, A!U, U, A!WORDS, WORDS
<1> HIDE DEF m, a, i
<1>10. [r \in 0 .. NREG - 1 |-> Pending(r)]' = m.grf /\ [lo |-> 0, hi |-> 0]' = [lo |-> m.lo, hi |-> m.hi]
  BY <1>4 DEF Reg
<1>11. A!Execute
  BY <1>1, <1>5, <1>6, <1>7, <1>8, <1>9, <1>10 DEF A!Execute, A!STOP, STOP
<1> QED BY <1>1, <1>11 DEF A!Next, A!STOP, STOP

\* Where the pipeline is after a clock in which none does.
LEMMA StutterPcs ==
  ASSUME P5Assumption, Data, Pipeline, Next, ~Real(de)
  PROVE  OldestPc' = OldestPc /\ SecondPc' = SecondPc
<1>1. text' = text /\ (halted' <=> should_halt) /\ f_pc' = f_next_pc
  BY StageFacts
<1>2. CASE Real(fd)
  <2>1. CASE stall
    BY <1>2, <2>1, StageFacts, BubbleFacts DEF OldestPc, SecondPc, Real, f_next_pc
  <2>2. CASE ~stall
    BY <1>2, <2>2, StageFacts DEF OldestPc, SecondPc, Real
  <2> QED BY <2>1, <2>2
<1>3. CASE ~Real(fd)
  <2>1. fd.ins = Bubble /\ ~stall
    BY <1>3, BubbleGoesOn DEF Pipeline, Fetched, Holds
  <2>2. ~Real(de)' /\ fd'.pc = f_pc /\ fd'.ins = f_instr
    BY <1>3, <2>1, StageFacts DEF Real
  <2>3. CASE should_halt
    <3>1. ~Real(fd)' /\ should_halt'
      BY <1>1, <2>2, <2>3, BubbleFacts DEF Real, f_instr, should_halt
    <3> QED BY <1>3, <2>2, <2>3, <3>1 DEF OldestPc, SecondPc
  <2>4. CASE ~should_halt
    <3>1. Real(fd)'
      BY <2>2, <2>4, FetchesText, TextFacts, OpFacts DEF Real, Known5, Data, Pipeline
    <3>2. f_pc' = U(f_pc + 4)
      <4>1. Bubble.op \notin Branch \cup {"eret"}
        BY BubbleFacts
      <4>2. d_next_pc = U(f_pc + 4)
        BY <2>1, <4>1 DEF d_next_pc, NextPc, ShouldBranch, Branch, BranchRT, BranchZ, JumpReg
      <4> QED BY <1>1, <2>1, <4>2 DEF f_next_pc
    <3> QED BY <1>3, <2>2, <2>4, <3>1, <3>2 DEF OldestPc, SecondPc
  <2> QED BY <2>3, <2>4
<1> QED BY <1>2, <1>3

\* A clock in which no instruction leaves E is none of the sequential machine's.
LEMMA StutterStep ==
  ASSUME P5Assumption, IsaInv, Next, ~Real(de)
  PROVE  UNCHANGED A!vars
<1> USE DEF IsaInv
<1>1. OldestPc' = OldestPc /\ SecondPc' = SecondPc /\ text' = text
  BY StutterPcs, StageFacts
<1>2. de.ins = Bubble /\ em'.ins = Bubble
  BY StageFacts DEF Pipeline, Fetched, Holds
<1>3. \A r \in Reg : Pending(r)' = Pending(r)
  BY <1>2, PendingStep, BubbleFacts
<1>4. [r \in 0 .. NREG - 1 |-> Pending(r)]' = [r \in 0 .. NREG - 1 |-> Pending(r)]
  BY <1>3 DEF Reg
<1>5. PendingRam' = PendingRam
  BY <1>2, StageFacts, BubbleFacts DEF PendingRam
<1> QED BY <1>1, <1>4, <1>5 DEF A!vars

\* A clock is a step of the sequential machine or none.
LEMMA IsaStep ==
  ASSUME P5Assumption, IsaInv, Aligned, [Next]_vars
  PROVE  Step
<1>1. CASE Next /\ Real(de)
  BY <1>1, ExecuteStep DEF Step
<1>2. CASE Next /\ ~Real(de)
  BY <1>2, StutterStep DEF Step
<1>3. CASE UNCHANGED vars
  <2>1. text' = text /\ OldestPc' = OldestPc /\ SecondPc' = SecondPc
    BY <1>3 DEF vars, OldestPc, SecondPc, Real, should_halt, f_next_pc, stall, stall_de, stall_em, Needs, d_next_pc,
                d_read_data, GrfRead
  <2>2. \A r : Pending(r)' = Pending(r)
    BY <1>3 DEF vars, Pending, m_write_data, RamIndex
  <2>3. PendingRam' = PendingRam
    BY <1>3 DEF vars, PendingRam, m_read_data, RamIndex
  <2>4. [r \in 0 .. NREG - 1 |-> Pending(r)]' = [r \in 0 .. NREG - 1 |-> Pending(r)]
    BY <2>2
  <2> QED BY <2>1, <2>3, <2>4 DEF Step, A!vars
<1> QED BY <1>1, <1>2, <1>3

\* Reset leaves the machine in front of the first instruction.
LEMMA IsaStarts ==
  ASSUME P5Assumption, Init
  PROVE  Starts
<1> USE DEF Init
<1>1. ~Real(de) /\ ~Real(fd) /\ f_next_pc = U(TEXT_MIN + 4)
  <2>1. Bubble.op \notin Branch \cup {"eret"}
    BY BubbleFacts
  <2>2. d_next_pc = U(TEXT_MIN + 4)
    BY <2>1 DEF d_next_pc, NextPc, ShouldBranch, Branch, BranchRT, BranchZ, JumpReg
  <2> QED BY <2>2, BubbleGoesOn, BubbleFacts DEF Real, f_next_pc
<1>2. TEXT_MIN \in 0 .. WORDS - 1 /\ TEXT_MAX \in 0 .. WORDS - 1 /\ WORDS \in Nat \ {0}
      /\ TEXT_MIN % 4 = 0 /\ TEXT_MAX % 4 = 0
  BY WordsDivisible DEF P5Assumption, Word
<1>3. TEXT_MIN < TEXT_MAX => U(TEXT_MIN + 4) = TEXT_MIN + 4
  <2> SUFFICES ASSUME TEXT_MIN < TEXT_MAX PROVE U(TEXT_MIN + 4) = TEXT_MIN + 4
    OBVIOUS
  <2>1. TEXT_MIN + 4 \in 0 .. WORDS - 1
    BY <1>2
  <2> QED BY <1>2, <2>1, SmallMod DEF U
<1>4. A!Runs(TEXT_MIN, TEXT_MIN + 4) <=> ~should_halt
  <2>1. CASE TEXT_MIN < TEXT_MAX
    BY <1>1, <1>2, <1>3, <2>1 DEF A!Runs, A!InMemory, A!Align, Align, should_halt
  <2>2. CASE ~(TEXT_MIN < TEXT_MAX)
    <3>1. \A b \in Int : b \notin TEXT_MIN .. TEXT_MAX - 1
      BY <1>2, <2>2
    <3>2. f_next_pc \in Int
      BY <1>1, <1>2 DEF U
    <3> QED BY <1>2, <3>1, <3>2 DEF A!Runs, A!InMemory, should_halt
  <2> QED BY <2>1, <2>2
<1>5. A!Starting
  <2>1. CASE should_halt
    BY <1>1, <1>4, <2>1 DEF A!Starting, OldestPc, SecondPc, A!STOP, STOP
  <2>2. CASE ~should_halt
    <3>1. TEXT_MIN < TEXT_MAX
      BY <1>2, <1>4, <2>2 DEF A!Runs, A!InMemory
    <3> QED BY <1>1, <1>3, <1>4, <2>2, <3>1 DEF A!Starting, OldestPc, SecondPc
  <2> QED BY <2>1, <2>2
<1>6. \A r \in Reg : Pending(r) = 0
  BY BubbleFacts DEF Pending, Reg
<1>7. [r \in 0 .. NREG - 1 |-> Pending(r)] = [r \in 0 .. NREG - 1 |-> 0]
  BY <1>6 DEF Reg
<1>8. PendingRam = [a \in 0 .. RAM_WORDS - 1 |-> 0]
  BY BubbleFacts DEF PendingRam
<1> QED BY <1>5, <1>7, <1>8 DEF Starts, A!Init

\* The pipeline implements the sequential machine: for every program of the eleven instructions
\* whose loads and stores are aligned, its instructions complete in order, one at a time, with
\* the results, the branches and the halts of the emulator, although its forwarding may pick
\* values that are not ready.
THEOREM P5Implements ==
  ASSUME P5Assumption
  PROVE  Spec /\ []Aligned => A!Spec
<1>1. Init => IsaInv /\ Starts
  BY IsaInvInit, IsaStarts
<1>2. IsaInv /\ Aligned /\ [Next]_vars => IsaInv' /\ Step
  BY IsaInvStep, IsaStep
<1> QED BY <1>1, <1>2, PTL DEF Spec, Starts, Step, A!Spec
=============================================================================
