------------------------------ MODULE P6Proofs ------------------------------
(***************************************************************************)
(* The pipeline of P6 implements the sequential machine Isa, for every      *)
(* width of a word, every number of registers, every size of the memories   *)
(* and every program: what the run earlier_cpus checks for some programs.   *)
(* The invariant says what each stage knows of the instruction it holds.    *)
(***************************************************************************)
EXTENDS P6Isa, DatapathProofs

Runs(a) == a \in TEXT_MIN .. TEXT_MAX - 1 /\ Align(a) \in DOMAIN text

\* The machine an instruction in E works on, once M and W have finished.
Mach == [pc |-> de.pc, grf |-> [r \in Reg |-> Pending(r)], lo |-> mdu.lo, hi |-> mdu.hi,
         mem |-> [a \in 0 .. WORDS \div 4 - 1 |-> PendingRam[a % RAM_WORDS]]]
After == IF Em!BranchResult(de.ins, Mach) = <<>> THEN U(fd.pc + 4) ELSE Em!BranchResult(de.ins, Mach)[1]

-----------------------------------------------------------------------------
(* The invariant. *)

\* The fields of an instruction the datapath uses.
Usable(i) == i.rs \in Reg /\ i.rt \in Reg /\ i.imm \in Word /\ WriteAddr(i) \in Reg

Data ==
  /\ text \in Programs /\ f_pc \in Word
  /\ fd = [pc |-> fd.pc, ins |-> fd.ins] /\ fd.pc \in Word /\ Usable(fd.ins)
  /\ de = [pc |-> de.pc, ins |-> de.ins, v0 |-> de.v0, v1 |-> de.v1, link |-> de.link]
  /\ de.pc \in Word /\ Usable(de.ins) /\ de.v0 \in Word /\ de.v1 \in Word /\ de.link \in Word
  /\ em = [pc |-> em.pc, ins |-> em.ins, v1 |-> em.v1, wd |-> em.wd, alu |-> em.alu]
  /\ Usable(em.ins) /\ em.v1 \in Word /\ em.wd \in Word /\ em.alu \in Word
  /\ mw = [pc |-> mw.pc, wa |-> mw.wa, wd |-> mw.wd, ext |-> mw.ext] /\ mw.wa \in Reg /\ mw.wd \in Word
  /\ grf \in [Reg -> Word] /\ grf[0] = 0
  /\ mdu \in [lo : Word, hi : Word, busy : Nat]
  /\ ram \in [0 .. RAM_WORDS - 1 -> Word]

\* D and E hold what the program has at their addresses.
Holds(s) == Real(s) => Runs(s.pc) /\ s.ins = text[Align(s.pc)]
Fetched == Holds(fd) /\ Holds(de)

\* Once nothing comes behind an instruction, the address behind it is none of the program.
Halting == /\ Real(fd) /\ halted => ~Runs(f_pc)
           /\ Real(de) /\ ~Real(fd) => halted /\ ~Runs(fd.pc)

\* The delay slot is fetched next, and behind it what the branch in front of it says.
SlotBehind == Real(fd) /\ fd.ins.op \in Branch => f_pc = U(fd.pc + 4)
TargetBehind == Real(de) /\ Real(fd) => f_pc = After
Linked == de.ins.op \in {"jal", "jalr"} => de.link = U(de.pc + 8)

\* What D read is still in the register, unless it is on its way in M or W; and what is on its
\* way in M can be forwarded to an instruction that reads it in E.
Kept(r, v) == r # 0 /\ r # WriteAddr(em.ins) /\ r # mw.wa => v = grf[r]
Latched == Kept(de.ins.rs, de.v0) /\ Kept(de.ins.rt, de.v1)
Ready(r) == r # 0 /\ r = WriteAddr(em.ins) => EmReady
OperandsReady == /\ ReadStage0(de.ins) <= EXECUTE => Ready(de.ins.rs)
                 /\ ReadStage1(de.ins) <= EXECUTE => Ready(de.ins.rt)
UnitIdle == de.ins.op \in HiLoOp => mdu.busy = 0

Pipeline == Fetched /\ Halting /\ SlotBehind /\ TargetBehind /\ Linked /\ Latched /\ OperandsReady /\ UnitIdle
IsaInv == Data /\ Pipeline

-----------------------------------------------------------------------------
(* Words, bubbles and stages. *)

\* Zero is a word and a register.
LEMMA Zero == 0 \in Word /\ 0 \in Reg
BY ForwardingAssumption, WordsAssumption DEF Reg, Word

\* A bubble is usable.
LEMMA BubbleUsable == Usable(Bubble)
BY Zero, BubbleFacts DEF Usable

\* Every instruction of a program can be used.
LEMMA TextUsable == \A p \in Programs : \A a \in DOMAIN p : Usable(p[a])
BY TextAssumption DEF Instruction, Usable

-----------------------------------------------------------------------------
(* The types of what the stages compute. *)

\* The index of a word in data memory.
LEMMA RamIndexTyped == \A a \in Int : RamIndex(a) \in 0 .. RAM_WORDS - 1
<1> SUFFICES ASSUME NEW a \in Int PROVE (a \div 4) % RAM_WORDS \in 0 .. RAM_WORDS - 1
  BY DEF RamIndex
<1>1. a \div 4 \in Int
  OBVIOUS
<1> QED BY <1>1, MemoryAssumption

\* The values on their way are words.
LEMMA SignalsTyped ==
  ASSUME Data
  PROVE  /\ w_write_data \in Word /\ m_write_data \in Word /\ m_read_data \in Word /\ real_write_data \in Word
         /\ \A r \in Reg : Pending(r) \in Word /\ d_read_data(r) \in Word /\ GrfRead(r) \in Word
         /\ e_read0 \in Word /\ e_read1 \in Word /\ e_alu_result \in Word
         /\ PendingRam \in [0 .. RAM_WORDS - 1 -> Word]
         /\ Pending(0) = 0
<1> USE DEF Data
<1>1. 0 \in Word /\ 0 \in Reg
  BY Zero
<1>2. w_write_data \in Word
  BY WriteBackTyped DEF w_write_data
<1>3. ram[RamIndex(em.alu)] \in Word /\ em.alu \in Int /\ RamIndex(em.alu) \in 0 .. RAM_WORDS - 1
  <2>1. em.alu \in Int
    BY WordsAssumption DEF Word
  <2> QED BY <2>1, RamIndexTyped
<1>4. m_write_data \in Word
  BY <1>3, ReadTyped DEF m_write_data, m_mem_read_data
<1>5. WriteBack(ExtType(em.ins), m_write_data) \in Word
  BY <1>4, WriteBackTyped
<1>6. m_read_data \in Word
  BY <1>1, <1>2 DEF m_read_data
<1>7. real_write_data \in Word
  BY <1>3, <1>6, WriteTyped DEF real_write_data
<1>8. PendingRam \in [0 .. RAM_WORDS - 1 -> Word]
  BY <1>3, <1>7 DEF PendingRam
<1>9. \A r \in Reg : Pending(r) \in Word /\ d_read_data(r) \in Word /\ GrfRead(r) \in Word
  BY <1>1, <1>2, <1>5 DEF Pending, d_read_data, GrfRead
<1>10. e_read0 \in Word /\ e_read1 \in Word
  BY <1>1, <1>2 DEF e_read0, e_read1, e_read_data
<1>11. e_alu_result \in Word
  <2>1. de.ins.imm \in Word /\ mdu.lo \in Word /\ mdu.hi \in Word
    BY DEF Usable
  <2> QED BY <1>10, <2>1, AluTyped DEF e_alu_result, e_in0, e_in1
<1>12. Pending(0) = 0
  BY <1>1 DEF Pending
<1> QED BY <1>2, <1>4, <1>6, <1>7, <1>8, <1>9, <1>10, <1>11, <1>12

-----------------------------------------------------------------------------
(* One clock. *)

\* What the last three stages hold after a clock, and what the register file shows.
LEMMA StageFacts ==
  ASSUME Data, Next
  PROVE  /\ em' = [pc |-> de.pc, ins |-> IF ignored THEN Bubble ELSE de.ins, v1 |-> e_read1, alu |-> e_alu_result,
                   wd |-> IF WriteStage(de.ins) = EXECUTE THEN e_alu_result ELSE de.link]
         /\ mw' = [pc |-> em.pc, wa |-> WriteAddr(em.ins), wd |-> m_write_data, ext |-> ExtType(em.ins)]
         /\ w_write_data' = WriteBack(ExtType(em.ins), m_write_data)
         /\ \A r \in Reg : r # 0 => grf'[r] = GrfRead(r)
         /\ grf' \in [Reg -> Word] /\ grf'[0] = 0
         /\ ram' = PendingRam
<1>1. em' = [pc |-> de.pc, ins |-> IF ignored THEN Bubble ELSE de.ins, v1 |-> e_read1, alu |-> e_alu_result,
             wd |-> IF WriteStage(de.ins) = EXECUTE THEN e_alu_result ELSE de.link]
  BY DEF Next, Killed, ExecuteOut
<1>2. mw' = [pc |-> em.pc, wa |-> WriteAddr(em.ins), wd |-> m_write_data, ext |-> ExtType(em.ins)]
  BY DEF Next
<1>3. w_write_data' = WriteBack(ExtType(em.ins), m_write_data)
  BY <1>2 DEF w_write_data
<1>4. /\ \A r \in Reg : r # 0 => grf'[r] = GrfRead(r)
      /\ grf' \in [Reg -> Word] /\ grf'[0] = 0
  <2>1. grf' = IF mw.wa # 0 THEN [grf EXCEPT ![mw.wa] = w_write_data] ELSE grf
    BY DEF Next
  <2>2. grf \in [Reg -> Word] /\ grf[0] = 0 /\ mw.wa \in Reg /\ w_write_data \in Word /\ 0 \in Reg
    BY SignalsTyped, Zero DEF Data
  <2> QED BY <2>1, <2>2 DEF GrfRead
<1>5. ram' = PendingRam
  BY DEF Next, PendingRam
<1> QED BY <1>1, <1>2, <1>3, <1>4, <1>5

\* The types are kept.
LEMMA DataStep ==
  ASSUME Data, Next
  PROVE  Data'
<1>1. /\ w_write_data \in Word /\ m_write_data \in Word /\ m_read_data \in Word /\ real_write_data \in Word
      /\ \A r \in Reg : Pending(r) \in Word /\ d_read_data(r) \in Word
      /\ e_read0 \in Word /\ e_read1 \in Word /\ e_alu_result \in Word
      /\ PendingRam \in [0 .. RAM_WORDS - 1 -> Word]
  BY SignalsTyped
<1>2. text' = text /\ text \in Programs /\ text' \in Programs
  BY DEF Data, Next
<1>3. U(f_pc + 4) \in Word
  <2>1. f_pc + 4 \in Int
    BY WordsAssumption DEF Data, Word
  <2> QED BY <2>1, Wraps
<1>4. Usable(f_instr)
  BY <1>2, TextUsable, BubbleFacts, BubbleUsable DEF f_instr, should_halt
<1>5. d_read0 \in Word /\ d_read1 \in Word
  BY <1>1 DEF d_read0, d_read1, Data, Usable
<1>6. f_pc' \in Word
  <2>1. NextPc(fd.ins, f_pc, d_read0, d_read1, 0) \in Word
    BY <1>5, NextPcTyped DEF Data, Usable
  <2> QED BY <2>1 DEF Next, Stall, Advance, Data
<1>7. fd' = [pc |-> fd'.pc, ins |-> fd'.ins] /\ fd'.pc \in Word /\ Usable(fd'.ins)
  <2>1. CASE Stall
    BY <2>1 DEF Stall, Data
  <2>2. CASE Advance
    BY <2>2, <1>4 DEF Advance, Data
  <2> QED BY <2>1, <2>2 DEF Next
<1>8. /\ de' = [pc |-> de'.pc, ins |-> de'.ins, v0 |-> de'.v0, v1 |-> de'.v1, link |-> de'.link]
      /\ de'.pc \in Word /\ Usable(de'.ins) /\ de'.v0 \in Word /\ de'.v1 \in Word /\ de'.link \in Word
  <2>1. CASE Stall
    BY <2>1, <1>3, <1>5, BubbleFacts, BubbleUsable DEF Stall, Killed, DecodeOut, Data
  <2>2. CASE Advance
    BY <2>2, <1>3, <1>5 DEF Advance, DecodeOut, Data
  <2> QED BY <2>1, <2>2 DEF Next
<1>9. /\ em' = [pc |-> em'.pc, ins |-> em'.ins, v1 |-> em'.v1, wd |-> em'.wd, alu |-> em'.alu]
      /\ Usable(em'.ins) /\ em'.v1 \in Word /\ em'.wd \in Word /\ em'.alu \in Word
  BY <1>1, StageFacts, BubbleFacts, BubbleUsable DEF Data
<1>10. mw' = [pc |-> mw'.pc, wa |-> mw'.wa, wd |-> mw'.wd, ext |-> mw'.ext] /\ mw'.wa \in Reg /\ mw'.wd \in Word
  BY <1>1, StageFacts DEF Data, Usable
<1>11. grf' \in [Reg -> Word] /\ grf'[0] = 0
  BY StageFacts
<1>12. mdu' \in [lo : Word, hi : Word, busy : Nat]
  <2>1. MduStart(mdu, de.ins, e_in0, e_in1) \in [lo : Word, hi : Word, busy : Nat]
    BY <1>1, MduStartTyped DEF e_in0, e_in1, Data
  <2>2. mdu' = IF mdu.busy > 0 THEN [mdu EXCEPT !.busy = @ - 1] ELSE MduStart(mdu, de.ins, e_in0, e_in1)
    BY DEF Next, MduNext
  <2> QED BY <2>1, <2>2 DEF Data
<1>13. ram' \in [0 .. RAM_WORDS - 1 -> Word]
  BY <1>1, StageFacts
<1> QED BY <1>2, <1>6, <1>7, <1>8, <1>9, <1>10, <1>11, <1>12, <1>13 DEF Data

\* An instruction that is ignored has no result that D could use.
LEMMA IgnoredFacts ==
  ignored => WriteAddr(de.ins) = 0 \/ WriteStage(de.ins) \in {EXECUTE, MEM}
<1>1. mem_unaligned => de.ins.op \in Load \cup Store
  BY WriterFacts DEF mem_unaligned
<1>2. de.ins.op \in Load => WriteStage(de.ins) = MEM
  BY WriterFacts
<1>3. de.ins.op \in Store => WriteAddr(de.ins) = 0
  BY WriterFacts
<1>4. CheckOverflow(de.ins) => WriteStage(de.ins) = EXECUTE
  BY DEF CheckOverflow, WriteStage, Arith3, AddSub, ArithImm, AddImm
<1> QED BY <1>1, <1>2, <1>3, <1>4 DEF ignored

\* The registers as they will be: a clock adds the result of the instruction that leaves E.
LEMMA PendingStep ==
  ASSUME Data, Next, NEW r \in Reg
  PROVE  Pending(r)' = IF r # 0 /\ r = WriteAddr(em'.ins) THEN WriteBack(ExtType(em'.ins), m_write_data') ELSE Pending(r)
<1>1. /\ mw'.wa = WriteAddr(em.ins) /\ w_write_data' = WriteBack(ExtType(em.ins), m_write_data)
      /\ r # 0 => grf'[r] = GrfRead(r)
      /\ grf'[0] = 0
  BY StageFacts
<1>2. Pending(r)' = IF r = 0 THEN grf'[0]
                    ELSE IF r = WriteAddr(em'.ins) THEN WriteBack(ExtType(em'.ins), m_write_data')
                    ELSE IF r = mw'.wa THEN w_write_data' ELSE grf'[r]
  BY DEF Pending
<1> QED BY <1>1, <1>2 DEF Pending, GrfRead, Data

\* A branch that does not wait in D reads what its registers will hold once the instructions
\* in front of it have finished.
LEMMA DecodeReads ==
  ASSUME Data, Next, ~stall, NEW r \in Reg,
         \/ r = fd.ins.rs /\ ReadStage0(fd.ins) = DECODE
         \/ r = fd.ins.rt /\ ReadStage1(fd.ins) = DECODE
  PROVE  d_read_data(r) = Pending(r)'
<1>1. \A stage \in Nat : stage > 0 => Needs(r, stage)
  BY DEF Needs, DECODE
<1>2. r # 0 /\ r = WriteAddr(de.ins) => WriteStage(de.ins) = DECODE
  <2>1. WriteStage(de.ins) \in {DECODE, EXECUTE, MEM}
    BY WriterFacts
  <2> QED BY <1>1, <2>1 DEF stall, stall_de, DECODE, EXECUTE, MEM
<1>3. r # 0 /\ r = WriteAddr(em.ins) => WriteStage(em.ins) = EXECUTE
  <2>1. WriteStage(em.ins) \in {DECODE, EXECUTE, MEM}
    BY WriterFacts
  <2>2. WORDS - 1 \in Nat /\ WORDS - 1 > 0
    BY WordsDivisible
  <2>3. ~stall_em
    BY DEF stall
  <2> QED BY <1>1, <2>1, <2>2, <2>3 DEF stall_em, DECODE, EXECUTE, MEM
<1>4. /\ em'.ins = IF ignored THEN Bubble ELSE de.ins
      /\ em'.wd = IF WriteStage(de.ins) = EXECUTE THEN e_alu_result ELSE de.link
  BY StageFacts
<1>5. Pending(r)' = IF r # 0 /\ r = WriteAddr(em'.ins) THEN WriteBack(ExtType(em'.ins), m_write_data') ELSE Pending(r)
  BY PendingStep
<1>6. CASE r = 0
  BY <1>5, <1>6, SignalsTyped DEF d_read_data
<1>7. CASE r # 0 /\ r = WriteAddr(de.ins)
  <2>1. WriteStage(de.ins) = DECODE /\ ~ignored /\ em'.ins = de.ins /\ em'.wd = de.link
    BY <1>2, <1>4, <1>7, IgnoredFacts DEF DECODE, EXECUTE, MEM
  <2>2. m_write_data' = de.link
    BY <2>1 DEF m_write_data, DECODE, MEM
  <2>3. ExtType(em'.ins) = "NONE"
    BY <2>1, WriterFacts DEF DECODE, MEM
  <2>4. Pending(r)' = de.link
    BY <1>5, <1>7, <2>1, <2>2, <2>3 DEF WriteBack
  <2> QED BY <1>7, <2>1, <2>4 DEF d_read_data, DECODE
<1>8. CASE r # 0 /\ r # WriteAddr(de.ins)
  <2>1. r # WriteAddr(em'.ins)
    BY <1>4, <1>8, BubbleFacts
  <2>2. Pending(r)' = Pending(r)
    BY <1>5, <2>1
  <2>3. CASE r = WriteAddr(em.ins)
    <3>1. EmReady /\ m_write_data = em.wd
      BY <1>3, <1>8, <2>3 DEF EmReady, m_write_data, EXECUTE, MEM
    <3>2. ExtType(em.ins) = "NONE"
      BY <1>3, <1>8, <2>3, WriterFacts DEF EXECUTE, MEM
    <3>3. Pending(r) = em.wd
      BY <1>8, <2>3, <3>1, <3>2 DEF Pending, WriteBack
    <3> QED BY <1>8, <2>2, <2>3, <3>1, <3>3 DEF d_read_data
  <2>4. CASE r # WriteAddr(em.ins)
    BY <1>8, <2>2, <2>4 DEF d_read_data, Pending, GrfRead
  <2> QED BY <2>3, <2>4
<1> QED BY <1>6, <1>7, <1>8

\* An instruction in E computes with the registers as they will be.
LEMMA ExecuteReads ==
  ASSUME Data, Latched, OperandsReady
  PROVE  /\ ReadStage0(de.ins) <= EXECUTE => e_read0 = Pending(de.ins.rs)
         /\ ReadStage1(de.ins) <= EXECUTE => e_read1 = Pending(de.ins.rt)
         /\ de.ins.rt # WriteAddr(em.ins) => e_read1 = Pending(de.ins.rt)
<1>1. ASSUME NEW r \in Reg, NEW v, Kept(r, v), Ready(r)
      PROVE  e_read_data(r, v) = Pending(r)
  <2>1. CASE r = 0
    BY <2>1, SignalsTyped DEF e_read_data
  <2>2. CASE r # 0 /\ r = WriteAddr(em.ins)
    <3>1. EmReady
      BY <1>1, <2>2 DEF Ready
    <3>2. WriteStage(em.ins) # MEM
      BY <3>1 DEF EmReady, MEM, EXECUTE
    <3>3. ExtType(em.ins) = "NONE" /\ m_write_data = em.wd
      BY <3>2, WriterFacts DEF m_write_data
    <3> QED BY <2>2, <3>1, <3>3 DEF e_read_data, Pending, WriteBack
  <2>3. CASE r # 0 /\ r # WriteAddr(em.ins)
    BY <1>1, <2>3 DEF e_read_data, Pending, Kept
  <2> QED BY <2>1, <2>2, <2>3
<1>2. de.ins.rs \in Reg /\ de.ins.rt \in Reg
  BY DEF Data, Usable
<1>3. de.ins.rt # WriteAddr(em.ins) => Ready(de.ins.rt)
  BY DEF Ready
<1> QED BY <1>1, <1>2, <1>3 DEF Latched, OperandsReady, e_read0, e_read1

-----------------------------------------------------------------------------
(* The invariant holds. *)

\* When the fetch stage stops.
LEMMA ShouldHalt == should_halt <=> halted \/ ~Runs(f_pc)
BY DEF should_halt, Runs

\* What D and E hold after a clock.
LEMMA FrontFacts ==
  ASSUME Data, Next
  PROVE  /\ text' = text /\ (halted' <=> should_halt)
         /\ stall => f_pc' = f_pc /\ fd' = fd /\ de'.ins = Bubble
         /\ ~stall => /\ f_pc' = NextPc(fd.ins, f_pc, d_read0, d_read1, 0)
                      /\ fd'.pc = f_pc /\ fd'.ins = f_instr
                      /\ de' = [pc |-> fd.pc, ins |-> fd.ins, v0 |-> d_read0, v1 |-> d_read1, link |-> U(f_pc + 4)]
BY DEF Next, Stall, Advance, Killed, DecodeOut

\* No bubble is part of a program.
LEMMA ProgramReal ==
  ASSUME P6Assumption, Data, NEW a \in DOMAIN text
  PROVE  text[a].op \in Known \ {"mfc0", "mtc0", "eret"} /\ text[a].op # "bubble"
<1>1. "bubble" \notin Known
  BY DEF Known, Arith3, AddSub, Logic, Compare, Shift, ShiftV, ArithImm, AddImm, LogicImm, CmpImm, Load, Store,
         Branch, BranchRT, BranchZ, JumpReg, MulDiv, MoveFrom, MoveTo, HiLoOp
<1> QED BY <1>1 DEF P6Assumption, Data

\* What was fetched is the program's.
LEMMA FetchedStep ==
  ASSUME Data, Fetched, Next
  PROVE  Fetched'
<1>1. CASE stall
  BY <1>1, FrontFacts, BubbleFacts DEF Fetched, Holds, Real, Runs
<1>2. CASE ~stall
  <2>1. Holds(fd)'
    BY <1>2, FrontFacts, BubbleFacts, ShouldHalt DEF Holds, Real, Runs, f_instr
  <2>2. Holds(de)'
    BY <1>2, FrontFacts DEF Fetched, Holds, Real, Runs
  <2> QED BY <2>1, <2>2 DEF Fetched
<1> QED BY <1>1, <1>2

\* A program that has been left is not entered again.
LEMMA HaltingStep ==
  ASSUME P6Assumption, Data, Halting, Next
  PROVE  Halting'
<1>1. CASE stall
  BY <1>1, FrontFacts, BubbleFacts, ShouldHalt DEF Halting, Real, Runs
<1>2. CASE ~stall
  <2>1. Real(fd)' <=> ~should_halt
    <3>1. ~should_halt => Align(f_pc) \in DOMAIN text
      BY ShouldHalt DEF Runs
    <3> QED BY <1>2, <3>1, FrontFacts, BubbleFacts, ProgramReal DEF Real, f_instr
  <2>2. Real(de)' <=> Real(fd)
    BY <1>2, FrontFacts DEF Real
  <2>3. (halted' <=> should_halt) /\ fd'.pc = f_pc /\ text' = text
    BY <1>2, FrontFacts
  <2> QED BY <2>1, <2>2, <2>3, ShouldHalt DEF Halting, Runs
<1> QED BY <1>1, <1>2

\* Behind a branch its delay slot is fetched: no branch is in the slot of another.
LEMMA SlotBehindStep ==
  ASSUME P6Assumption, Data, Fetched, SlotBehind, Next
  PROVE  SlotBehind'
<1>1. CASE stall
  BY <1>1, FrontFacts DEF SlotBehind, Real
<1>2. CASE ~stall
  <2> SUFFICES ASSUME Real(fd)', fd'.ins.op \in Branch PROVE f_pc' = U(fd'.pc + 4)
    BY DEF SlotBehind
  <2>1. fd'.pc = f_pc /\ fd'.ins = text[Align(f_pc)] /\ Runs(f_pc)
    BY <1>2, FrontFacts, ShouldHalt, BubbleFacts DEF f_instr, Real
  <2>2. fd.ins.op \notin Branch
    <3> SUFFICES ASSUME fd.ins.op \in Branch PROVE FALSE
      OBVIOUS
    <3>1. Real(fd)
      BY BubbleFacts DEF Real
    <3>2. fd.ins = text[Align(fd.pc)] /\ Runs(fd.pc) /\ f_pc = U(fd.pc + 4)
      BY <3>1 DEF Fetched, Holds, SlotBehind
    <3>3. Align(f_pc) = U(Align(fd.pc) + 4)
      BY <3>2, AlignNext DEF Data
    <3> QED BY <2>1, <3>2, <3>3, ProgramsAssumption DEF Data, Runs
  <2>3. fd.ins.op # "eret"
    BY ProgramReal DEF Fetched, Holds, Real, Runs
  <2>4. NextPc(fd.ins, f_pc, d_read0, d_read1, 0) = U(f_pc + 4)
    BY <2>2, <2>3 DEF NextPc, ShouldBranch, Branch, BranchRT, BranchZ, JumpReg
  <2> QED BY <1>2, <2>1, <2>4, FrontFacts
<1> QED BY <1>1, <1>2

\* What follows a branch and its slot is its target.
LEMMA TargetBehindStep ==
  ASSUME P6Assumption, Data, Fetched, SlotBehind, Next
  PROVE  TargetBehind'
<1> SUFFICES ASSUME Real(de)', Real(fd)' PROVE f_pc' = After'
  BY DEF TargetBehind
<1> DEFINE i == fd.ins
           m == Mach'
<1>1. ~stall
  BY FrontFacts, BubbleFacts DEF Real
<1>2. f_pc' = NextPc(i, f_pc, d_read0, d_read1, 0) /\ fd'.pc = f_pc /\ de'.ins = i /\ de'.pc = fd.pc
  BY <1>1, FrontFacts
<1>3. Real(fd) /\ i = text[Align(fd.pc)] /\ Runs(fd.pc)
  BY <1>2 DEF Real, Fetched, Holds
<1>4. /\ i.op \in Known \ {"mfc0", "mtc0", "eret"} /\ i.imm \in Word /\ i.rs \in Reg /\ i.rt \in Reg
      /\ f_pc \in Word /\ fd.pc \in Word
  BY <1>3, ProgramReal DEF Data, Usable, Runs
<1>5. m.pc = fd.pc /\ \A r \in Reg : m.grf[r] = Pending(r)'
  BY <1>2 DEF Mach
<1> PICK rs \in Reg, rt \in Reg : rs = i.rs /\ rt = i.rt
  BY <1>4
<1>6. Em!Rs(i, m) = Pending(rs)' /\ Em!Rt(i, m) = Pending(rt)'
  <2> HIDE DEF i, m
  <2> QED BY <1>5 DEF Em!Rs, Em!Rt
<1>7. i.op \in BranchRT \cup BranchZ \cup JumpReg => d_read0 = Em!Rs(i, m)
  <2>1. i.op \in BranchRT \cup BranchZ \cup JumpReg => ReadStage0(i) = DECODE
    BY DEF ReadStage0
  <2> QED BY <1>1, <1>4, <1>6, <2>1, DecodeReads DEF d_read0
<1>8. i.op \in BranchRT => d_read1 = Em!Rt(i, m)
  <2>1. i.op \in BranchRT => ReadStage1(i) = DECODE
    BY DEF ReadStage1
  <2> QED BY <1>1, <1>4, <1>6, <2>1, DecodeReads DEF d_read1
<1>9. i.op \in Branch => f_pc = U(m.pc + 4)
  BY <1>3, <1>5 DEF SlotBehind
<1>10. i.op \in {"j", "jal"} => 4 * i.imm < 2^(BITS - REGION_BITS) /\ m.pc + 4 < 2^(BITS - REGION_BITS)
  <2> DEFINE R == 2^(BITS - REGION_BITS)
  <2>1. R \in Nat
    <3>1. BITS - REGION_BITS \in 0 .. BITS
      BY WordsAssumption, DecodeAssumption
    <3> QED BY <3>1, PowerPositive
  <2>2. TEXT_MAX + 4 <= R /\ (i.op \in {"j", "jal"} => 4 * i.imm < R)
    BY <1>3 DEF P6Assumption, Data, Runs
  <2> HIDE DEF R, m
  <2>3. TEXT_MAX \in Nat /\ TEXT_MIN \in Nat /\ fd.pc \in TEXT_MIN .. TEXT_MAX - 1 /\ m.pc = fd.pc
    BY <1>3, <1>5, ForwardingAssumption, WordsAssumption DEF Runs, Word
  <2>4. m.pc + 4 < R
    BY <2>1, <2>2, <2>3
  <2> QED BY <2>2, <2>4 DEF R
<1>11. After' = IF Em!BranchResult(i, m) = <<>> THEN U(f_pc + 4) ELSE Em!BranchResult(i, m)[1]
  BY <1>2 DEF After
<1> HIDE DEF i, m
<1>12. m.pc \in Word
  BY <1>4, <1>5
<1>13. NextPc(i, f_pc, d_read0, d_read1, 0) =
         IF Em!BranchResult(i, m) = <<>> THEN U(f_pc + 4) ELSE Em!BranchResult(i, m)[1]
  BY ONLY <1>4, <1>7, <1>8, <1>9, <1>10, <1>12, BranchTarget
<1> QED BY <1>2, <1>11, <1>13

\* The link is the address behind the slot.
LEMMA LinkedStep ==
  ASSUME Data, Fetched, SlotBehind, Next
  PROVE  Linked'
<1>1. CASE stall
  BY <1>1, FrontFacts, BubbleFacts DEF Linked
<1>2. CASE ~stall
  <2> SUFFICES ASSUME fd.ins.op \in {"jal", "jalr"} PROVE U(f_pc + 4) = U(fd.pc + 8)
    BY <1>2, FrontFacts DEF Linked
  <2>1. fd.ins.op \in Branch /\ Real(fd)
    BY DEF Branch, JumpReg, Real
  <2>2. f_pc = U(fd.pc + 4) /\ fd.pc \in Int
    BY <2>1, WordsAssumption DEF SlotBehind, Data, Word
  <2> QED BY <2>2, WrapTwice
<1> QED BY <1>1, <1>2

\* D reads the registers.
LEMMA LatchedStep ==
  ASSUME Data, Next
  PROVE  Latched'
<1>1. CASE stall
  BY <1>1, FrontFacts, BubbleFacts DEF Latched, Kept
<1>2. CASE ~stall
  <2>1. ASSUME NEW r \in Reg, r # 0, r # WriteAddr(em'.ins), r # mw'.wa PROVE d_read_data(r) = grf'[r]
    <3>1. r # WriteAddr(em.ins) /\ grf'[r] = GrfRead(r)
      BY <2>1, StageFacts
    <3>2. r = WriteAddr(de.ins) => ~(WriteStage(de.ins) <= DECODE)
      BY <2>1, StageFacts, IgnoredFacts DEF DECODE, EXECUTE, MEM
    <3> QED BY <2>1, <3>1, <3>2 DEF d_read_data
  <2>2. de'.ins = fd.ins /\ de'.v0 = d_read0 /\ de'.v1 = d_read1
    BY <1>2, FrontFacts
  <2>3. fd.ins.rs \in Reg /\ fd.ins.rt \in Reg
    BY DEF Data, Usable
  <2> QED BY <2>1, <2>2, <2>3 DEF Latched, Kept, d_read0, d_read1
<1> QED BY <1>1, <1>2

\* An instruction waits in D until what it reads in E can be forwarded.
LEMMA OperandsReadyStep ==
  ASSUME Data, Next
  PROVE  OperandsReady'
<1>1. CASE stall
  BY <1>1, FrontFacts, BubbleFacts DEF OperandsReady, Ready
<1>2. CASE ~stall
  <2>1. de'.ins = fd.ins /\ ~stall_de
    BY <1>2, FrontFacts DEF stall
  <2>2. em'.ins = IF ignored THEN Bubble ELSE de.ins
    BY StageFacts
  <2>3. WriteStage(de.ins) \in Int /\ ReadStage0(fd.ins) \in Int /\ ReadStage1(fd.ins) \in Int /\ EXECUTE \in Int
    BY DEF WriteStage, ReadStage0, ReadStage1, DECODE, EXECUTE, MEM, NEVER
  <2>4. ASSUME NEW r, r # 0, r = WriteAddr(em'.ins),
               \/ r = fd.ins.rs /\ ReadStage0(fd.ins) <= EXECUTE
               \/ r = fd.ins.rt /\ ReadStage1(fd.ins) <= EXECUTE
        PROVE  WriteStage(em'.ins) <= EXECUTE
    <3>1. r = WriteAddr(de.ins) /\ em'.ins = de.ins
      BY <2>2, <2>4, BubbleFacts
    <3>2. ~Needs(r, WriteStage(de.ins))
      BY <2>1, <2>4, <3>1 DEF stall_de
    <3> QED BY <2>3, <2>4, <3>1, <3>2 DEF Needs
  <2> QED BY <2>1, <2>4 DEF OperandsReady, Ready, EmReady
<1> QED BY <1>1, <1>2

\* An instruction waits in D until the multiply/divide unit is free.
LEMMA UnitIdleStep ==
  ASSUME Data, Next
  PROVE  UnitIdle'
<1>1. CASE stall
  BY <1>1, FrontFacts, BubbleFacts DEF UnitIdle
<1>2. CASE ~stall
  <2> SUFFICES ASSUME fd.ins.op \in HiLoOp PROVE mdu'.busy = 0
    BY <1>2, FrontFacts DEF UnitIdle
  <2>1. ~(mdu.busy > 0) /\ de.ins.op \notin MulDiv
    BY <1>2 DEF stall, stall_alu, AluBusy
  <2>2. mdu' = MduStart(mdu, de.ins, e_in0, e_in1)
    BY <2>1 DEF Next, MduNext
  <2>3. mdu.busy = 0 /\ mdu = [lo |-> mdu.lo, hi |-> mdu.hi, busy |-> mdu.busy]
    BY <2>1 DEF Data
  <2> QED BY <2>1, <2>2, <2>3 DEF MduStart, MulDiv
<1> QED BY <1>1, <1>2

\* The pipeline after reset.
LEMMA IsaInvInit ==
  ASSUME Init
  PROVE  IsaInv
<1> USE DEF Init
<1>1. Data
  <2>1. TEXT_MIN \in Word
    BY ForwardingAssumption
  <2>2. mdu \in [lo : Word, hi : Word, busy : Nat]
    BY Zero DEF MduReset
  <2>3. grf \in [Reg -> Word] /\ grf[0] = 0 /\ ram \in [0 .. RAM_WORDS - 1 -> Word]
    BY Zero
  <2> QED BY <2>1, <2>2, <2>3, Zero, BubbleFacts, BubbleUsable DEF Data
<1>2. ~Real(fd) /\ ~Real(de)
  BY BubbleFacts DEF Real
<1>3. Latched /\ OperandsReady
  BY BubbleFacts DEF Latched, Kept, OperandsReady, Ready
<1>4. Linked /\ UnitIdle
  BY BubbleFacts DEF Linked, UnitIdle
<1> QED BY <1>1, <1>2, <1>3, <1>4 DEF IsaInv, Pipeline, Fetched, Holds, Halting, SlotBehind, TargetBehind

\* A clock keeps the invariant.
LEMMA IsaInvStep ==
  ASSUME P6Assumption, IsaInv, [Next]_vars
  PROVE  IsaInv'
<1>1. CASE Next
  BY <1>1, DataStep, FetchedStep, HaltingStep, SlotBehindStep, TargetBehindStep, LinkedStep, LatchedStep,
     OperandsReadyStep, UnitIdleStep DEF IsaInv, Pipeline
<1>2. CASE UNCHANGED vars
  <2>1. /\ Data' <=> Data
        /\ (Fetched <=> Fetched') /\ (Linked <=> Linked') /\ (UnitIdle <=> UnitIdle')
        /\ (SlotBehind <=> SlotBehind') /\ (Halting <=> Halting')
    BY <1>2 DEF vars, Data, Fetched, Holds, Real, Runs, Linked, UnitIdle, SlotBehind, Halting
  <2>2. (Latched <=> Latched') /\ (OperandsReady <=> OperandsReady')
    BY <1>2 DEF vars, Latched, Kept, OperandsReady, Ready, EmReady
  <2>3. TargetBehind <=> TargetBehind'
    <3>1. \A r : Pending(r)' = Pending(r)
      BY <1>2 DEF vars, Pending, w_write_data, m_write_data, m_mem_read_data, RamIndex
    <3>2. PendingRam' = PendingRam
      BY <1>2 DEF vars, PendingRam, real_write_data, m_read_data, w_write_data, RamIndex
    <3>3. Mach' = Mach
      BY <1>2, <3>1, <3>2 DEF Mach, vars
    <3>4. After' = After
      BY <1>2, <3>3 DEF After, vars
    <3> QED BY <1>2, <3>4 DEF TargetBehind, vars, Real
  <2> QED BY <2>1, <2>2, <2>3 DEF IsaInv, Pipeline
<1> QED BY <1>1, <1>2

-----------------------------------------------------------------------------
(* Every clock is a step of the sequential machine. *)

\* The sequential machine has the semantics of the emulator.
LEMMA Semantics ==
  \A i, m : /\ A!E!Effect(i, m) = Em!Effect(i, m)
            /\ A!E!Exception(i, m) = Em!Exception(i, m)
            /\ A!E!BranchResult(i, m) = Em!BranchResult(i, m)
            /\ A!E!Addr(i, m) = Em!Addr(i, m)
<1> USE DEF A!WORDS, WORDS, A!E!Arith3, Em!Arith3, A!E!AddSub, Em!AddSub, A!E!Logic, Em!Logic, A!E!Compare, Em!Compare,
     A!E!Shift, Em!Shift, A!E!ShiftV, Em!ShiftV, A!E!AddImm, Em!AddImm, A!E!LogicImm, Em!LogicImm, A!E!CmpImm,
     Em!CmpImm, A!E!ArithImm, Em!ArithImm, A!E!Load, Em!Load, A!E!Store, Em!Store, A!E!MulDiv, Em!MulDiv,
     A!E!Branch, Em!Branch, A!E!BranchRT, Em!BranchRT, A!E!BranchZ, Em!BranchZ, A!E!JumpReg, Em!JumpReg,
     A!E!WORDS, Em!WORDS, A!E!BYTE, Em!BYTE, A!E!HALF, Em!HALF, A!E!U, Em!U, A!E!S, Em!S, A!E!Bit, Em!Bit,
     A!E!And, Em!And, A!E!Or, Em!Or, A!E!Xor, Em!Xor, A!E!Sll, Em!Sll, A!E!Srl, Em!Srl, A!E!Sra, Em!Sra,
     A!E!Flag, Em!Flag, A!E!ExtHalf, Em!ExtHalf, A!E!ExtByte, Em!ExtByte, A!E!Lane, Em!Lane, A!E!Quot, Em!Quot,
     A!E!Rem, Em!Rem, A!E!AbsVal, Em!AbsVal, A!E!SetGrf, Em!SetGrf, A!E!Rs, Em!Rs, A!E!Rt, Em!Rt, A!E!Simm,
     Em!Simm, A!E!Addr, Em!Addr, A!E!Granule, Em!Granule, A!E!BadAddr, Em!BadAddr, A!E!Fits, Em!Fits,
     A!E!Exception, Em!Exception, A!E!Operand, Em!Operand, A!E!SumValue, Em!SumValue, A!E!CompareValue,
     Em!CompareValue, A!E!LogicValue, Em!LogicValue, A!E!ShiftValue, Em!ShiftValue, A!E!Value, Em!Value,
     A!E!Bytes, Em!Bytes, A!E!FromBytes, Em!FromBytes, A!E!LoadValue, Em!LoadValue, A!E!StoreValue,
     Em!StoreValue, A!E!Product, Em!Product, A!E!MulDivEffect, Em!MulDivEffect, A!E!HiLoEffect, Em!HiLoEffect,
     A!E!Effect, Em!Effect, A!E!Taken, Em!Taken, A!E!Region, Em!Region, A!E!Target, Em!Target, A!E!BranchResult,
     Em!BranchResult
<1> SUFFICES ASSUME NEW i, NEW m
             PROVE  /\ A!E!Effect(i, m) = Em!Effect(i, m)
                    /\ A!E!Exception(i, m) = Em!Exception(i, m)
                    /\ A!E!BranchResult(i, m) = Em!BranchResult(i, m)
                    /\ A!E!Addr(i, m) = Em!Addr(i, m)
  OBVIOUS
<1>1. A!E!Effect(i, m) = Em!Effect(i, m)
  BY Zenon
<1>2. A!E!Exception(i, m) = Em!Exception(i, m)
  BY Zenon
<1>3. A!E!BranchResult(i, m) = Em!BranchResult(i, m)
  BY Zenon
<1>4. A!E!Addr(i, m) = Em!Addr(i, m)
  BY Zenon
<1> QED BY ONLY <1>1, <1>2, <1>3, <1>4

\* What the stages know of an instruction that leaves E, in the terms of the emulator.
LEMMA Leaving ==
  ASSUME P6Assumption, Data, Pipeline, Real(de)
  PROVE  /\ Em!Rs(de.ins, Mach) = Pending(de.ins.rs) /\ Em!Rt(de.ins, Mach) = Pending(de.ins.rt)
         /\ de.ins.op \in Known \ {"mfc0", "mtc0", "eret"}
         /\ Em!Addr(de.ins, Mach) \in Word
         /\ WriteStage(de.ins) = EXECUTE \/ de.ins.op \in Load \cup Store => e_alu_result = AluOut(de.ins, Mach)
         /\ ignored <=> Em!Exception(de.ins, Mach) # 0
         /\ MduNext(mdu, de.ins, e_in0, e_in1, FALSE).lo = UnitOut(de.ins, Mach).lo
         /\ MduNext(mdu, de.ins, e_in0, e_in1, FALSE).hi = UnitOut(de.ins, Mach).hi
<1> DEFINE i == de.ins
           u == Unit(Mach)
           P0 == Pending(i.rs)
           P1 == Pending(i.rt)
           x == AluOut(i, Mach)
           h == UnitOut(i, Mach)
<1>1. i = text[Align(de.pc)] /\ Runs(de.pc)
  BY DEF Pipeline, Fetched, Holds
<1>2. i.op \in Known \ {"mfc0", "mtc0", "eret"}
  BY <1>1, ProgramReal DEF Runs
<1>3. /\ Em!Rs(i, Mach) = P0 /\ Em!Rt(i, Mach) = P1
      /\ x = AluResult(i, In0(i, P0), In1(i, P1), u) /\ h = MduStart(u, i, In0(i, P0), In1(i, P1))
      /\ u = [lo |-> mdu.lo, hi |-> mdu.hi, busy |-> 0]
  <2>1. i.rs \in Reg /\ i.rt \in Reg
    BY DEF Data, Usable
  <2> QED BY <2>1 DEF Em!Rs, Em!Rt, Mach, AluOut, UnitOut, Unit
<1>4. P0 \in Word /\ P1 \in Word /\ i.imm \in Word
  BY SignalsTyped DEF Data, Usable
<1>5. Em!Addr(i, Mach) \in Word
  <2>1. P0 + ExtHalf(i.imm) \in Int
    <3>1. i.imm \in Int /\ P0 \in Int
      BY <1>4, WordsAssumption DEF Word
    <3>2. ExtHalf(i.imm) \in Int
      BY <3>1, ExtTyped, WordsAssumption DEF Word
    <3> QED BY <3>1, <3>2
  <2>2. Em!Addr(i, Mach) = U(P0 + ExtHalf(i.imm))
    BY <1>3, EmulatorImm DEF Em!Addr, Em!U, U, Em!WORDS, WORDS
  <2> QED BY <2>1, <2>2, Wraps
\* The operands: whatever the instruction does not read makes no difference.
<1>6. /\ ReadStage0(i) <= EXECUTE => e_read0 = P0
      /\ ReadStage1(i) <= EXECUTE => e_read1 = P1
  BY ExecuteReads DEF Pipeline
<1>7. i.op \in Computed \cup Load \cup Store \cup MulDiv \cup MoveTo => e_in0 = In0(i, P0)
  <2>1. CASE i.op \in Shift \cup {"lui"}
    BY <2>1 DEF e_in0, In0, Shift
  <2>2. CASE i.op \in Arith3 \cup ArithImm \cup ShiftV \cup Load \cup Store \cup MulDiv \cup MoveTo
    <3>1. ReadStage0(i) <= EXECUTE
      BY <2>2 DEF ReadStage0, DECODE, EXECUTE
    <3> QED BY <1>6, <3>1 DEF e_in0
  <2> QED BY <2>1, <2>2 DEF Computed
<1>8. i.op \in Computed \cup Load \cup Store \cup MulDiv => e_in1 = In1(i, P1)
  <2>1. CASE i.op \in ArithImm \cup Load \cup Store \cup {"lui"}
    BY <2>1 DEF e_in1, In1
  <2>2. CASE i.op \in Arith3 \cup Shift \cup ShiftV \cup MulDiv
    <3>1. ReadStage1(i) <= EXECUTE
      BY <2>2 DEF ReadStage1, DECODE, EXECUTE
    <3> QED BY <1>6, <3>1 DEF e_in1
  <2> QED BY <2>1, <2>2 DEF Computed
<1>9. \A a, b : AluResult(i, a, b, mdu) = AluResult(i, a, b, u)
  BY <1>3 DEF AluResult
<1>10. WriteStage(i) = EXECUTE \/ i.op \in Load \cup Store => e_alu_result = x
  <2>1. CASE i.op \in Computed \cup Load \cup Store
    BY <1>3, <1>7, <1>8, <1>9, <2>1 DEF e_alu_result
  <2>2. CASE i.op \in MoveFrom
    BY <1>3, <2>2 DEF e_alu_result, AluResult, MoveFrom
  <2>3. WriteStage(i) = EXECUTE => i.op \in Computed \cup MoveFrom
    BY DEF WriteStage, EXECUTE, MEM, DECODE, Computed
  <2> QED BY <2>1, <2>2, <2>3
\* The instructions that are ignored.
<1>11. ignored <=> Em!Exception(i, Mach) # 0
  <2>1. i.op \in Load \cup Store => x = Em!Addr(i, Mach) /\ e_alu_result = x
    BY <1>10, AluAddress DEF AluOut
  <2>2. CheckOverflow(i) => i.op \in Computed
    BY DEF CheckOverflow, Computed, Arith3, AddSub, ArithImm, AddImm
  <2>3. mem_unaligned <=> i.op \in Load \cup Store /\ InvalidAddr(i, Em!Addr(i, Mach))
    BY <2>1, WriterFacts DEF mem_unaligned
  <2>4. /\ CheckOverflow(i) => (Overflowed(i, In0(i, P0), In1(i, P1)) <=> Em!Exception(i, Mach) # 0)
        /\ i.op \in Load \cup Store => (InvalidAddr(i, Em!Addr(i, Mach)) <=> Em!Exception(i, Mach) # 0)
        /\ ~CheckOverflow(i) /\ i.op \notin Load \cup Store => Em!Exception(i, Mach) = 0
    BY <1>2, <1>3, <1>5, TrapsAgree
  <2>5. CheckOverflow(i) => i.op \notin Load \cup Store
    BY DEF CheckOverflow, Load, Store
  <2> QED BY <1>7, <1>8, <2>2, <2>3, <2>4, <2>5 DEF ignored
\* The multiply/divide unit is idle for an instruction that uses it.
<1>12. MduNext(mdu, i, e_in0, e_in1, FALSE).lo = h.lo /\ MduNext(mdu, i, e_in0, e_in1, FALSE).hi = h.hi
  <2>1. mdu = [lo |-> mdu.lo, hi |-> mdu.hi, busy |-> mdu.busy] /\ mdu.busy \in Nat
    BY DEF Data
  <2>2. CASE i.op \in HiLoOp
    <3>1. mdu.busy = 0 /\ mdu = u
      BY <1>3, <2>1, <2>2 DEF Pipeline, UnitIdle
    <3>2. MduNext(mdu, i, e_in0, e_in1, FALSE) = MduStart(u, i, e_in0, e_in1)
      BY <3>1 DEF MduNext
    <3>3. MduStart(u, i, e_in0, e_in1) = h
      <4>1. CASE i.op \in MulDiv
        BY <1>3, <1>7, <1>8, <4>1
      <4>2. CASE i.op \in MoveTo
        BY <1>3, <1>7, <4>2 DEF MduStart, MoveTo
      <4>3. CASE i.op \in MoveFrom
        BY <1>3, <4>3 DEF MduStart, MoveFrom
      <4> QED BY <2>2, <4>1, <4>2, <4>3 DEF HiLoOp
    <3> QED BY <3>2, <3>3
  <2>3. CASE i.op \notin HiLoOp
    <3>1. \A w, a, b : MduStart(w, i, a, b) = w
      BY <2>3 DEF MduStart, HiLoOp, MulDiv, MoveTo
    <3> QED BY <1>3, <2>1, <3>1 DEF MduNext
  <2> QED BY <2>2, <2>3
<1> QED BY <1>2, <1>3, <1>5, <1>10, <1>11, <1>12

\* The result of an instruction that leaves E, as it will be written: Completes, with what the
\* stages behind E compute.
LEMMA Results ==
  ASSUME P6Assumption, Data, Pipeline, Next, Real(de)
  PROVE  LET i == de.ins
             m == IF Em!Exception(i, Mach) # 0 THEN Mach ELSE Em!Effect(i, Mach)
         IN  /\ [r \in Reg |-> Pending(r)'] = m.grf
             /\ mdu'.lo = m.lo /\ mdu'.hi = m.hi
             /\ PendingRam' = IF Em!Exception(i, Mach) # 0 \/ i.op \notin Store THEN PendingRam
                              ELSE [PendingRam EXCEPT ![RamIndex(Em!Addr(i, Mach))] = m.mem[Em!Addr(i, Mach) \div 4]]
<1> DEFINE i == de.ins
<1> PICK rs \in Reg, rt \in Reg : rs = i.rs /\ rt = i.rt
  BY DEF Data, Usable
<1> DEFINE P0 == Pending(rs)
           P1 == Pending(rt)
           x == AluOut(i, Mach)
           h == UnitOut(i, Mach)
           v == ValueOut(i, Mach)
           a == Em!Addr(i, Mach)
           bad == Em!Exception(i, Mach) # 0
<1>1. /\ Em!Rs(i, Mach) = P0 /\ Em!Rt(i, Mach) = P1
      /\ i.op \in Known \ {"mfc0", "mtc0", "eret"}
      /\ a \in Word
      /\ WriteStage(i) = EXECUTE \/ i.op \in Load \cup Store => e_alu_result = x
      /\ ignored <=> bad
      /\ MduNext(mdu, i, e_in0, e_in1, FALSE).lo = h.lo
      /\ MduNext(mdu, i, e_in0, e_in1, FALSE).hi = h.hi
  BY Leaving
<1>2. /\ em'.ins = IF ignored THEN Bubble ELSE i
      /\ em'.alu = e_alu_result /\ em'.v1 = e_read1
      /\ em'.wd = IF WriteStage(i) = EXECUTE THEN e_alu_result ELSE de.link
      /\ mw'.wa = WriteAddr(em.ins) /\ w_write_data' = WriteBack(ExtType(em.ins), m_write_data)
      /\ ram' = PendingRam
  BY StageFacts
<1>3. mdu'.lo = h.lo /\ mdu'.hi = h.hi
  BY <1>1 DEF Next
<1>4. \A r \in Reg : Pending(r)' = IF r # 0 /\ r = WriteAddr(em'.ins) THEN WriteBack(ExtType(em'.ins), m_write_data') ELSE Pending(r)
  BY PendingStep
<1>5. P0 \in Word /\ P1 \in Word /\ i.imm \in Word /\ WriteAddr(i) \in Reg /\ PendingRam \in [0 .. RAM_WORDS - 1 -> Word]
  BY SignalsTyped DEF Data, Usable
<1>6. i.op \in Load \cup Store => x = a /\ e_alu_result = a
  BY <1>1, AluAddress DEF AluOut
<1>7. /\ a \div 4 \in 0 .. WORDS \div 4 - 1
      /\ Mach.mem[a \div 4] = PendingRam[RamIndex(a)] /\ PendingRam[RamIndex(a)] \in Word
  <2>1. a \in 0 .. WORDS - 1 /\ WORDS = 4 * (WORDS \div 4) /\ WORDS \div 4 \in Nat
    BY <1>1, WordsDivisible DEF Word
  <2> HIDE DEF a
  <2>2. a \div 4 \in 0 .. WORDS \div 4 - 1
    BY <2>1
  <2>3. RamIndex(a) \in 0 .. RAM_WORDS - 1
    BY <2>1, RamIndexTyped
  <2> QED BY <1>5, <2>2, <2>3 DEF Mach, RamIndex
<1>8. CASE bad
  <2>1. em'.ins = Bubble
    BY <1>1, <1>2, <1>8
  <2>2. \A r \in Reg : Pending(r)' = Pending(r)
    BY <1>4, <2>1, BubbleFacts
  <2>3. [r \in Reg |-> Pending(r)'] = Mach.grf
    BY <2>2 DEF Mach
  <2>4. PendingRam' = PendingRam
    BY <1>2, <2>1, BubbleFacts DEF PendingRam
  <2>5. mdu'.lo = Mach.lo /\ mdu'.hi = Mach.hi
    <3>1. i.op \notin MulDiv \cup MoveTo
      BY <1>8 DEF Em!Exception, Em!Load, Em!Store, MulDiv, MoveTo
    <3>2. h = Unit(Mach)
      BY <3>1 DEF UnitOut, MduStart, MulDiv, MoveTo
    <3> QED BY <1>3, <3>2 DEF Mach, Unit
  <2> QED BY <1>8, <2>3, <2>4, <2>5
<1>9. CASE ~bad
  <2> DEFINE m == Em!Effect(i, Mach)
             g == Mach.grf
  <2>1. em'.ins = i /\ ~ignored
    BY <1>1, <1>2, <1>9
  <2>2. m = [pc |-> Mach.pc, grf |-> IF WriteAddr(i) = 0 THEN g ELSE [g EXCEPT ![WriteAddr(i)] = v],
             lo |-> h.lo, hi |-> h.hi,
             mem |-> IF i.op \in Store
                     THEN [Mach.mem EXCEPT ![a \div 4] = WriteLane(i, a, Mach.mem[a \div 4], Em!Rt(i, Mach))] ELSE Mach.mem]
    <3>1. Mach = [pc |-> Mach.pc, grf |-> Mach.grf, lo |-> Mach.lo, hi |-> Mach.hi, mem |-> Mach.mem]
      BY DEF Mach
    <3>2. i.op \in Load \cup Store => Mach.mem[a \div 4] \in Word
      BY <1>7
    <3>3. Em!Rs(i, Mach) \in Word /\ Em!Rt(i, Mach) \in Word /\ Em!Exception(i, Mach) = 0
      BY <1>1, <1>5, <1>9
    <3>4. i.op \in Known \ {"mfc0", "mtc0", "eret"} /\ i.imm \in Word
      BY <1>1, <1>5
    <3> QED BY ONLY <3>1, <3>2, <3>3, <3>4, Completes
  <2>3. ASSUME WriteAddr(i) # 0 PROVE WriteBack(ExtType(em'.ins), m_write_data') = v
    <3>1. CASE WriteStage(i) = EXECUTE
      <4>1. m_write_data' = x
        BY <1>1, <1>2, <2>1, <3>1 DEF m_write_data, EXECUTE, MEM
      <4>2. ExtType(i) = "NONE"
        BY <3>1, WriterFacts DEF EXECUTE, MEM
      <4> QED BY <2>1, <3>1, <4>1, <4>2 DEF WriteBack, ValueOut
    <3>2. CASE WriteStage(i) = MEM
      <4>1. i.op \in Load
        BY <1>1, <3>2 DEF WriteStage, EXECUTE, MEM, DECODE
      <4>2. m_write_data' = ReadLane(em'.ins, em'.alu, ram'[RamIndex(em'.alu)])
        BY <2>1, <3>2 DEF m_write_data, m_mem_read_data, RamIndex
      <4>3. m_write_data' = ReadLane(i, x, Mach.mem[x \div 4])
        BY <1>2, <1>6, <1>7, <2>1, <4>1, <4>2
      <4> QED BY <2>1, <3>2, <4>3 DEF EXECUTE, MEM, ValueOut
    <3>3. CASE WriteStage(i) = DECODE
      <4>1. m_write_data' = de.link
        BY <1>2, <2>1, <3>3 DEF m_write_data, DECODE, EXECUTE, MEM
      <4>2. ExtType(i) = "NONE"
        BY <3>3, WriterFacts DEF DECODE, MEM
      <4>3. de.link = U(Mach.pc + 8)
        BY <2>3, <3>3, WriterFacts DEF Pipeline, Linked, Mach
      <4> QED BY <2>1, <3>3, <4>1, <4>2, <4>3 DEF WriteBack, ValueOut, DECODE, EXECUTE, MEM
    <3> QED BY <3>1, <3>2, <3>3, WriterFacts
  <2>4. [r \in Reg |-> Pending(r)'] = m.grf
    <3>1. \A r \in Reg : Pending(r)' = IF r # 0 /\ r = WriteAddr(i) THEN v ELSE Pending(r)
      BY <1>4, <2>1, <2>3
    <3>2. g = [r \in Reg |-> Pending(r)]
      BY DEF Mach
    <3> HIDE DEF v, i, m, g
    <3>3. m.grf = IF WriteAddr(i) = 0 THEN g ELSE [g EXCEPT ![WriteAddr(i)] = v]
      BY <2>2
    <3> QED BY <3>1, <3>2, <3>3
  <2>5. mdu'.lo = m.lo /\ mdu'.hi = m.hi
    BY <1>3, <2>2
  <2>6. CASE i.op \notin Store
    <3>1. PendingRam' = PendingRam
      BY <1>2, <2>1, <2>6, WriterFacts DEF PendingRam
    <3> QED BY <1>9, <2>4, <2>5, <2>6, <3>1
  <2>7. CASE i.op \in Store
    <3>1. m_read_data' = P1
      <4>1. m_read_data' = IF rt = 0 THEN 0 ELSE IF rt = mw'.wa THEN w_write_data' ELSE em'.v1
        BY <2>1 DEF m_read_data
      <4>2. CASE rt = 0
        BY <4>1, <4>2, SignalsTyped
      <4>3. CASE rt # 0 /\ rt = WriteAddr(em.ins)
        BY <1>2, <4>1, <4>3 DEF Pending
      <4>4. CASE rt # 0 /\ rt # WriteAddr(em.ins)
        BY <1>2, <4>1, <4>4, ExecuteReads DEF Pipeline
      <4> QED BY <4>2, <4>3, <4>4
    <3>2. real_write_data' = WriteLane(i, a, PendingRam[RamIndex(a)], P1)
      <4>1. real_write_data' = WriteLane(em'.ins, em'.alu, ram'[RamIndex(em'.alu)], m_read_data')
        BY DEF real_write_data, RamIndex
      <4> QED BY <1>2, <1>6, <2>1, <2>7, <3>1, <4>1
    <3>3. PendingRam' = [ram' EXCEPT ![RamIndex(em'.alu)] = real_write_data']
      BY <2>1, <2>7, WriterFacts DEF PendingRam, RamIndex
    <3>4. PendingRam' = [PendingRam EXCEPT ![RamIndex(a)] = WriteLane(i, a, PendingRam[RamIndex(a)], P1)]
      BY <1>2, <1>6, <2>7, <3>2, <3>3
    <3>5. m.mem = [Mach.mem EXCEPT ![a \div 4] = WriteLane(i, a, Mach.mem[a \div 4], P1)]
      BY <1>1, <2>2, <2>7
    <3>6. DOMAIN Mach.mem = 0 .. WORDS \div 4 - 1
      BY DEF Mach
    <3>7. m.mem[a \div 4] = WriteLane(i, a, PendingRam[RamIndex(a)], P1)
      BY <1>7, <3>5, <3>6
    <3> QED BY <1>9, <2>4, <2>5, <2>7, <3>4, <3>7
  <2> QED BY <2>6, <2>7
<1> QED BY <1>8, <1>9

\* Where the pipeline is after a clock in which an instruction leaves E.
LEMMA ExecutePcs ==
  ASSUME Data, Pipeline, Next, Real(de)
  PROVE  IF Runs(fd.pc) THEN OldestPc' = fd.pc /\ SecondPc' = After ELSE OldestPc' = STOP /\ SecondPc' = STOP
<1>1. halted' <=> should_halt
  BY FrontFacts
<1>2. CASE Real(fd)
  <2>1. Runs(fd.pc) /\ f_pc = After
    BY <1>2 DEF Pipeline, Fetched, Holds, TargetBehind
  <2>2. CASE stall
    <3>1. ~Real(de)' /\ Real(fd)' /\ fd' = fd /\ f_pc' = f_pc
      BY <1>2, <2>2, FrontFacts, BubbleFacts DEF Real
    <3> QED BY <2>1, <3>1 DEF OldestPc, SecondPc
  <2>3. CASE ~stall
    <3>1. Real(de)' /\ de'.pc = fd.pc /\ fd'.pc = f_pc
      BY <1>2, <2>3, FrontFacts DEF Real
    <3> QED BY <2>1, <3>1 DEF OldestPc, SecondPc
  <2> QED BY <2>2, <2>3
<1>3. CASE ~Real(fd)
  <2>1. halted /\ ~Runs(fd.pc) /\ should_halt
    BY <1>3, ShouldHalt DEF Pipeline, Halting
  <2>2. ~Real(de)' /\ ~Real(fd)'
    BY <1>3, <2>1, FrontFacts, BubbleFacts DEF Real, f_instr
  <2>3. should_halt'
    BY <1>1, <2>1 DEF should_halt
  <2> QED BY <2>1, <2>2, <2>3 DEF OldestPc, SecondPc
<1> QED BY <1>2, <1>3

\* An instruction that leaves E completes in the sequential machine.
LEMMA ExecuteStep ==
  ASSUME P6Assumption, IsaInv, Next, Real(de)
  PROVE  A!Next
<1> DEFINE i == de.ins
           a == Em!Addr(i, Mach)
           bad == Em!Exception(i, Mach) # 0
           m == IF bad THEN Mach ELSE Em!Effect(i, Mach)
<1> USE DEF IsaInv
<1>1. OldestPc = de.pc /\ SecondPc = fd.pc /\ de.pc # STOP
  <2>1. de.pc \in Nat
    BY WordsAssumption DEF Data, Word
  <2>2. de.pc # STOP
    BY <2>1 DEF STOP
  <2> QED BY <2>2 DEF OldestPc, SecondPc
<1>2. A!Instr = i
  BY <1>1 DEF A!Instr, A!Align, Align, Pipeline, Fetched, Holds
<1>3. A!M = Mach
  BY <1>1 DEF A!M, Mach, A!WORDS, WORDS
<1>4. /\ [r \in Reg |-> Pending(r)'] = m.grf
      /\ mdu'.lo = m.lo /\ mdu'.hi = m.hi
      /\ PendingRam' = IF bad \/ i.op \notin Store THEN PendingRam
                       ELSE [PendingRam EXCEPT ![RamIndex(a)] = m.mem[a \div 4]]
  BY Results
<1>5. /\ A!E!Effect(A!Instr, A!M) = Em!Effect(i, Mach)
      /\ A!E!Exception(A!Instr, A!M) = Em!Exception(i, Mach)
      /\ A!E!BranchResult(A!Instr, A!M) = Em!BranchResult(i, Mach)
      /\ A!E!Addr(A!Instr, A!M) = a
  BY <1>2, <1>3, Semantics
<1>6. A!Stored(m) = IF i.op \in Store THEN [PendingRam EXCEPT ![RamIndex(a)] = m.mem[a \div 4]] ELSE PendingRam
  BY <1>2, <1>5 DEF A!Stored, A!Store, Store, RamIndex
<1>7. IF Runs(fd.pc) THEN OldestPc' = fd.pc /\ SecondPc' = After ELSE OldestPc' = STOP /\ SecondPc' = STOP
  BY ExecutePcs
<1>8. A!Runs(fd.pc, After) <=> Runs(fd.pc)
  BY DEF A!Runs, Runs, A!InMemory, A!Align, Align
<1>9. text' = text
  BY FrontFacts
<1>10. After = IF A!E!BranchResult(A!Instr, A!M) = <<>> THEN A!U(SecondPc + 4) ELSE A!E!BranchResult(A!Instr, A!M)[1]
  BY <1>1, <1>5 DEF After, A!U, U, A!WORDS, WORDS
<1>11. m = IF A!E!Exception(A!Instr, A!M) # 0 THEN A!M ELSE A!E!Effect(A!Instr, A!M)
  BY <1>3, <1>5
<1>12. PendingRam' = IF A!E!Exception(A!Instr, A!M) # 0 THEN PendingRam ELSE A!Stored(m)
  BY <1>4, <1>5, <1>6
<1> HIDE DEF m, a, bad, i
<1>13. [r \in Reg |-> Pending(r)]' = m.grf /\ [lo |-> mdu.lo, hi |-> mdu.hi]' = [lo |-> m.lo, hi |-> m.hi]
  BY <1>4
<1>14. A!Execute
  BY <1>1, <1>7, <1>8, <1>9, <1>10, <1>11, <1>12, <1>13 DEF A!Execute, A!STOP, STOP
<1> QED BY <1>1, <1>14 DEF A!Next, A!STOP, STOP

\* Where the pipeline is after a clock in which none does.
LEMMA StutterPcs ==
  ASSUME P6Assumption, Data, Pipeline, Next, ~Real(de)
  PROVE  OldestPc' = OldestPc /\ SecondPc' = SecondPc
<1>1. text' = text /\ (halted' <=> should_halt)
  BY FrontFacts
<1>2. CASE Real(fd)
  <2>1. CASE stall
    BY <1>2, <2>1, FrontFacts, BubbleFacts DEF OldestPc, SecondPc, Real
  <2>2. CASE ~stall
    BY <1>2, <2>2, FrontFacts DEF OldestPc, SecondPc, Real
  <2> QED BY <2>1, <2>2
<1>3. CASE ~Real(fd) /\ should_halt
  <2>1. ~Real(de)' /\ ~Real(fd)'
    BY <1>3, FrontFacts, BubbleFacts DEF Real, f_instr
  <2>2. should_halt'
    BY <1>1, <1>3 DEF should_halt
  <2> QED BY <1>3, <2>1, <2>2 DEF OldestPc, SecondPc
<1>4. CASE ~Real(fd) /\ ~should_halt
  <2>1. CASE stall
    <3>1. ~Real(de)' /\ ~Real(fd)' /\ f_pc' = f_pc
      BY <1>4, <2>1, FrontFacts, BubbleFacts DEF Real
    <3>2. ~should_halt'
      BY <1>1, <1>4, <3>1 DEF should_halt
    <3> QED BY <1>4, <3>1, <3>2 DEF OldestPc, SecondPc
  <2>2. CASE ~stall
    <3>1. Align(f_pc) \in DOMAIN text
      BY <1>4 DEF should_halt
    <3>2. f_instr.op # "bubble"
      BY <1>4, <3>1, ProgramReal DEF f_instr
    <3>3. fd.ins.op \notin Branch \cup {"eret"}
      <4>1. "bubble" \notin Branch \cup {"eret"}
        BY DEF Branch, BranchRT, BranchZ, JumpReg
      <4> QED BY <1>4, <4>1 DEF Real
    <3>4. NextPc(fd.ins, f_pc, d_read0, d_read1, 0) = U(f_pc + 4)
      BY <3>3 DEF NextPc, ShouldBranch, Branch, BranchRT, BranchZ, JumpReg
    <3>5. ~Real(de)' /\ Real(fd)' /\ fd'.pc = f_pc /\ f_pc' = U(f_pc + 4)
      BY <1>4, <2>2, <3>2, <3>4, FrontFacts DEF Real
    <3> QED BY <1>4, <3>5 DEF OldestPc, SecondPc
  <2> QED BY <2>1, <2>2
<1> QED BY <1>2, <1>3, <1>4

\* A clock in which no instruction leaves E is none of the sequential machine's.
LEMMA StutterStep ==
  ASSUME P6Assumption, IsaInv, Next, ~Real(de)
  PROVE  UNCHANGED A!vars
<1> USE DEF IsaInv
<1>1. OldestPc' = OldestPc /\ SecondPc' = SecondPc /\ text' = text
  BY StutterPcs, FrontFacts
<1>2. WriteAddr(em'.ins) = 0 /\ MemMode(em'.ins) = "NONE"
  BY StageFacts, NothingDone, BubbleFacts DEF Real
<1>3. \A r \in Reg : Pending(r)' = Pending(r)
  BY <1>2, PendingStep
<1>4. [r \in Reg |-> Pending(r)]' = [r \in Reg |-> Pending(r)]
  BY <1>3
<1>5. PendingRam' = PendingRam
  BY <1>2, StageFacts DEF PendingRam
<1>6. mdu'.lo = mdu.lo /\ mdu'.hi = mdu.hi
  <2>1. mdu' = IF mdu.busy > 0 THEN [mdu EXCEPT !.busy = @ - 1] ELSE mdu
    BY NothingDone DEF Next, MduNext, Real
  <2> QED BY <2>1 DEF Data
<1> QED BY <1>1, <1>4, <1>5, <1>6 DEF A!vars

\* A clock is a step of the sequential machine or none.
LEMMA IsaStep ==
  ASSUME P6Assumption, IsaInv, [Next]_vars
  PROVE  Step
<1>1. CASE Next /\ Real(de)
  BY <1>1, ExecuteStep DEF Step
<1>2. CASE Next /\ ~Real(de)
  BY <1>2, StutterStep DEF Step
<1>3. CASE UNCHANGED vars
  <2>1. text' = text /\ OldestPc' = OldestPc /\ SecondPc' = SecondPc
    BY <1>3 DEF vars, OldestPc, SecondPc, Real, should_halt
  <2>2. \A r : Pending(r)' = Pending(r)
    BY <1>3 DEF vars, Pending, w_write_data, m_write_data, m_mem_read_data, RamIndex
  <2>3. PendingRam' = PendingRam
    BY <1>3 DEF vars, PendingRam, real_write_data, m_read_data, w_write_data, RamIndex
  <2>4. [r \in Reg |-> Pending(r)]' = [r \in Reg |-> Pending(r)] /\ [lo |-> mdu.lo, hi |-> mdu.hi]' = [lo |-> mdu.lo, hi |-> mdu.hi]
    BY <1>3, <2>2 DEF vars
  <2> QED BY <2>1, <2>3, <2>4 DEF Step, A!vars
<1> QED BY <1>1, <1>2, <1>3

\* Reset leaves the machine in front of the first instruction.
LEMMA IsaStarts ==
  ASSUME Init
  PROVE  Starts
<1> USE DEF Init
<1>1. ~Real(de) /\ ~Real(fd) /\ (should_halt <=> ~Runs(TEXT_MIN))
  BY BubbleFacts, ShouldHalt DEF Real
<1>2. A!Runs(TEXT_MIN, TEXT_MIN + 4) <=> Runs(TEXT_MIN)
  BY DEF A!Runs, Runs, A!InMemory, A!Align, Align
<1>3. Runs(TEXT_MIN) => U(TEXT_MIN + 4) = TEXT_MIN + 4
  <2> SUFFICES ASSUME TEXT_MIN \in TEXT_MIN .. TEXT_MAX - 1 PROVE U(TEXT_MIN + 4) = TEXT_MIN + 4
    BY DEF Runs
  <2>1. TEXT_MIN \in 0 .. WORDS - 1 /\ TEXT_MAX \in 0 .. WORDS - 1 /\ WORDS \in Nat \ {0}
    BY ForwardingAssumption, WordsDivisible DEF Word
  <2>2. TEXT_MIN % 4 = 0 /\ TEXT_MAX % 4 = 0
    BY ForwardingAssumption
  <2>3. TEXT_MIN + 4 \in 0 .. WORDS - 1
    BY <2>1, <2>2
  <2> QED BY <2>1, <2>3, SmallMod DEF U
<1>4. A!Starting
  <2>1. CASE Runs(TEXT_MIN)
    BY <1>1, <1>2, <1>3, <2>1 DEF A!Starting, OldestPc, SecondPc
  <2>2. CASE ~Runs(TEXT_MIN)
    BY <1>1, <1>2, <2>2 DEF A!Starting, OldestPc, SecondPc, A!STOP, STOP
  <2> QED BY <2>1, <2>2
<1>5. \A r \in Reg : Pending(r) = 0
  BY BubbleFacts DEF Pending
<1>6. [r \in Reg |-> Pending(r)] = [r \in 0 .. NREG - 1 |-> 0]
  BY <1>5 DEF Reg
<1>7. [lo |-> mdu.lo, hi |-> mdu.hi] = [lo |-> 0, hi |-> 0]
  BY DEF MduReset
<1>8. PendingRam = [a \in 0 .. RAM_WORDS - 1 |-> 0]
  BY BubbleFacts DEF PendingRam
<1> QED BY <1>4, <1>6, <1>7, <1>8 DEF Starts, A!Init

\* The pipeline implements the sequential machine: for every program, its instructions complete
\* in order, one at a time, with the results, the branches and the halts of the emulator, however
\* they overlap, wait and forward in the stages.
THEOREM P6Implements ==
  ASSUME P6Assumption
  PROVE  Spec => A!Spec
<1>1. Init => IsaInv /\ Starts
  BY IsaInvInit, IsaStarts
<1>2. IsaInv /\ [Next]_vars => IsaInv' /\ Step
  BY IsaInvStep, IsaStep
<1> QED BY <1>1, <1>2, PTL DEF Spec, Starts, Step, A!Spec
=============================================================================
