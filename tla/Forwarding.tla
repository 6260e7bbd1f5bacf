----------------------------- MODULE Forwarding -----------------------------
(***************************************************************************)
(* What the pipelined CPUs P6 and P7 have in common: their registers, the   *)
(* forwarding of results to the stages that read them and the conditions    *)
(* under which an instruction waits in D.  P7/mips.v:88-118 and             *)
(* P6/mips.v:55-83 are the same equations.                                  *)
(***************************************************************************)
EXTENDS Execute, Memory

CONSTANTS NREG,                 \* general registers: 32
          TEXT_MIN, TEXT_MAX,   \* instruction memory: [16r3000, 16r5000), in P6 [16r3000, 16r7000)
          Programs              \* the programs considered: partial maps from word address to instruction

ASSUME ForwardingAssumption ==
  /\ NREG \in Nat \ {0} /\ RA \in 0 .. NREG - 1
  /\ TEXT_MIN \in Word /\ TEXT_MAX \in Word /\ TEXT_MIN % 4 = 0 /\ TEXT_MAX % 4 = 0

Reg == 0 .. NREG - 1
\* rd also numbers CP0 registers, which are not scaled down with NREG.
Instruction == {i \in [op : STRING, rs : Reg, rt : Reg, rd : 0 .. 31, imm : Word] : WriteAddr(i) \in Reg}

ASSUME TextAssumption == \A p \in Programs : \A a \in DOMAIN p : p[a] \in Instruction

\* No delay slot holds a branch: such programs are unpredictable in the architecture,
\* and the co-tester's generator makes no program that executes one.
ASSUME ProgramsAssumption ==
  \A p \in Programs : \A a, b \in DOMAIN p : b = U(a + 4) /\ p[a].op \in Branch => p[b].op \notin Branch

VARIABLES
  text,     \* the program loaded at reset; never written
  f_pc,     \* address being fetched
  fd,       \* F/D: stat, pc, ins, exc; stat and exc in P7 alone, as in the next two
  de,       \* D/E: also the operands read in D (v0, v1) and the link value
  em,       \* E/M: also the second operand, the result so far and the ALU output
  mw,       \* M/W: the register to write, the value and its extension
  grf,      \* general registers
  mdu,      \* HI, LO and the busy counter
  ram       \* data memory
-----------------------------------------------------------------------------
(* Combinational signals of the current cycle. *)

w_write_data == WriteBack(mw.ext, mw.wd)

\* The register file shows a value in the cycle it is being written.
GrfRead(r) == IF r = mw.wa THEN w_write_data ELSE grf[r]

EmReady == WriteStage(em.ins) <= EXECUTE     \* M's result was known when it left E

d_read_data(r) ==
  IF r = 0 THEN 0
  ELSE IF r = WriteAddr(de.ins) /\ WriteStage(de.ins) <= DECODE THEN de.link
  ELSE IF r = WriteAddr(em.ins) /\ EmReady THEN em.wd
  ELSE GrfRead(r)

e_read_data(r, v) ==
  IF r = 0 THEN 0
  ELSE IF r = WriteAddr(em.ins) /\ EmReady THEN em.wd
  ELSE IF r = mw.wa THEN w_write_data
  ELSE v

m_read_data == IF em.ins.rt = 0 THEN 0
               ELSE IF em.ins.rt = mw.wa THEN w_write_data ELSE em.v1

d_read0 == d_read_data(fd.ins.rs)
d_read1 == d_read_data(fd.ins.rt)
e_read0 == e_read_data(de.ins.rs, de.v0)
e_read1 == e_read_data(de.ins.rt, de.v1)
e_in0 == In0(de.ins, e_read0)
e_in1 == In1(de.ins, e_read1)
e_alu_result == AluResult(de.ins, e_in0, e_in1, mdu)

\* The instruction in D waits when a result it reads is not there by the stage that needs it.
\* em_write_stage - 1 is unsigned: for a result known in D it wraps to the largest value.
Needs(r, stage) == \/ r = fd.ins.rs /\ stage > ReadStage0(fd.ins)
                   \/ r = fd.ins.rt /\ stage > ReadStage1(fd.ins)
stall_de == WriteAddr(de.ins) # 0 /\ Needs(WriteAddr(de.ins), WriteStage(de.ins))
stall_em == WriteAddr(em.ins) # 0 /\
            Needs(WriteAddr(em.ins), IF WriteStage(em.ins) = 0 THEN WORDS - 1 ELSE WriteStage(em.ins) - 1)
stall_alu == fd.ins.op \in HiLoOp /\ AluBusy(mdu, de.ins)

Killed(s) == [s EXCEPT !.ins = Bubble]      \* write address, memory, overflow and CP0 off
=============================================================================
