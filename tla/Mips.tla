-------------------------------- MODULE Mips --------------------------------
(***************************************************************************)
(* The pipelined MIPS CPU of P7/mips.v: five stages F, D, E, M, W with      *)
(* forwarding and stalls, branch delay slots, precise exceptions and        *)
(* interrupts taken in M, HI/LO, data memory and two timers on a bridge.    *)
(* One step is one rising clock edge after reset.  The pipeline registers   *)
(* are records named as in the code (fd, de, em and mw); a signal that the  *)
(* decoder derives from the instruction (its read and write stages, its ALU *)
(* and memory controls) is recomputed from the instruction the stage holds. *)
(***************************************************************************)
EXTENDS Forwarding, Bridge, Cp0, TC

CONSTANTS HANDLER,              \* exception handler: 16r4180
          External              \* the external interrupt line (2), or {} where it is tied low

ASSUME MipsAssumption ==
  /\ HANDLER \in TEXT_MIN .. TEXT_MAX - 4 /\ HANDLER % 4 = 0
  /\ External \subseteq {2} /\ External \cup Timers \subseteq Lines

VARIABLES
  cp0,      \* coprocessor 0
  tc        \* the timers

vars == <<text, f_pc, fd, de, em, mw, grf, mdu, ram, cp0, tc>>

\* Instruction memory: a bad address raises ADEL; an unwritten word reads as nop.
FetchExc(pc) == IF pc < TEXT_MIN \/ pc >= TEXT_MAX \/ pc % 4 # 0 THEN ADEL ELSE 0
Fetch(pc) == IF FetchExc(pc) = 0 /\ pc \in DOMAIN text THEN text[pc] ELSE Nop
-----------------------------------------------------------------------------
(* Combinational signals of the current cycle. *)

stall_epc == fd.ins.op = "eret" /\ de.ins.op = "mtc0" /\ de.ins.rd = EPC
stall_shallow == stall_de \/ stall_alu \/ stall_epc     \* Fault: a load in M is not waited for
stall == stall_de \/ stall_em \/ stall_alu \/ stall_epc

\* The macro PC: the oldest instruction that has not left M.
addr == IF em.stat # "EMPTY" THEN em.pc ELSE IF de.stat # "EMPTY" THEN de.pc
        ELSE IF fd.stat # "EMPTY" THEN fd.pc ELSE f_pc

e_exc == ExecuteExc(de.ins, e_in0, e_in1)
m_exc == MemExc(em.ins, em.alu)
cp0_exc == IF em.exc # 0 THEN em.exc ELSE m_exc
cp0_hw_int(ext) == ext \cup {k \in Timers : IRQ(tc[k])}
cp0_int_req(ext) == IntReq(cp0, cp0_exc, cp0_hw_int(ext))
cp0_epc == IF em.ins.op = "mtc0" /\ em.ins.rd = EPC THEN Align(m_read_data) ELSE cp0.epc

\* The write enable of the devices.
dev_we_early(ext) == BridgeEnable(em.ins, em.alu) /\ MemMode(em.ins) = "WRITE"   \* Fault: even when flushed
dev_we(ext) == BridgeEnable(em.ins, em.alu) /\ MemMode(em.ins) = "WRITE" /\ ~cp0_int_req(ext)

m_mem_read_data ==
  IF BridgeEnable(em.ins, em.alu)
  THEN LET k == Selected(em.alu) IN IF k = {} THEN 0 ELSE ReadReg(tc[CHOOSE d \in k : TRUE], DevReg(em.alu))
  ELSE ReadLane(em.ins, em.alu, RamWord(ram, em.alu))
m_write_data == IF em.ins.op = "mfc0" THEN Cp0Read(cp0, em.ins.rd)
                ELSE IF WriteStage(em.ins) = MEM THEN m_mem_read_data ELSE em.wd

d_next_pc == NextPc(fd.ins, f_pc, d_read0, d_read1, cp0_epc)
-----------------------------------------------------------------------------
(* Reset, and the contents of a flushed stage. *)

FdEmpty(pc) == [stat |-> "EMPTY", pc |-> pc, ins |-> Nop, exc |-> 0]

Init ==
  /\ text \in Programs
  /\ f_pc = TEXT_MIN
  /\ fd = FdEmpty(0)
  /\ de = [stat |-> "EMPTY", pc |-> 0, ins |-> Bubble, exc |-> 0, v0 |-> 0, v1 |-> 0, link |-> 0]
  /\ em = [stat |-> "EMPTY", pc |-> 0, ins |-> Bubble, exc |-> 0, v1 |-> 0, wd |-> 0, alu |-> 0]
  /\ mw = [pc |-> 0, wa |-> 0, wd |-> 0, ext |-> "NONE"]
  /\ grf = [r \in Reg |-> 0]
  /\ mdu = MduReset
  /\ ram = [a \in 0 .. RAM_WORDS - 1 |-> 0]
  /\ cp0 = Cp0Reset
  /\ tc = [k \in Timers |-> TimerReset]

\* The stages F to E of a cycle whose D stage hands its instruction on or waits.
DecodeOut == [stat |-> fd.stat, pc |-> fd.pc, ins |-> fd.ins,
              exc |-> IF fd.exc # 0 THEN fd.exc ELSE DecodeExc(fd.ins),
              v0 |-> d_read0, v1 |-> d_read1, link |-> U(f_pc + 4)]
ExecuteOut == [stat |-> de.stat, pc |-> de.pc, ins |-> de.ins,
               exc |-> IF de.exc # 0 THEN de.exc ELSE e_exc,
               v1 |-> e_read1, alu |-> e_alu_result,
               wd |-> IF WriteStage(de.ins) = EXECUTE THEN e_alu_result ELSE de.link]

\* Fault: the bubble forgets that a delay slot is waiting.
StallForgetful ==
  /\ stall
  /\ de' = [Killed(DecodeOut) EXCEPT !.stat = "EMPTY"]
  /\ UNCHANGED <<f_pc, fd>>

\* D waits: F and D keep their instruction and E gets a bubble with its pc and status.
Stall ==
  /\ stall
  /\ de' = Killed(DecodeOut)
  /\ UNCHANGED <<f_pc, fd>>

\* Fault: the instruction behind an eret is not discarded.
AdvanceUnsquashed ==
  /\ ~stall
  /\ f_pc' = d_next_pc
  /\ de' = DecodeOut
  /\ fd' = [stat |-> NextStat(fd.ins), pc |-> f_pc, exc |-> FetchExc(f_pc), ins |-> Fetch(f_pc)]

\* D hands on: an eret discards the instruction fetched behind it, but not its exc.
Advance ==
  /\ ~stall
  /\ f_pc' = d_next_pc
  /\ de' = DecodeOut
  /\ fd' = [stat |-> NextStat(fd.ins), pc |-> f_pc, exc |-> FetchExc(f_pc),
            ins |-> IF NextStat(fd.ins) = "EMPTY" THEN Nop ELSE Fetch(f_pc)]

\* M retires its instruction to W.
Retire ==
  /\ em' = ExecuteOut
  /\ mw' = [pc |-> em.pc, wa |-> WriteAddr(em.ins), wd |-> m_write_data, ext |-> ExtType(em.ins)]

\* An exception or interrupt: every stage before W is flushed and the handler fetched.
Trap ==
  /\ f_pc' = HANDLER
  /\ fd' = FdEmpty(IF stall THEN fd.pc ELSE f_pc)
  /\ de' = Killed([DecodeOut EXCEPT !.stat = "EMPTY", !.exc = 0])
  /\ em' = Killed([ExecuteOut EXCEPT !.stat = "EMPTY", !.exc = 0])
  /\ mw' = [pc |-> em.pc, wa |-> 0, wd |-> m_write_data, ext |-> ExtType(em.ins)]

\* What every edge does: registers, HI/LO, memory, CP0 and timers.
State(ext) ==
  LET intReq == cp0_int_req(ext)
  IN /\ grf' = IF mw.wa # 0 THEN [grf EXCEPT ![mw.wa] = w_write_data] ELSE grf
     /\ mdu' = MduNext(mdu, de.ins, e_in0, e_in1, intReq)
     /\ ram' = RamNext(ram, em.ins, em.alu, m_read_data, intReq)
     /\ cp0' = Cp0Next(cp0, em.ins, m_read_data, em.stat = "DS", addr, cp0_exc, cp0_hw_int(ext))
     /\ tc' = [k \in Timers |-> IF dev_we(ext) /\ k \in Selected(em.alu)
                                THEN WriteReg(tc[k], DevReg(em.alu), m_read_data) ELSE Tick(tc[k])]
     /\ UNCHANGED text

Cycle(ext) == /\ State(ext)
              /\ \/ cp0_int_req(ext) /\ Trap
                 \/ ~cp0_int_req(ext) /\ Retire /\ (Stall \/ Advance)

\* The external line is sampled at every edge.
Next == \E ext \in SUBSET External : Cycle(ext)

\* The clock does not stop.
Fairness == WF_vars(Next)
Spec == Init /\ [][Next]_vars /\ Fairness
-----------------------------------------------------------------------------
(* Properties *)

Stat == {"EMPTY", "NORMAL", "DS"}
ExcCode == {0, ADEL, ADES, RI, OV}

\* Every register of the design holds a value of its type: first those that steer
\* the pipeline, then those that hold data.
ControlOK ==
  /\ fd.stat \in Stat /\ fd.exc \in ExcCode
  /\ de.stat \in Stat /\ de.exc \in ExcCode
  /\ em.stat \in Stat /\ em.exc \in ExcCode
  /\ mw.wa \in Reg
  /\ mdu.busy \in 0 .. MULT_CYCLES + DIV_CYCLES
  /\ cp0.exc \in ExcCode /\ cp0.im \subseteq Lines /\ cp0.ip \subseteq Lines
DataOK ==
  /\ {f_pc, fd.pc, de.pc, em.pc, mw.pc} \subseteq Word
  /\ grf \in [Reg -> Word] /\ ram \in [0 .. RAM_WORDS - 1 -> Word]
  /\ {de.v0, de.v1, de.link, em.v1, em.wd, em.alu, mw.wd, mdu.lo, mdu.hi} \subseteq Word
  /\ cp0.epc \in Word /\ {cp0.ie, cp0.exl, cp0.bd} \subseteq {0, 1}
TypeOK == ControlOK /\ DataOK

\* The multiply/divide unit is idle whenever an instruction that uses it is in E: a busy
\* unit would drop the operation (stage_execute.v:60) or hand out a half-done HI or LO.
MduIdle == de.ins.op \in HiLoOp => mdu.busy = 0

\* cp0_bd looks at M alone (mips.v:122) although the instruction to resume may still be
\* in E or D: when M is empty, that instruction is never in a delay slot.
BdExact == em.stat = "EMPTY" => IF de.stat = "EMPTY" THEN fd.stat # "DS" ELSE de.stat # "DS"

\* An instruction marked as a delay slot sits right behind a branch of the program, in
\* whatever stage it is the oldest: EPC, four below it, names the branch to run again.
OldestStat == IF em.stat # "EMPTY" THEN em.stat ELSE IF de.stat # "EMPTY" THEN de.stat ELSE fd.stat
BehindBranch(pc) == \E a \in DOMAIN text : text[a].op \in Branch /\ pc = U(a + 4)
SlotBehindBranch == OldestStat = "DS" => BehindBranch(addr)

\* A timer's latch is up only once its count has run out and until it is loaded again:
\* no bus write, not even one to the count, leaves a line up over a running count.
IrqMeansExpired == \A k \in Timers :
  /\ tc[k].irq => tc[k].state \in {"IDLE", "INT"} /\ tc[k].count = 0
  /\ tc[k].state = "INT" => tc[k].irq

\* A timer that has started counting raises its latch or is switched off by software.
TimerExpires == \A k \in Timers :
  tc[k].state \in {"LOAD", "CNT"} ~> tc[k].irq \/ tc[k].ctrl.en = 0

\* No stall lasts: again and again an instruction, not a bubble, reaches M.
Reaches(s) == s.stat # "EMPTY" /\ s.ins.op # "bubble"
Progress == []<>Reaches(em)
=============================================================================
