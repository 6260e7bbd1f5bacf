----------------------------- MODULE MipsProofs -----------------------------
(***************************************************************************)
(* Theorems about the pipeline of Mips, for every program, width of a word, *)
(* number of registers, size of the memories, latency of the multiply and   *)
(* divide unit, set of timers and behaviour of the interrupt lines: first   *)
(* its invariants, then that it implements the sequential machine Seq, what *)
(* the runs pipeline, interrupts and soc check for some programs.  The      *)
(* invariant of the second part says what each stage knows of the           *)
(* instruction it holds and of the one behind it.                           *)
(***************************************************************************)
EXTENDS MipsSeq, DatapathProofs

\* A step of the pipeline, as the two ways a cycle can end.
LEMMA CycleCases ==
  ASSUME Next
  PROVE  \E ext \in SUBSET External : State(ext) /\ (Trap \/ (Retire /\ (Stall \/ Advance)))
BY DEF Next, Cycle

\* A nop is no branch, and a bubble no instruction.
LEMMA NopFacts == NextStat(Nop) = "NORMAL" /\ Nop.op \notin Branch /\ Bubble.op = "bubble"
BY DEF NextStat, Nop, Bubble, Branch, BranchRT, BranchZ, JumpReg
-----------------------------------------------------------------------------
(* Delay slots.  The instruction in F/D is the one its pc names, the fetch   *)
(* address runs one word ahead of it unless it redirects it, and a slot      *)
(* status never gets ahead of the branch it belongs to.                      *)

SlotInv ==
  /\ text \in Programs
  /\ fd.stat \in Stat
  /\ fd.stat = "EMPTY" => fd.ins = Nop
  /\ fd.stat # "EMPTY" => fd.ins = Fetch(fd.pc)
  /\ fd.stat = "NORMAL" => f_pc = U(fd.pc + 4)
  /\ fd.stat = "DS" => BehindBranch(fd.pc)
  /\ de.stat = "DS" => BehindBranch(de.pc)
  /\ em.stat = "DS" => BehindBranch(em.pc)

\* A branch is never in a delay slot, so the address after it is being fetched.
LEMMA BranchAhead ==
  ASSUME SlotInv, fd.ins.op \in Branch
  PROVE  BehindBranch(f_pc)
<1>1. fd.stat # "EMPTY" /\ fd.ins = Fetch(fd.pc)
  BY NopFacts DEF SlotInv
<1>2. fd.pc \in DOMAIN text /\ fd.ins = text[fd.pc]
  BY <1>1, NopFacts DEF Fetch
<1>3. fd.stat # "DS"
  BY <1>2, ProgramsAssumption DEF SlotInv, BehindBranch
<1>4. f_pc = U(fd.pc + 4)
  BY <1>1, <1>3 DEF SlotInv, Stat
<1> QED BY <1>2, <1>4 DEF BehindBranch

\* Reset puts nothing into a slot.
LEMMA SlotInit == Init => SlotInv
BY DEF Init, SlotInv, FdEmpty, Stat

\* A clock moves each status along with its instruction.
LEMMA SlotStep == SlotInv /\ [Next]_vars => SlotInv'
<1> SUFFICES ASSUME SlotInv, [Next]_vars PROVE SlotInv'
  OBVIOUS
<1>1. CASE UNCHANGED vars
  BY <1>1 DEF SlotInv, vars, Fetch, FetchExc, BehindBranch
<1>2. CASE Next
  <2>1. PICK ext \in SUBSET External : State(ext) /\ (Trap \/ (Retire /\ (Stall \/ Advance)))
    BY <1>2, CycleCases
  <2>2. text' = text
    BY <2>1 DEF State
  <2>3. \A a : BehindBranch(a)' <=> BehindBranch(a)
    BY <2>2 DEF BehindBranch
  <2>4. CASE Trap
    BY <2>2, <2>4 DEF Trap, SlotInv, Stat, FdEmpty, Killed, DecodeOut, ExecuteOut
  <2>5. CASE Retire /\ Stall
    <3>1. em'.stat = de.stat /\ em'.pc = de.pc /\ de'.stat = fd.stat /\ de'.pc = fd.pc
      BY <2>5 DEF Retire, Stall, Killed, DecodeOut, ExecuteOut
    <3>2. f_pc' = f_pc /\ fd' = fd
      BY <2>5 DEF Stall
    <3> QED BY <2>2, <2>3, <3>1, <3>2 DEF SlotInv, Fetch, FetchExc, BehindBranch
  <2>6. CASE Retire /\ Advance
    <3>1. em'.stat = de.stat /\ em'.pc = de.pc /\ de'.stat = fd.stat /\ de'.pc = fd.pc
      BY <2>6 DEF Retire, Advance, DecodeOut, ExecuteOut
    <3>2. /\ fd'.stat = NextStat(fd.ins) /\ fd'.pc = f_pc
          /\ fd'.ins = IF NextStat(fd.ins) = "EMPTY" THEN Nop ELSE Fetch(f_pc)
          /\ f_pc' = d_next_pc
      BY <2>6 DEF Advance
    <3>3. fd'.stat \in Stat
      BY <3>2 DEF NextStat, Stat
    <3>4. fd'.stat = "NORMAL" => f_pc' = U(fd'.pc + 4)
      <4>1. SUFFICES ASSUME fd'.stat = "NORMAL" PROVE f_pc' = U(f_pc + 4)
        BY <3>2
      <4>2. fd.ins.op \notin Branch \cup {"eret"}
        BY <3>2, <4>1 DEF NextStat
      <4> QED BY <3>2, <4>2 DEF d_next_pc, NextPc, ShouldBranch, Branch, BranchRT, BranchZ, JumpReg
    <3>5. fd'.stat = "DS" => BehindBranch(fd'.pc)
      BY <3>2, BranchAhead DEF NextStat
    <3>6. fd'.stat # "EMPTY" => fd'.ins = Fetch(fd.pc)'
      BY <2>2, <3>2 DEF Fetch, FetchExc
    <3> QED BY <2>2, <2>3, <3>1, <3>2, <3>3, <3>4, <3>5, <3>6 DEF SlotInv, BehindBranch
  <2> QED BY <2>1, <2>4, <2>5, <2>6
<1> QED BY <1>1, <1>2

\* Wherever the oldest instruction is, when it is marked as a delay slot the word before
\* it is a branch of the program: restarting at EPC repeats the branch (mips.v:122, cp0.v:61).
THEOREM SlotBehindBranchHolds == Spec => []SlotBehindBranch
<1>1. SlotInv => SlotBehindBranch
  BY DEF SlotInv, SlotBehindBranch, OldestStat, addr
<1> QED BY <1>1, SlotInit, SlotStep, PTL DEF Spec
-----------------------------------------------------------------------------
(* The BD bit. *)

BdInv ==
  /\ fd.stat = "EMPTY" => fd.ins = Nop
  /\ de.stat = "EMPTY" => fd.stat # "DS"
  /\ em.stat = "EMPTY" => de.stat # "DS"

\* After reset no stage holds a delay slot.
LEMMA BdInit == Init => BdInv
BY DEF Init, BdInv, FdEmpty

\* A slot status never gets ahead of the branch in front of it.
LEMMA BdStep == BdInv /\ [Next]_vars => BdInv'
<1> SUFFICES ASSUME BdInv, [Next]_vars PROVE BdInv'
  OBVIOUS
<1>1. CASE UNCHANGED vars
  BY <1>1 DEF BdInv, vars
<1>2. CASE Trap
  BY <1>2 DEF Trap, BdInv, FdEmpty, Killed, DecodeOut, ExecuteOut
<1>3. CASE Retire /\ Stall
  BY <1>3 DEF Retire, Stall, BdInv, Killed, DecodeOut, ExecuteOut
<1>4. CASE Retire /\ Advance
  BY <1>4, NopFacts DEF Retire, Advance, BdInv, DecodeOut, ExecuteOut
<1> QED BY <1>1, <1>2, <1>3, <1>4, CycleCases

\* Looking at M alone for the BD bit is enough (mips.v:122): when M is empty, the
\* instruction EPC is taken from is never in a delay slot.
THEOREM BdExactHolds == Spec => []BdExact
<1>1. BdInv => BdExact
  BY DEF BdInv, BdExact
<1> QED BY <1>1, BdInit, BdStep, PTL DEF Spec
-----------------------------------------------------------------------------
(* The multiply/divide unit. *)

MduTyped(m) == /\ m = [lo |-> m.lo, hi |-> m.hi, busy |-> m.busy]
               /\ m.busy \in 0 .. MULT_CYCLES + DIV_CYCLES
MduInv == MduTyped(mdu) /\ MduIdle

\* The unit keeps its counter in range, and only the four long operations start it.
LEMMA MduNextTyped ==
  ASSUME NEW m, MduTyped(m), NEW i, NEW a, NEW b, NEW intReq \in BOOLEAN
  PROVE  /\ MduTyped(MduNext(m, i, a, b, intReq))
         /\ m.busy = 0 /\ i.op \notin MulDiv => MduNext(m, i, a, b, intReq).busy = 0
<1> DEFINE start == MduStart(m, i, a, b)
<1> USE CyclesAssumption
<1>1. /\ start = [lo |-> start.lo, hi |-> start.hi, busy |-> start.busy]
      /\ start.busy \in {m.busy, MULT_CYCLES, DIV_CYCLES}
      /\ i.op \notin MulDiv => start.busy = m.busy
  <2>1. CASE i.op \in {"mult", "multu"}
    BY <2>1 DEF MduStart, HiLo, MulDiv
  <2>2. CASE i.op \in {"div", "divu"}
    BY <2>2 DEF MduStart, MulDiv
  <2>3. CASE i.op \in {"mtlo", "mthi"}
    BY <2>3 DEF MduStart, MduTyped
  <2>4. CASE i.op \notin {"mult", "multu", "div", "divu", "mtlo", "mthi"}
    BY <2>4 DEF MduStart, MduTyped
  <2> QED BY <2>1, <2>2, <2>3, <2>4
<1>2. start.busy \in 0 .. MULT_CYCLES + DIV_CYCLES
  BY <1>1 DEF MduTyped
<1>3. CASE m.busy > 0
  BY <1>3 DEF MduNext, MduTyped
<1>4. CASE ~(m.busy > 0)
  BY <1>1, <1>2, <1>4 DEF MduNext, MduTyped
<1> QED BY <1>3, <1>4

\* An instruction that uses the unit leaves D only when the unit is free and the
\* instruction ahead of it does not start it.
LEMMA NoStallMeansFree ==
  ASSUME MduInv, ~stall, fd.ins.op \in HiLoOp
  PROVE  mdu.busy = 0 /\ de.ins.op \notin MulDiv
BY DEF stall, stall_alu, AluBusy, MduInv, MduTyped

\* After reset the unit is idle.
LEMMA MduInit == Init => MduInv
BY CyclesAssumption, NopFacts
   DEF Init, MduInv, MduTyped, MduReset, MduIdle, HiLoOp, MulDiv, MoveFrom, MoveTo

\* The unit stays idle until an instruction that uses it has left E.
LEMMA MduStep == MduInv /\ [Next]_vars => MduInv'
<1> SUFFICES ASSUME MduInv, [Next]_vars PROVE MduInv'
  OBVIOUS
<1>1. CASE UNCHANGED vars
  BY <1>1 DEF MduInv, MduTyped, MduIdle, vars
<1>2. CASE Next
  <2>1. PICK ext \in SUBSET External : State(ext) /\ (Trap \/ (Retire /\ (Stall \/ Advance)))
    BY <1>2, CycleCases
  <2>2. mdu' = MduNext(mdu, de.ins, e_in0, e_in1, cp0_int_req(ext))
    BY <2>1 DEF State
  <2>3. cp0_int_req(ext) \in BOOLEAN
    BY DEF cp0_int_req, IntReq, HwIntReq
  <2>4. MduTyped(mdu') /\ (mdu.busy = 0 /\ de.ins.op \notin MulDiv => mdu'.busy = 0)
    BY <2>2, <2>3, MduNextTyped DEF MduInv
  <2>5. CASE Trap \/ Stall
    <3>1. de'.ins = Bubble
      BY <2>5 DEF Trap, Stall, Killed, DecodeOut
    <3>2. Bubble.op \notin HiLoOp
      BY NopFacts DEF HiLoOp, MulDiv, MoveFrom, MoveTo
    <3> QED BY <2>4, <3>1, <3>2 DEF MduInv, MduIdle, MduTyped
  <2>6. CASE Advance
    <3>1. de'.ins = fd.ins /\ ~stall
      BY <2>6 DEF Advance, DecodeOut
    <3> QED BY <2>4, <3>1, NoStallMeansFree DEF MduInv, MduIdle, MduTyped
  <2> QED BY <2>1, <2>5, <2>6
<1> QED BY <1>1, <1>2

\* The unit is idle whenever an instruction that uses it is in E, whatever the latencies
\* are and wherever exceptions strike: no operation is dropped (stage_execute.v:60) and
\* mflo and mfhi never read a result in progress.
THEOREM MduIdleHolds == Spec => []MduIdle
<1>1. MduInv => MduIdle
  BY DEF MduInv
<1> QED BY <1>1, MduInit, MduStep, PTL DEF Spec
-----------------------------------------------------------------------------
(* Types of the registers that steer the pipeline. *)

Cp0Typed(c) ==
  /\ c = [ie |-> c.ie, exl |-> c.exl, im |-> c.im, bd |-> c.bd, exc |-> c.exc, ip |-> c.ip, epc |-> c.epc]
  /\ c.exc \in ExcCode /\ c.im \subseteq Lines /\ c.ip \subseteq Lines

ControlInv ==
  /\ ControlOK
  /\ text \in Programs
  /\ MduTyped(mdu)
  /\ Cp0Typed(cp0)
  /\ {WriteAddr(fd.ins), WriteAddr(de.ins), WriteAddr(em.ins)} \subseteq Reg

\* A nop and a bubble write to no register.
LEMMA BubbleWritesNothing == WriteAddr(Nop) = 0 /\ WriteAddr(Bubble) = 0 /\ 0 \in Reg
<1>1. 0 \in Reg
  BY ForwardingAssumption DEF Reg
<1> QED
  BY <1>1 DEF WriteAddr, Nop, Bubble, Arith3, AddSub, Logic, Compare, Shift, ShiftV, MoveFrom,
              ArithImm, AddImm, LogicImm, CmpImm, Load

\* What is fetched writes to a register, or to none.
LEMMA FetchWrites == text \in Programs => \A a : WriteAddr(Fetch(a)) \in Reg
BY TextAssumption, BubbleWritesNothing DEF Fetch, Instruction

\* Every exception code a stage produces is one of def.v's.
LEMMA ExcCodes ==
  /\ \A pc : FetchExc(pc) \in ExcCode
  /\ \A i : DecodeExc(i) \in ExcCode
  /\ \A i, a, b : ExecuteExc(i, a, b) \in ExcCode
  /\ \A i, a : MemExc(i, a) \in ExcCode
BY DEF FetchExc, DecodeExc, ExecuteExc, MemExc, ExcCode

\* A clock of coprocessor 0 keeps its exception code and its lines in range.
LEMMA Cp0NextTyped ==
  ASSUME NEW c, Cp0Typed(c), NEW i, NEW v, NEW bd, NEW pc, NEW exc \in ExcCode,
         NEW lines \in SUBSET Lines
  PROVE  Cp0Typed(Cp0Next(c, i, v, bd, pc, exc, lines))
<1>1. Cp0Typed(Cp0Write(c, i.rd, v))
  BY DEF Cp0Typed, Cp0Write
<1>2. Cp0Typed([c EXCEPT !.exl = 0])
  BY DEF Cp0Typed
<1>3. Cp0Typed(Cp0Trap(c, bd, pc, exc, lines))
  BY DEF Cp0Typed, Cp0Trap, ExcCode
<1>4. \A d : Cp0Typed(d) => Cp0Typed([d EXCEPT !.ip = lines])
  BY DEF Cp0Typed
<1> QED BY <1>1, <1>2, <1>3, <1>4 DEF Cp0Next

\* A clock keeps the types of what steers the pipeline.
LEMMA ControlStep == ControlInv /\ [Next]_vars => ControlInv'
<1> SUFFICES ASSUME ControlInv, [Next]_vars PROVE ControlInv'
  OBVIOUS
<1>1. CASE UNCHANGED vars
  BY <1>1 DEF ControlInv, ControlOK, MduTyped, Cp0Typed, vars
<1>2. CASE Next
  <2>1. PICK ext \in SUBSET External : State(ext) /\ (Trap \/ (Retire /\ (Stall \/ Advance)))
    BY <1>2, CycleCases
  <2>2. text' = text /\ text \in Programs
    BY <2>1 DEF State, ControlInv
  <2>3. MduTyped(mdu')
    <3>1. cp0_int_req(ext) \in BOOLEAN
      BY DEF cp0_int_req, IntReq, HwIntReq
    <3> QED BY <2>1, <3>1, MduNextTyped DEF State, ControlInv
  <2>4. Cp0Typed(cp0')
    <3>1. cp0_exc \in ExcCode
      BY ExcCodes DEF cp0_exc, m_exc, ControlInv, ControlOK
    <3>2. cp0_hw_int(ext) \in SUBSET Lines
      BY MipsAssumption DEF cp0_hw_int
    <3> QED BY <2>1, <3>1, <3>2, Cp0NextTyped DEF State, ControlInv
  <2>5. /\ DecodeOut.stat \in Stat /\ DecodeOut.exc \in ExcCode /\ WriteAddr(DecodeOut.ins) \in Reg
        /\ ExecuteOut.stat \in Stat /\ ExecuteOut.exc \in ExcCode /\ WriteAddr(ExecuteOut.ins) \in Reg
    BY ExcCodes DEF DecodeOut, ExecuteOut, e_exc, ControlInv, ControlOK
  <2>6. 0 \in ExcCode /\ "EMPTY" \in Stat
    BY DEF ExcCode, Stat
  <2>7. CASE Trap
    <3>1. /\ fd'.stat \in Stat /\ fd'.exc \in ExcCode /\ WriteAddr(fd'.ins) \in Reg
          /\ mw'.wa \in Reg
      BY <2>6, <2>7, BubbleWritesNothing DEF Trap, FdEmpty
    <3>2. /\ de'.stat \in Stat /\ de'.exc \in ExcCode /\ de'.ins = Bubble
          /\ em'.stat \in Stat /\ em'.exc \in ExcCode /\ em'.ins = Bubble
      BY <2>6, <2>7 DEF Trap, Killed, DecodeOut, ExecuteOut
    <3> QED BY <2>2, <2>3, <2>4, <3>1, <3>2, BubbleWritesNothing
            DEF ControlInv, ControlOK, MduTyped, Cp0Typed
  <2>8. CASE Retire /\ (Stall \/ Advance)
    <3>1. /\ em'.stat \in Stat /\ em'.exc \in ExcCode /\ WriteAddr(em'.ins) \in Reg
          /\ mw'.wa \in Reg
      BY <2>5, <2>8 DEF Retire, ControlInv
    <3>2. de'.stat \in Stat /\ de'.exc \in ExcCode /\ WriteAddr(de'.ins) \in Reg
      <4>1. CASE Stall
        <5>1. de'.stat = DecodeOut.stat /\ de'.exc = DecodeOut.exc /\ de'.ins = Bubble
          BY <4>1 DEF Stall, Killed, DecodeOut
        <5> QED BY <2>5, <5>1, BubbleWritesNothing
      <4>2. CASE Advance
        BY <2>5, <4>2 DEF Advance
      <4> QED BY <2>8, <4>1, <4>2
    <3>3. fd'.stat \in Stat /\ fd'.exc \in ExcCode /\ WriteAddr(fd'.ins) \in Reg
      <4>1. CASE Stall
        BY <4>1 DEF Stall, ControlInv, ControlOK
      <4>2. CASE Advance
        BY <2>2, <4>2, ExcCodes, FetchWrites, BubbleWritesNothing DEF Advance, NextStat, Stat
      <4> QED BY <2>8, <4>1, <4>2
    <3> QED BY <2>2, <2>3, <2>4, <3>1, <3>2, <3>3 DEF ControlInv, ControlOK, MduTyped, Cp0Typed
  <2> QED BY <2>1, <2>7, <2>8
<1> QED BY <1>1, <1>2

\* They hold after reset.
LEMMA ControlInit == Init => ControlInv
<1>1. {0} \subseteq ExcCode /\ "EMPTY" \in Stat /\ {2} \subseteq Lines
  BY Cp0Assumption DEF ExcCode, Stat
<1> QED BY <1>1, CyclesAssumption, BubbleWritesNothing
        DEF Init, ControlInv, ControlOK, MduTyped, MduReset, Cp0Typed, Cp0Reset, FdEmpty
-----------------------------------------------------------------------------
(* The timers. *)

TimerFields == {"state", "ctrl", "preset", "count", "irq"}

TimerSound(t) ==
  /\ t = [f \in TimerFields |-> t[f]]
  /\ t.state \in {"IDLE", "LOAD", "CNT", "INT"} /\ t.irq \in BOOLEAN
  /\ t.irq => t.state \in {"IDLE", "INT"} /\ t.count = 0
  /\ t.state = "INT" => t.irq

TimerInv == tc = [k \in Timers |-> tc[k]] /\ \A k \in Timers : TimerSound(tc[k])

\* A clock of a timer keeps its latch over a count that has run out.
LEMMA TickSound ==
  ASSUME NEW t, TimerSound(t)
  PROVE  TimerSound(Tick(t))
<1> USE DEF TimerSound, TimerFields, Tick
<1>1. CASE t.state = "IDLE"
  BY <1>1
<1>2. CASE t.state = "LOAD"
  BY <1>2
<1>3. CASE t.state = "CNT"
  BY <1>3
<1>4. CASE t.state = "INT"
  BY <1>4
<1> QED BY <1>1, <1>2, <1>3, <1>4

\* So does a store to its control or its preset.
LEMMA WriteRegSound ==
  ASSUME NEW t, TimerSound(t), NEW r \in {0, 1}, NEW v
  PROVE  TimerSound(WriteReg(t, r, v))
BY DEF TimerSound, TimerFields, WriteReg

\* A store that reaches a timer addresses its control or its preset: the bridge turns
\* every other access into an exception, and a trap takes the write enable away.
LEMMA StoreReachesTwoRegisters ==
  ASSUME NEW ext, dev_we(ext), Selected(em.alu) # {}, NEW k \in Selected(em.alu)
  PROVE  DevReg(em.alu) \in {0, 1}
<1>1. MemExc(em.ins, em.alu) = 0
  BY DEF dev_we, cp0_int_req, IntReq, cp0_exc, m_exc
<1>2. ~BridgeErr(em.ins, em.alu) /\ DevReg(em.alu) # 2
  BY <1>1 DEF dev_we, MemExc, BridgeErr, ADEL, ADES
<1>3. DevReg(em.alu) \in 0 .. 2
  BY BridgeAssumption DEF Selected, DevReg
<1> QED BY <1>2, <1>3

\* And so does every clock of the pipeline.
LEMMA TimerStep == TimerInv /\ [Next]_vars => TimerInv'
<1> SUFFICES ASSUME TimerInv, [Next]_vars PROVE TimerInv'
  OBVIOUS
<1>1. CASE UNCHANGED vars
  BY <1>1 DEF TimerInv, vars
<1>2. CASE Next
  <2>1. PICK ext \in SUBSET External : State(ext)
    BY <1>2, CycleCases
  <2>2. tc' = [k \in Timers |-> IF dev_we(ext) /\ k \in Selected(em.alu)
                                THEN WriteReg(tc[k], DevReg(em.alu), m_read_data) ELSE Tick(tc[k])]
    BY <2>1 DEF State
  <2>3. ASSUME NEW k \in Timers PROVE TimerSound(tc'[k])
    <3>1. CASE dev_we(ext) /\ k \in Selected(em.alu)
      BY <2>2, <2>3, <3>1, StoreReachesTwoRegisters, WriteRegSound DEF TimerInv
    <3>2. CASE ~(dev_we(ext) /\ k \in Selected(em.alu))
      BY <2>2, <2>3, <3>2, TickSound DEF TimerInv
    <3> QED BY <3>1, <3>2
  <2> QED BY <2>2, <2>3 DEF TimerInv
<1> QED BY <1>1, <1>2

\* The timers are reset.
LEMMA TimerInit == Init => TimerInv
<1>1. TimerReset = [f \in TimerFields |-> TimerReset[f]]
  BY DEF TimerReset, TimerFields
<1>2. TimerSound(TimerReset)
  BY <1>1 DEF TimerSound, TimerReset
<1> QED BY <1>2 DEF Init, TimerInv

\* No timer holds its latch up over a running count, whatever the program stores to it
\* and whatever traps: it rests on the bridge keeping the count read-only (bridge.v:35-41).
THEOREM IrqMeansExpiredHolds == Spec => []IrqMeansExpired
<1>1. TimerInv => IrqMeansExpired
  BY DEF TimerInv, TimerSound, IrqMeansExpired
<1> QED BY <1>1, TimerInit, TimerStep, PTL DEF Spec
-----------------------------------------------------------------------------
(* Types of the registers that hold data.                                   *)

\* The fields of an instruction the datapath uses.
Usable(i) == i.rs \in Reg /\ i.rt \in Reg /\ i.imm \in Word /\ WriteAddr(i) \in Reg

TimerTyped(t) ==
  /\ t.ctrl = [en |-> t.ctrl.en, mode |-> t.ctrl.mode, im |-> t.ctrl.im]
  /\ t.ctrl.en \in 0 .. 1 /\ t.ctrl.mode \in 0 .. 3 /\ t.ctrl.im \in 0 .. 1
  /\ t.preset \in Word /\ t.count \in Word

Data ==
  /\ f_pc \in Word
  /\ fd = [stat |-> fd.stat, pc |-> fd.pc, ins |-> fd.ins, exc |-> fd.exc] /\ fd.pc \in Word /\ Usable(fd.ins)
  /\ de = [stat |-> de.stat, pc |-> de.pc, ins |-> de.ins, exc |-> de.exc, v0 |-> de.v0, v1 |-> de.v1, link |-> de.link]
  /\ de.pc \in Word /\ Usable(de.ins) /\ de.v0 \in Word /\ de.v1 \in Word /\ de.link \in Word
  /\ em = [stat |-> em.stat, pc |-> em.pc, ins |-> em.ins, exc |-> em.exc, v1 |-> em.v1, wd |-> em.wd, alu |-> em.alu]
  /\ em.pc \in Word /\ Usable(em.ins) /\ em.v1 \in Word /\ em.wd \in Word /\ em.alu \in Word
  /\ mw = [pc |-> mw.pc, wa |-> mw.wa, wd |-> mw.wd, ext |-> mw.ext] /\ mw.pc \in Word /\ mw.wd \in Word
  /\ grf \in [Reg -> Word] /\ grf[0] = 0 /\ ram \in [0 .. RAM_WORDS - 1 -> Word]
  /\ mdu.lo \in Word /\ mdu.hi \in Word
  /\ cp0.epc \in Word /\ cp0.ie \in 0 .. 1 /\ cp0.exl \in 0 .. 1 /\ cp0.bd \in 0 .. 1
  /\ \A k \in Timers : TimerTyped(tc[k])
TypeInv == ControlInv /\ TimerInv /\ Data

\* Zero is a word and a register, and a bubble or a nop is usable.
LEMMA Zero == 0 \in Word /\ 0 \in Reg /\ Usable(Bubble) /\ Usable(Nop)
<1>1. 0 \in Word /\ 0 \in Reg
  BY ForwardingAssumption, WordsAssumption DEF Reg, Word
<1>2. Nop.rs = 0 /\ Nop.rt = 0 /\ Nop.imm = 0
  BY DEF Nop
<1> QED BY <1>1, <1>2, BubbleFacts, BubbleWritesNothing DEF Usable

\* Every instruction that is fetched can be used.
LEMMA FetchUsable == text \in Programs => \A a : Usable(Fetch(a))
BY TextAssumption, Zero DEF Fetch, Instruction, Usable

\* An aligned word is a word.
LEMMA AlignTyped == \A w \in Word : Align(w) \in Word
<1> SUFFICES ASSUME NEW w \in Word PROVE Align(w) \in Word
  OBVIOUS
<1>1. w \in 0 .. WORDS - 1 /\ WORDS \in Nat
  BY WordsAssumption DEF Word
<1>2. w - (w % 4) \in 0 .. WORDS - 1
  BY <1>1
<1> QED BY <1>2 DEF Align, Word

\* The masks of the lines are distinct bits: status and cause fit in a word.
LEMMA LineBitsTyped ==
  ASSUME NEW ls \in SUBSET Lines, NEW low \in 0 .. 3
  PROVE  low + LineBits(ls) \in Word
<1> DEFINE top(l) == IF IM_LOW + l <= BITS THEN 2^(IM_LOW + l) ELSE WORDS
<1> USE WordsAssumption, Cp0Assumption
<1>1. ASSUME NEW l \in 0 .. 5, NEW s \in Nat, s + 1 <= top(l)
      PROVE  s + LineBit(ls, l) \in Nat /\ s + LineBit(ls, l) + 1 <= top(l + 1)
  <2> DEFINE e == IM_LOW + l
  <2>1. e \in Nat /\ IM_LOW + (l + 1) = e + 1
    OBVIOUS
  <2>2. CASE e \in 0 .. BITS - 1
    <3>1. top(l) = 2^e /\ top(l + 1) = 2^(e + 1) /\ LineBit(ls, l) \in {0, 2^e}
      BY <2>1, <2>2 DEF LineBit
    <3>2. 2^(e + 1) = 2 * 2^e /\ 2^e \in Nat
      BY <2>2, PowerAssumption, PowerPositive
    <3> HIDE DEF e, top
    <3> QED BY <1>1, <3>1, <3>2
  <2>3. CASE e = BITS
    <3>1. top(l) = WORDS /\ top(l + 1) = WORDS /\ LineBit(ls, l) = 0
      BY <2>1, <2>3 DEF LineBit, WORDS
    <3> QED BY <1>1, <3>1
  <2>4. CASE e > BITS
    <3>1. top(l) = WORDS /\ top(l + 1) = WORDS /\ LineBit(ls, l) = 0
      BY <2>1, <2>4 DEF LineBit
    <3> QED BY <1>1, <3>1
  <2> QED BY <2>1, <2>2, <2>3, <2>4
<1> DEFINE s1 == low + LineBit(ls, 0)
           s2 == s1 + LineBit(ls, 1)
           s3 == s2 + LineBit(ls, 2)
           s4 == s3 + LineBit(ls, 3)
           s5 == s4 + LineBit(ls, 4)
           s6 == s5 + LineBit(ls, 5)
<1>2. low + 1 <= top(0)
  <2>1. 2^0 = 1 /\ 2^(0 + 1) = 2 * 2^0 /\ 2^(1 + 1) = 2 * 2^1
    BY PowerAssumption
  <2> DEFINE two == 2
             k == IM_LOW - 2
  <2>2. two \in Nat /\ 2^two = 4 /\ k \in Nat /\ two + k = IM_LOW /\ IM_LOW <= BITS /\ k \in 0 .. BITS
    BY <2>1
  <2> HIDE DEF two, k
  <2>3. 2^(two + k) = 2^two * 2^k
    BY <2>2, PowerAdd
  <2>4. 2^k \in Nat \ {0} /\ 2^IM_LOW = 4 * 2^k
    BY <2>2, <2>3, PowerPositive
  <2>5. top(0) = 2^IM_LOW
    BY <2>2
  <2> QED BY <2>4, <2>5
<1>3. top(6) \in Nat /\ top(6) <= WORDS
  <2>1. \A l \in Lines : IM_LOW + l < BITS
    OBVIOUS
  <2>2. CASE IM_LOW + 6 = BITS
    BY <2>2 DEF WORDS
  <2>3. CASE IM_LOW + 6 > BITS
    BY <2>3
  <2>4. CASE IM_LOW + 6 < BITS
    <3> DEFINE e == IM_LOW + 6
               k == BITS - e
    <3>1. e \in Nat /\ k \in Nat /\ e + k = BITS /\ k \in 0 .. BITS /\ e \in 0 .. BITS
      BY <2>4
    <3> HIDE DEF e, k
    <3>2. 2^(e + k) = 2^e * 2^k
      BY <3>1, PowerAdd
    <3>3. 2^e \in Nat \ {0} /\ 2^k \in Nat \ {0} /\ WORDS = 2^e * 2^k
      BY <3>1, <3>2, PowerPositive DEF WORDS
    <3>4. 2^e <= WORDS /\ 2^e \in Nat
      BY <3>3
    <3> QED BY <2>4, <3>4 DEF e
  <2> QED BY <2>2, <2>3, <2>4
<1> HIDE DEF top
<1>4. low \in Nat
  OBVIOUS
<1>5. s1 \in Nat /\ s1 + 1 <= top(1)
  BY <1>1, <1>2, <1>4
<1> HIDE DEF s1
<1>6. s2 \in Nat /\ s2 + 1 <= top(2)
  BY <1>1, <1>5
<1> HIDE DEF s2
<1>7. s3 \in Nat /\ s3 + 1 <= top(3)
  BY <1>1, <1>6
<1> HIDE DEF s3
<1>8. s4 \in Nat /\ s4 + 1 <= top(4)
  BY <1>1, <1>7
<1> HIDE DEF s4
<1>9. s5 \in Nat /\ s5 + 1 <= top(5)
  BY <1>1, <1>8
<1> HIDE DEF s5
<1>10. s6 \in Nat /\ s6 + 1 <= top(6)
  BY <1>1, <1>9
<1>11. low + LineBits(ls) = s6
  <2>1. \A l \in 0 .. 5 : LineBit(ls, l) \in Nat
    BY PowerPositive DEF LineBit
  <2> QED BY <2>1 DEF LineBits, s6, s5, s4, s3, s2, s1
<1> HIDE DEF s6
<1>12. low + LineBits(ls) \in Nat /\ low + LineBits(ls) + 1 <= WORDS
  BY <1>3, <1>10, <1>11
<1> QED BY <1>12 DEF Word

\* A register of coprocessor 0 reads as a word.
LEMMA Cp0ReadTyped ==
  ASSUME Cp0Typed(cp0), cp0.epc \in Word, cp0.ie \in 0 .. 1, cp0.exl \in 0 .. 1, cp0.bd \in 0 .. 1, NEW r
  PROVE  Cp0Read(cp0, r) \in Word
<1>1. StatusWord(cp0) \in Word
  <2>1. cp0.ie + 2 * cp0.exl \in 0 .. 3 /\ cp0.im \in SUBSET Lines
    BY DEF Cp0Typed
  <2> QED BY <2>1, LineBitsTyped DEF StatusWord
<1>2. CauseWord(cp0) \in Word
  <2>1. 2^(BITS - 1) \in Nat
    BY PowerPositive, WordsAssumption
  <2>2. cp0.bd * 2^(BITS - 1) \in Int
    BY <2>1
  <2>3. 0 + LineBits(cp0.ip) \in Word
    BY LineBitsTyped DEF Cp0Typed
  <2>4. \A l \in 0 .. 5 : LineBit(cp0.ip, l) \in Nat
    BY PowerPositive, Cp0Assumption, WordsAssumption DEF LineBit, Cp0Typed
  <2>5. LineBits(cp0.ip) \in Int
    BY <2>4 DEF LineBits
  <2>6. 4 * cp0.exc \in Int
    BY DEF Cp0Typed, ExcCode, ADEL, ADES, RI, OV
  <2>7. cp0.bd * 2^(BITS - 1) + LineBits(cp0.ip) + 4 * cp0.exc \in Int
    BY <2>2, <2>5, <2>6
  <2> QED BY <2>7, Wraps DEF CauseWord
<1>3. U(PRID) \in Word
  BY Wraps, Cp0Assumption
<1> QED BY <1>1, <1>2, <1>3, Zero DEF Cp0Read

\* A register of a timer reads as a word.
LEMMA TimerReadTyped ==
  ASSUME NEW t, TimerTyped(t), NEW r
  PROVE  ReadReg(t, r) \in Word
<1>1. CtrlWord(t.ctrl) \in 0 .. 15
  BY DEF TimerTyped, CtrlWord
<1>2. CtrlWord(t.ctrl) \in Word
  BY <1>1, WordsDivisible, WordsAssumption DEF Word
<1> QED BY <1>2 DEF ReadReg, TimerTyped

\* The values that travel through the stages are words.
LEMMA SignalsTyped ==
  ASSUME ControlInv, Data
  PROVE  /\ w_write_data \in Word /\ m_write_data \in Word /\ m_read_data \in Word /\ m_mem_read_data \in Word
         /\ \A r \in Reg : d_read_data(r) \in Word /\ GrfRead(r) \in Word
         /\ e_read0 \in Word /\ e_read1 \in Word /\ e_alu_result \in Word
         /\ cp0_epc \in Word /\ addr \in Word
         /\ RamWord(ram, em.alu) \in Word
<1> USE DEF Data
<1>1. 0 \in Word /\ 0 \in Reg
  BY Zero
<1>2. w_write_data \in Word
  BY WriteBackTyped DEF w_write_data
<1>3. RamWord(ram, em.alu) \in Word /\ em.alu \in Int
  <2>1. em.alu \in Nat
    BY WordsAssumption DEF Word
  <2>2. em.alu < DATA_MAX => em.alu \div 4 \in 0 .. RAM_WORDS - 1
    BY <2>1, MemoryAssumption DEF DATA_MAX
  <2> QED BY <1>1, <2>1, <2>2 DEF RamWord
<1>4. m_mem_read_data \in Word
  <2>1. \A k \in Selected(em.alu) : k \in Timers
    BY DEF Selected
  <2>2. Selected(em.alu) # {} => (CHOOSE d \in Selected(em.alu) : TRUE) \in Timers
    BY <2>1
  <2>3. Selected(em.alu) # {} => ReadReg(tc[CHOOSE d \in Selected(em.alu) : TRUE], DevReg(em.alu)) \in Word
    BY <2>2, TimerReadTyped
  <2>4. ReadLane(em.ins, em.alu, RamWord(ram, em.alu)) \in Word
    BY <1>3, ReadTyped
  <2> QED BY <1>1, <2>3, <2>4 DEF m_mem_read_data
<1>5. m_write_data \in Word
  BY <1>4, Cp0ReadTyped DEF m_write_data, ControlInv
<1>6. m_read_data \in Word
  BY <1>1, <1>2 DEF m_read_data
<1>7. \A r \in Reg : d_read_data(r) \in Word /\ GrfRead(r) \in Word
  BY <1>1, <1>2 DEF d_read_data, GrfRead
<1>8. e_read0 \in Word /\ e_read1 \in Word
  BY <1>1, <1>2 DEF e_read0, e_read1, e_read_data
<1>9. e_alu_result \in Word
  <2>1. de.ins.imm \in Word
    BY DEF Usable
  <2> QED BY <1>8, <2>1, AluTyped DEF e_alu_result, e_in0, e_in1
<1>10. cp0_epc \in Word /\ addr \in Word
  BY <1>6, AlignTyped DEF cp0_epc, addr
<1> QED BY <1>2, <1>3, <1>4, <1>5, <1>6, <1>7, <1>8, <1>9, <1>10

\* A clock of coprocessor 0 keeps its types.
LEMMA Cp0DataTyped ==
  ASSUME NEW c, Cp0Typed(c), c.epc \in Word, c.ie \in 0 .. 1, c.exl \in 0 .. 1, c.bd \in 0 .. 1,
         NEW i, NEW v \in Word, NEW bd \in BOOLEAN, NEW pc \in Word, NEW exc, NEW lines
  PROVE  LET d == Cp0Next(c, i, v, bd, pc, exc, lines)
         IN  d.epc \in Word /\ d.ie \in 0 .. 1 /\ d.exl \in 0 .. 1 /\ d.bd \in 0 .. 1
<1> DEFINE Fine(d) == /\ d = [ie |-> d.ie, exl |-> d.exl, im |-> d.im, bd |-> d.bd, exc |-> d.exc, ip |-> d.ip, epc |-> d.epc]
                      /\ d.epc \in Word /\ d.ie \in 0 .. 1 /\ d.exl \in 0 .. 1 /\ d.bd \in 0 .. 1
<1>1. Fine(c) /\ Fine([c EXCEPT !.exl = 0])
  BY DEF Cp0Typed
<1>2. Fine(Cp0Write(c, i.rd, v))
  <2>1. v \in Int /\ 0 \in 0 .. BITS - 1 /\ 1 \in 0 .. BITS - 1
    BY WordsAssumption DEF Word
  <2>2. Bit(v, 0) \in 0 .. 1 /\ Bit(v, 1) \in 0 .. 1
    BY <2>1, LowBits
  <2> QED BY <1>1, <2>2, AlignTyped DEF Cp0Write
<1>3. Fine(Cp0Trap(c, bd, pc, exc, lines))
  <2>1. Align(pc) \in Word /\ Align(pc) - 4 \in Int
    BY AlignTyped, WordsAssumption DEF Word
  <2>2. U(Align(pc) - 4) \in Word
    BY <2>1, Wraps
  <2> QED BY <2>1, <2>2 DEF Cp0Trap, Flag
<1>4. \A d : Fine(d) => Fine([d EXCEPT !.ip = lines])
  OBVIOUS
<1> HIDE DEF Fine
<1>5. Fine(Cp0Next(c, i, v, bd, pc, exc, lines))
  BY <1>1, <1>2, <1>3, <1>4 DEF Cp0Next
<1> QED BY <1>5 DEF Fine

\* A clock of a timer and a write to one keep its types.
LEMMA TimerDataTyped ==
  ASSUME NEW t, TimerSound(t), TimerTyped(t), NEW r \in {0, 1}, NEW v \in Word
  PROVE  TimerTyped(Tick(t)) /\ TimerTyped(WriteReg(t, r, v))
<1>1. TimerTyped(Tick(t))
  <2> USE DEF TimerSound, TimerFields, Tick, TimerTyped
  <2>1. t.count > 1 => t.count - 1 \in Word
    BY WordsAssumption DEF Word
  <2>2. CASE t.state = "IDLE"
    BY <2>2
  <2>3. CASE t.state = "LOAD"
    BY <2>3
  <2>4. CASE t.state = "CNT"
    BY <2>1, <2>4, Zero
  <2>5. CASE t.state = "INT"
    BY <2>5
  <2> QED BY <2>2, <2>3, <2>4, <2>5
<1>2. TimerTyped(WriteReg(t, r, v))
  <2>1. v \in Nat
    BY WordsAssumption DEF Word
  <2>2. v % 2 \in 0 .. 1 /\ (v \div 2) % 4 \in 0 .. 3 /\ (v \div 8) % 2 \in 0 .. 1
    BY <2>1
  <2> QED BY <2>2 DEF TimerSound, TimerFields, WriteReg, TimerTyped, CtrlOf
<1> QED BY <1>1, <1>2

\* The address D computes is a word.
LEMMA FetchTyped ==
  ASSUME ControlInv, Data
  PROVE  d_next_pc \in Word
<1>1. NextPc(fd.ins, f_pc, d_read0, d_read1, 0) \in Word
  BY SignalsTyped, NextPcTyped DEF Data, Usable, d_read0, d_read1
<1>2. CASE fd.ins.op = "eret"
  BY <1>2, SignalsTyped DEF d_next_pc, NextPc, ShouldBranch, JumpReg
<1>3. CASE fd.ins.op # "eret"
  <2>1. d_next_pc = NextPc(fd.ins, f_pc, d_read0, d_read1, 0)
    BY <1>3 DEF d_next_pc, NextPc
  <2> QED BY <1>1, <2>1
<1> QED BY <1>2, <1>3

\* What D and E hand on is typed.
LEMMA OutTyped ==
  ASSUME ControlInv, Data
  PROVE  /\ DecodeOut.pc \in Word /\ DecodeOut.v0 \in Word /\ DecodeOut.v1 \in Word /\ DecodeOut.link \in Word
         /\ ExecuteOut.pc \in Word /\ ExecuteOut.v1 \in Word /\ ExecuteOut.wd \in Word /\ ExecuteOut.alu \in Word
<1>1. f_pc + 4 \in Int
  BY WordsAssumption DEF Data, Word
<1>2. U(f_pc + 4) \in Word
  BY <1>1, Wraps
<1>3. d_read0 \in Word /\ d_read1 \in Word
  BY SignalsTyped DEF Data, Usable, d_read0, d_read1
<1> QED BY <1>2, <1>3, SignalsTyped DEF DecodeOut, ExecuteOut, Data

\* The registers that every edge writes keep their types.
LEMMA StateTyped ==
  ASSUME TypeInv, NEW ext \in SUBSET External, State(ext)
  PROVE  /\ grf' \in [Reg -> Word] /\ grf'[0] = 0 /\ ram' \in [0 .. RAM_WORDS - 1 -> Word]
         /\ mdu'.lo \in Word /\ mdu'.hi \in Word
         /\ cp0'.epc \in Word /\ cp0'.ie \in 0 .. 1 /\ cp0'.exl \in 0 .. 1 /\ cp0'.bd \in 0 .. 1
         /\ \A k \in Timers : TimerTyped(tc'[k])
<1> USE DEF TypeInv
<1>1. grf' \in [Reg -> Word] /\ grf'[0] = 0
  <2>1. grf' = IF mw.wa # 0 THEN [grf EXCEPT ![mw.wa] = w_write_data] ELSE grf
    BY DEF State
  <2>2. grf \in [Reg -> Word] /\ grf[0] = 0 /\ mw.wa \in Reg /\ w_write_data \in Word /\ 0 \in Reg
    BY SignalsTyped, Zero DEF Data, ControlInv, ControlOK
  <2> QED BY <2>1, <2>2
<1>2. ram' \in [0 .. RAM_WORDS - 1 -> Word]
  <2>1. ram' = RamNext(ram, em.ins, em.alu, m_read_data, cp0_int_req(ext))
    BY DEF State
  <2>2. em.alu \in Int /\ m_read_data \in Word /\ RamWord(ram, em.alu) \in Word
    BY SignalsTyped, WordsAssumption, SMTT(30) DEF Data, Word
  <2>3. WriteLane(em.ins, em.alu, RamWord(ram, em.alu), m_read_data) \in Word
    BY <2>2, WriteTyped
  <2>4. ram \in [0 .. RAM_WORDS - 1 -> Word]
    BY DEF Data
  <2> QED BY <2>1, <2>3, <2>4 DEF RamNext
<1>3. mdu'.lo \in Word /\ mdu'.hi \in Word
  <2>1. mdu' = MduNext(mdu, de.ins, e_in0, e_in1, cp0_int_req(ext))
    BY DEF State
  <2>2. mdu \in [lo : Word, hi : Word, busy : Nat]
    <3>1. mdu = [lo |-> mdu.lo, hi |-> mdu.hi, busy |-> mdu.busy] /\ mdu.busy \in Nat
      BY CyclesAssumption DEF ControlInv, MduTyped
    <3> QED BY <3>1 DEF Data
  <2>3. MduStart(mdu, de.ins, e_in0, e_in1) \in [lo : Word, hi : Word, busy : Nat]
    BY <2>2, SignalsTyped, MduStartTyped DEF e_in0, e_in1
  <2> QED BY <2>1, <2>2, <2>3 DEF MduNext
<1>4. cp0'.epc \in Word /\ cp0'.ie \in 0 .. 1 /\ cp0'.exl \in 0 .. 1 /\ cp0'.bd \in 0 .. 1
  <2>1. cp0' = Cp0Next(cp0, em.ins, m_read_data, em.stat = "DS", addr, cp0_exc, cp0_hw_int(ext))
    BY DEF State
  <2>2. m_read_data \in Word /\ addr \in Word
    BY SignalsTyped
  <2> QED BY <2>1, <2>2, Cp0DataTyped DEF Data, ControlInv
<1>5. ASSUME NEW k \in Timers PROVE TimerTyped(tc'[k])
  <2>1. tc'[k] = IF dev_we(ext) /\ k \in Selected(em.alu)
                 THEN WriteReg(tc[k], DevReg(em.alu), m_read_data) ELSE Tick(tc[k])
    BY DEF State
  <2>2. TimerSound(tc[k]) /\ TimerTyped(tc[k]) /\ m_read_data \in Word
    BY SignalsTyped DEF TimerInv, Data
  <2>3. CASE dev_we(ext) /\ k \in Selected(em.alu)
    <3>1. DevReg(em.alu) \in {0, 1}
      BY <2>3, StoreReachesTwoRegisters
    <3> QED BY <2>1, <2>2, <2>3, <3>1, TimerDataTyped
  <2>4. CASE ~(dev_we(ext) /\ k \in Selected(em.alu))
    <3>1. 0 \in {0, 1}
      OBVIOUS
    <3> QED BY <2>1, <2>2, <2>4, <3>1, TimerDataTyped
  <2> QED BY <2>3, <2>4
<1> QED BY <1>1, <1>2, <1>3, <1>4, <1>5

\* A clock keeps the types of the data.
LEMMA DataStep ==
  ASSUME TypeInv, Next
  PROVE  Data'
<1>1. PICK ext \in SUBSET External : State(ext) /\ (Trap \/ (Retire /\ (Stall \/ Advance)))
  BY CycleCases
<1>2. text' = text /\ text \in Programs
  BY <1>1 DEF State, TypeInv, ControlInv
<1>3. /\ grf' \in [Reg -> Word] /\ grf'[0] = 0 /\ ram' \in [0 .. RAM_WORDS - 1 -> Word]
      /\ mdu'.lo \in Word /\ mdu'.hi \in Word
      /\ cp0'.epc \in Word /\ cp0'.ie \in 0 .. 1 /\ cp0'.exl \in 0 .. 1 /\ cp0'.bd \in 0 .. 1
      /\ \A k \in Timers : TimerTyped(tc'[k])
  BY <1>1, StateTyped
<1>4. ControlInv /\ Data
  BY DEF TypeInv
<1>5. /\ DecodeOut.pc \in Word /\ DecodeOut.v0 \in Word /\ DecodeOut.v1 \in Word /\ DecodeOut.link \in Word
      /\ ExecuteOut.pc \in Word /\ ExecuteOut.v1 \in Word /\ ExecuteOut.wd \in Word /\ ExecuteOut.alu \in Word
      /\ m_write_data \in Word /\ d_next_pc \in Word
  BY <1>4, OutTyped, SignalsTyped, FetchTyped
<1>6. f_pc' \in Word
  <2>1. HANDLER \in Word
    <3>1. TEXT_MIN \in Nat /\ TEXT_MAX \in 0 .. WORDS - 1 /\ WORDS \in Nat
      BY ForwardingAssumption, WordsAssumption DEF Word
    <3>2. HANDLER \in 0 .. WORDS - 1
      BY <3>1, MipsAssumption
    <3> QED BY <3>2 DEF Word
  <2>2. f_pc' \in {HANDLER, f_pc, d_next_pc}
    BY <1>1 DEF Trap, Stall, Advance
  <2> QED BY <1>4, <1>5, <2>1, <2>2 DEF Data
<1>7. fd' = [stat |-> fd'.stat, pc |-> fd'.pc, ins |-> fd'.ins, exc |-> fd'.exc] /\ fd'.pc \in Word /\ Usable(fd'.ins)
  <2>1. CASE Trap
    BY <1>4, <2>1, Zero DEF Trap, FdEmpty, Data
  <2>2. CASE Stall
    BY <1>4, <2>2 DEF Stall, Data
  <2>3. CASE Advance
    BY <1>2, <1>4, <2>3, Zero, FetchUsable DEF Advance, Data
  <2> QED BY <1>1, <2>1, <2>2, <2>3
<1>8. DecodeOut = [stat |-> DecodeOut.stat, pc |-> DecodeOut.pc, ins |-> fd.ins, exc |-> DecodeOut.exc,
                   v0 |-> DecodeOut.v0, v1 |-> DecodeOut.v1, link |-> DecodeOut.link]
  BY DEF DecodeOut
<1>9. ExecuteOut = [stat |-> ExecuteOut.stat, pc |-> ExecuteOut.pc, ins |-> de.ins, exc |-> ExecuteOut.exc,
                    v1 |-> ExecuteOut.v1, wd |-> ExecuteOut.wd, alu |-> ExecuteOut.alu]
  BY DEF ExecuteOut
<1>10. Usable(fd.ins) /\ Usable(de.ins) /\ Usable(Bubble)
  BY <1>4, Zero DEF Data
<1>11. /\ de' = [stat |-> de'.stat, pc |-> de'.pc, ins |-> de'.ins, exc |-> de'.exc, v0 |-> de'.v0, v1 |-> de'.v1, link |-> de'.link]
       /\ de'.pc \in Word /\ Usable(de'.ins) /\ de'.v0 \in Word /\ de'.v1 \in Word /\ de'.link \in Word
  <2>1. CASE Trap
    BY <1>5, <1>8, <1>10, <2>1 DEF Trap, Killed
  <2>2. CASE Stall
    BY <1>5, <1>8, <1>10, <2>2 DEF Stall, Killed
  <2>3. CASE Advance
    BY <1>5, <1>8, <1>10, <2>3 DEF Advance
  <2> QED BY <1>1, <2>1, <2>2, <2>3
<1>12. /\ em' = [stat |-> em'.stat, pc |-> em'.pc, ins |-> em'.ins, exc |-> em'.exc, v1 |-> em'.v1, wd |-> em'.wd, alu |-> em'.alu]
       /\ em'.pc \in Word /\ Usable(em'.ins) /\ em'.v1 \in Word /\ em'.wd \in Word /\ em'.alu \in Word
  <2>1. CASE Trap
    BY <1>5, <1>9, <1>10, <2>1 DEF Trap, Killed
  <2>2. CASE Retire
    BY <1>5, <1>9, <1>10, <2>2 DEF Retire
  <2> QED BY <1>1, <2>1, <2>2
<1>13. mw' = [pc |-> mw'.pc, wa |-> mw'.wa, wd |-> mw'.wd, ext |-> mw'.ext] /\ mw'.pc \in Word /\ mw'.wd \in Word
  <2>1. em.pc \in Word
    BY <1>4 DEF Data
  <2>2. CASE Trap
    BY <1>5, <2>1, <2>2 DEF Trap
  <2>3. CASE Retire
    BY <1>5, <2>1, <2>3 DEF Retire
  <2> QED BY <1>1, <2>2, <2>3
<1> QED BY <1>3, <1>6, <1>7, <1>11, <1>12, <1>13 DEF Data

\* A clock keeps every type.
LEMMA TypeStep == TypeInv /\ [Next]_vars => TypeInv'
<1>1. ASSUME TypeInv, Next PROVE TypeInv'
  BY <1>1, ControlStep, TimerStep, DataStep DEF TypeInv
<1>2. ASSUME TypeInv, UNCHANGED vars PROVE TypeInv'
  <2>1. ControlInv' /\ TimerInv'
    BY <1>2, ControlStep, TimerStep DEF TypeInv
  <2>2. Data'
    BY <1>2 DEF TypeInv, Data, vars
  <2> QED BY <2>1, <2>2 DEF TypeInv
<1> QED BY <1>1, <1>2

\* Reset leaves every register with a value of its type.
LEMMA TypeInit == Init => TypeInv
<1> SUFFICES ASSUME Init PROVE TypeInv
  OBVIOUS
<1>1. TEXT_MIN \in Word /\ 0 \in Word /\ Usable(Bubble) /\ Usable(Nop)
  BY ForwardingAssumption, Zero
<1>2. TimerTyped(TimerReset)
  <2>1. TimerReset.ctrl = [en |-> 0, mode |-> 0, im |-> 0]
    BY DEF TimerReset, CtrlOf
  <2> QED BY <1>1, <2>1 DEF TimerTyped, TimerReset
<1>3. Data
  <2>1. grf \in [Reg -> Word] /\ grf[0] = 0 /\ ram \in [0 .. RAM_WORDS - 1 -> Word]
    BY Zero DEF Init
  <2>2. \A k \in Timers : TimerTyped(tc[k])
    BY <1>2 DEF Init
  <2>3. mdu.lo \in Word /\ mdu.hi \in Word /\ cp0.epc \in Word /\ cp0.ie \in 0 .. 1 /\ cp0.exl \in 0 .. 1 /\ cp0.bd \in 0 .. 1
    BY <1>1 DEF Init, MduReset, Cp0Reset
  <2> QED BY <1>1, <2>1, <2>2, <2>3 DEF Init, Data, FdEmpty
<1> QED BY <1>3, ControlInit, TimerInit DEF TypeInv

\* Every register of the design holds a value of its type, in every state of every program
\* and at every width of a word: no address, operand, CP0 field or timer count leaves its range.
THEOREM TypeCorrect == Spec => []TypeOK
<1>1. TypeInv => TypeOK
  BY DEF TypeInv, ControlInv, ControlOK, Data, DataOK, TypeOK
<1> QED BY <1>1, TypeInit, TypeStep, PTL DEF Spec

-----------------------------------------------------------------------------
(* The invariant. *)

\* The registers once W has finished, and once M has finished too.
Settled(r) == IF r # 0 /\ r = mw.wa THEN w_write_data ELSE grf[r]
Coming(r)  == IF r # 0 /\ r = WriteAddr(em.ins) THEN WriteBack(ExtType(em.ins), m_write_data) ELSE Settled(r)
Regs == [r \in Reg |-> Settled(r)]
NextRegs == [r \in Reg |-> Coming(r)]

\* The machine the instruction in M works on.
Mach == [pc |-> em.pc, grf |-> Regs, lo |-> mdu.lo, hi |-> mdu.hi, mem |-> ram]

\* Where a branch at address a goes behind its slot, with the registers g.
View(a, g) == [pc |-> a, grf |-> g]
Goes(i, m) == IF Em!BranchResult(i, m) = <<>> THEN U(m.pc + 8) ELSE Em!BranchResult(i, m)[1]

\* The exception known when the instruction at address a leaves D.
FrontExc(a) == IF FetchExc(a) # 0 THEN FetchExc(a) ELSE DecodeExc(Fetch(a))

\* An empty stage has no effect and raises nothing.
Idle(s) == s.stat = "EMPTY" => s.ins \in {Nop, Bubble} /\ s.exc = 0
Empties == Idle(fd) /\ Idle(de) /\ Idle(em)

\* The stages hold the instructions of the program, and their exceptions.
Held == /\ fd.stat # "EMPTY" => fd.exc = FetchExc(fd.pc)
        /\ Real(de) => de.ins = Fetch(de.pc) /\ de.exc = FrontExc(de.pc)
        /\ Real(em) => /\ em.ins = Fetch(em.pc)
                       /\ em.exc = IF FrontExc(em.pc) # 0 THEN FrontExc(em.pc)
                                   ELSE ExecuteExc(em.ins, In0(em.ins, Settled(em.ins.rs)), In1(em.ins, Settled(em.ins.rt)))

\* A bubble that a stall leaves stands for the instruction that waits behind it.
Bubbles == /\ de.stat # "EMPTY" /\ ~Real(de) => de.stat = fd.stat /\ de.pc = fd.pc /\ de.exc = FrontExc(fd.pc)
           /\ em.stat # "EMPTY" /\ ~Real(em) => em.stat = de.stat /\ em.pc = de.pc /\ em.exc = FrontExc(de.pc)

\* Behind E comes what the instruction there says: the next word, the target of a branch in
\* front of its slot, or EPC.
BehindExecute ==
  Real(de) => /\ fd.stat = NextStat(de.ins)
              /\ de.ins.op # "eret" /\ de.stat = "NORMAL" => fd.pc = U(de.pc + 4)
              /\ de.ins.op \in Branch => f_pc = Goes(de.ins, View(de.pc, NextRegs))
              /\ de.ins.op = "eret" => f_pc = cp0.epc /\ ~(em.ins.op = "mtc0" /\ em.ins.rd = EPC)

\* The same of M: the stage, address and successor of the instruction behind it.
StatBehind == IF Real(de) THEN de.stat ELSE fd.stat
PcBehind == IF Real(de) THEN de.pc ELSE IF fd.stat # "EMPTY" THEN fd.pc ELSE f_pc
SecondBehind == IF Real(de) /\ fd.stat # "EMPTY" THEN fd.pc ELSE f_pc
BehindMemory ==
  Real(em) => IF em.ins.op = "eret" THEN de.stat = "EMPTY" /\ fd.stat = "NORMAL" /\ fd.pc = cp0.epc
              ELSE /\ StatBehind = NextStat(em.ins)
                   /\ em.stat = "NORMAL" => PcBehind = U(em.pc + 4)
                   /\ em.ins.op \in Branch => SecondBehind = Goes(em.ins, View(em.pc, Regs))

\* What D and E read is still in the register, unless it is on its way; and what is on its way
\* in M can be forwarded to an instruction that reads it in E.
Kept(r, v) == r # 0 /\ r # WriteAddr(em.ins) /\ r # mw.wa => v = grf[r]
Latched == /\ Kept(de.ins.rs, de.v0) /\ Kept(de.ins.rt, de.v1)
           /\ em.ins.rt # 0 /\ em.ins.rt # mw.wa => em.v1 = grf[em.ins.rt]
Ready(r) == r # 0 /\ r = WriteAddr(em.ins) => EmReady
OperandsReady == /\ ReadStage0(de.ins) <= EXECUTE => Ready(de.ins.rs)
                 /\ ReadStage1(de.ins) <= EXECUTE => Ready(de.ins.rt)
Linked == Real(de) /\ de.ins.op \in {"jal", "jalr"} => de.link = U(de.pc + 8)

\* M holds the result of its instruction.
Computes == Real(em) =>
  /\ WriteStage(em.ins) = EXECUTE \/ em.ins.op \in Load \cup Store => em.alu = AluOut(em.ins, Mach)
  /\ WriteStage(em.ins) = EXECUTE => em.wd = em.alu
  /\ em.ins.op \in {"jal", "jalr"} => em.wd = U(em.pc + 8)

Pipeline == /\ Empties /\ Held /\ Bubbles /\ BehindExecute /\ BehindMemory
            /\ Latched /\ OperandsReady /\ Linked /\ Computes
SeqInv == TypeInv /\ SlotInv /\ BdInv /\ MduInv /\ Pipeline

-----------------------------------------------------------------------------
(* Programs. *)

\* What is fetched is an instruction; one other than a nop is part of the program.
LEMMA FetchReal ==
  ASSUME text \in Programs, NEW a
  PROVE  /\ Fetch(a).op # "bubble"
         /\ Fetch(a).op # "sll" => FetchExc(a) = 0 /\ a \in DOMAIN text /\ Fetch(a) = text[a]
BY SeqAssumption DEF Fetch, Nop

\* The address behind a word of the program does not wrap.
LEMMA ProgramNext ==
  ASSUME text \in Programs, NEW a \in DOMAIN text
  PROVE  a \in Nat /\ a % 4 = 0 /\ a >= TEXT_MIN /\ a < TEXT_MAX /\ U(a + 4) = a + 4
<1>1. TEXT_MIN \in 0 .. WORDS - 1 /\ TEXT_MAX \in 0 .. WORDS - 1 /\ TEXT_MAX % 4 = 0 /\ WORDS \in Nat \ {0}
  BY ForwardingAssumption, WordsAssumption DEF Word
<1>2. a \in TEXT_MIN .. TEXT_MAX - 1 /\ a % 4 = 0
  BY SeqAssumption
<1>3. a \in Nat /\ a >= TEXT_MIN /\ a < TEXT_MAX /\ a + 4 \in 0 .. WORDS - 1
  BY <1>1, <1>2
<1> QED BY <1>1, <1>2, <1>3, SmallMod DEF U

\* The names of the opcodes are those of the sequential machine.
LEMMA SameNames ==
  /\ A!Branch = Branch /\ A!MulDiv = MulDiv /\ A!MoveTo = MoveTo /\ A!Known = Known
  /\ A!Load = Load /\ A!Store = Store /\ A!Nop = Nop /\ A!ADEL = ADEL /\ A!RI = RI
<1> USE DEF A!AddSub, A!Logic, A!Compare, A!Shift, A!ShiftV, A!AddImm, A!LogicImm, A!CmpImm, A!Load, A!Store,
            A!BranchRT, A!BranchZ, A!JumpReg, A!MulDiv, A!MoveFrom, A!MoveTo, A!Arith3, A!ArithImm, A!Branch,
            A!HiLoOp, A!Known, A!Nop, A!ADEL, A!RI,
            AddSub, Logic, Compare, Shift, ShiftV, AddImm, LogicImm, CmpImm, Load, Store, BranchRT, BranchZ, JumpReg,
            MulDiv, MoveFrom, MoveTo, Arith3, ArithImm, Branch, HiLoOp, Known, Nop, ADEL, RI
<1>1. A!Branch = Branch /\ A!MulDiv = MulDiv /\ A!MoveTo = MoveTo /\ A!Load = Load /\ A!Store = Store /\ A!Nop = Nop
  BY Zenon
<1>2. A!Known = Known
  BY Zenon
<1>3. A!ADEL = ADEL /\ A!RI = RI
  BY Zenon
<1> QED BY ONLY <1>1, <1>2, <1>3

\* The instruction in a delay slot is no branch and no eret.
LEMMA SlotPlain ==
  ASSUME text \in Programs, NEW a, BehindBranch(a)
  PROVE  Fetch(a).op \notin Branch \cup {"eret"}
<1> SUFFICES ASSUME Fetch(a).op \in Branch \cup {"eret"} PROVE FALSE
  OBVIOUS
<1>1. a \in DOMAIN text /\ Fetch(a) = text[a]
  BY FetchReal DEF Branch, BranchRT, BranchZ, JumpReg
<1> PICK b \in DOMAIN text : text[b].op \in Branch /\ a = U(b + 4)
  BY DEF BehindBranch
<1>2. text[a].op \notin Branch
  BY <1>1, ProgramsAssumption
<1>3. a = b + 4
  BY ProgramNext
<1>4. text[b + 4].op # "eret"
  BY <1>1, <1>3, SameNames, WellFormedAssumption DEF A!WellFormed
<1> QED BY <1>1, <1>2, <1>3, <1>4

\* A branch in D has its slot fetched behind it.
LEMMA BranchNormal ==
  ASSUME SlotInv, fd.ins.op \in Branch
  PROVE  fd.stat = "NORMAL" /\ f_pc = U(fd.pc + 4)
<1>1. fd.stat # "EMPTY" /\ fd.ins = Fetch(fd.pc)
  BY NopFacts DEF SlotInv
<1>2. fd.stat # "DS"
  BY <1>1, SlotPlain DEF SlotInv
<1> QED BY <1>1, <1>2 DEF SlotInv, Stat

\* Behind an eret in D the next word is fetched, and that word exists.
LEMMA EretAhead ==
  ASSUME SlotInv, fd.ins.op = "eret"
  PROVE  fd.stat = "NORMAL" /\ FetchExc(f_pc) = 0
<1>1. fd.stat # "EMPTY" /\ fd.ins = Fetch(fd.pc)
  BY DEF SlotInv, Nop
<1>2. fd.stat # "DS"
  BY <1>1, SlotPlain DEF SlotInv
<1>3. fd.stat = "NORMAL" /\ f_pc = U(fd.pc + 4)
  BY <1>1, <1>2 DEF SlotInv, Stat
<1>4. fd.pc \in DOMAIN text /\ fd.ins = text[fd.pc] /\ text \in Programs
  BY <1>1, FetchReal DEF SlotInv
<1>5. f_pc = fd.pc + 4 /\ fd.pc \in Nat /\ fd.pc % 4 = 0 /\ fd.pc >= TEXT_MIN
  BY <1>3, <1>4, ProgramNext
<1>6. fd.pc + 4 < TEXT_MAX
  BY <1>4, WellFormedAssumption DEF A!WellFormed
<1>7. TEXT_MIN \in Int /\ TEXT_MAX \in Int
  BY ForwardingAssumption, WordsAssumption DEF Word
<1>8. ~(fd.pc + 4 < TEXT_MIN) /\ ~(fd.pc + 4 >= TEXT_MAX) /\ (fd.pc + 4) % 4 = 0
  BY <1>5, <1>6, <1>7
<1> QED BY <1>3, <1>5, <1>8 DEF FetchExc

\* An empty D waits for nothing.
LEMMA EmptyNoStall ==
  ASSUME SlotInv, fd.stat = "EMPTY"
  PROVE  ~stall
<1>1. fd.ins = Nop
  BY DEF SlotInv
<1>2. fd.ins.rs = 0 /\ fd.ins.rt = 0 /\ fd.ins.op = "sll"
  BY <1>1 DEF Nop
<1>3. fd.ins.op \notin HiLoOp /\ fd.ins.op # "eret"
  BY <1>2 DEF HiLoOp, MulDiv, MoveFrom, MoveTo
<1> QED BY <1>2, <1>3 DEF stall, stall_de, stall_em, stall_alu, stall_epc, Needs

-----------------------------------------------------------------------------
(* One clock. *)

\* A stage that holds no instruction has no effect.
LEMMA EmptyFacts ==
  ASSUME NEW s, Idle(s), ~Real(s)
  PROVE  /\ s.ins.op \in {"sll", "bubble"} /\ s.ins.op \notin HiLoOp \cup Load \cup Store \cup Branch
         /\ s.ins \in {Nop, Bubble} \/ s.ins.op = "bubble"
         /\ WriteAddr(s.ins) = 0 /\ MemMode(s.ins) = "NONE"
         /\ \A a, b : ExecuteExc(s.ins, a, b) = 0
         /\ \A u, a, b : MduStart(u, s.ins, a, b) = u
<1>1. CASE s.ins.op = "bubble"
  <2>1. s.ins.op \notin Branch
    BY <1>1 DEF Branch, BranchRT, BranchZ, JumpReg
  <2> QED BY <1>1, <2>1, NothingDone, WriterFacts DEF ExecuteExc, CheckOverflow
<1>2. CASE s.ins = Nop
  <2>1. s.ins.op = "sll" /\ WriteAddr(s.ins) = 0
    BY <1>2, BubbleWritesNothing DEF Nop
  <2>2. s.ins.op \notin HiLoOp \cup Load \cup Store \cup Branch
    BY <2>1 DEF HiLoOp, MulDiv, MoveFrom, MoveTo, Load, Store, Branch, BranchRT, BranchZ, JumpReg
  <2>3. MemMode(s.ins) = "NONE"
    BY <2>2 DEF MemMode
  <2>4. \A a, b : ExecuteExc(s.ins, a, b) = 0
    BY <2>1 DEF ExecuteExc, CheckOverflow
  <2>5. \A u, a, b : MduStart(u, s.ins, a, b) = u
    BY <2>1 DEF MduStart
  <2> QED BY <1>2, <2>1, <2>2, <2>3, <2>4, <2>5
<1> QED BY <1>1, <1>2, BubbleFacts DEF Idle, Real

\* The registers once W has finished are words.
LEMMA RegsTyped ==
  ASSUME TypeInv
  PROVE  \A r \in Reg : Settled(r) \in Word /\ Coming(r) \in Word /\ (r = 0 => Settled(r) = 0 /\ Coming(r) = 0)
<1>1. w_write_data \in Word /\ m_write_data \in Word
  BY SignalsTyped DEF TypeInv
<1>2. WriteBack(ExtType(em.ins), m_write_data) \in Word
  BY <1>1, WriteBackTyped
<1> QED BY <1>1, <1>2, Zero DEF Settled, Coming, TypeInv, Data

\* The register file after a clock.
LEMMA GrfStep ==
  ASSUME TypeInv, NEW ext \in SUBSET External, State(ext)
  PROVE  \A r \in Reg : grf'[r] = Settled(r)
<1>1. grf' = IF mw.wa # 0 THEN [grf EXCEPT ![mw.wa] = w_write_data] ELSE grf
  BY DEF State
<1>2. grf \in [Reg -> Word] /\ mw.wa \in Reg
  BY DEF TypeInv, Data, ControlInv, ControlOK
<1> QED BY <1>1, <1>2 DEF Settled

\* The last stages after a clock in which M retires its instruction.
LEMMA RetireFacts ==
  ASSUME TypeInv, NEW ext \in SUBSET External, State(ext), Retire
  PROVE  /\ em'.stat = de.stat /\ em'.pc = de.pc /\ em'.ins = de.ins
         /\ em'.exc = IF de.exc # 0 THEN de.exc ELSE e_exc
         /\ em'.v1 = e_read1 /\ em'.alu = e_alu_result
         /\ em'.wd = IF WriteStage(de.ins) = EXECUTE THEN e_alu_result ELSE de.link
         /\ mw'.wa = WriteAddr(em.ins) /\ w_write_data' = WriteBack(ExtType(em.ins), m_write_data)
         /\ \A r \in Reg : Settled(r)' = Coming(r)
<1>1. em' = ExecuteOut
  BY DEF Retire
<1>2. mw' = [pc |-> em.pc, wa |-> WriteAddr(em.ins), wd |-> m_write_data, ext |-> ExtType(em.ins)]
  BY DEF Retire
<1>3. mw'.wa = WriteAddr(em.ins) /\ w_write_data' = WriteBack(ExtType(em.ins), m_write_data)
  BY <1>2 DEF w_write_data
<1>4. \A r \in Reg : Settled(r)' = Coming(r)
  BY <1>3, GrfStep DEF Settled, Coming
<1> QED BY <1>1, <1>3, <1>4 DEF ExecuteOut

\* The first stages after a clock in which no trap is taken.
LEMMA FrontFacts ==
  ASSUME SlotInv, Held, NEW ext \in SUBSET External, State(ext), Stall \/ Advance
  PROVE  /\ text' = text /\ text \in Programs
         /\ de'.stat = fd.stat /\ de'.pc = fd.pc
         /\ de'.exc = IF fd.exc # 0 THEN fd.exc ELSE DecodeExc(fd.ins)
         /\ fd.stat # "EMPTY" => de'.exc = FrontExc(fd.pc)
         /\ stall => f_pc' = f_pc /\ fd' = fd /\ de'.ins = Bubble
         /\ ~stall => /\ f_pc' = d_next_pc
                      /\ de'.ins = fd.ins /\ de'.v0 = d_read0 /\ de'.v1 = d_read1 /\ de'.link = U(f_pc + 4)
                      /\ fd'.stat = NextStat(fd.ins) /\ fd'.pc = f_pc /\ fd'.exc = FetchExc(f_pc)
                      /\ fd'.ins = IF NextStat(fd.ins) = "EMPTY" THEN Nop ELSE Fetch(f_pc)
<1>1. text' = text /\ text \in Programs
  BY DEF State, SlotInv
<1>2. /\ DecodeOut.stat = fd.stat /\ DecodeOut.pc = fd.pc /\ DecodeOut.ins = fd.ins
      /\ DecodeOut.exc = (IF fd.exc # 0 THEN fd.exc ELSE DecodeExc(fd.ins))
      /\ DecodeOut.v0 = d_read0 /\ DecodeOut.v1 = d_read1 /\ DecodeOut.link = U(f_pc + 4)
      /\ Killed(DecodeOut).stat = DecodeOut.stat /\ Killed(DecodeOut).pc = DecodeOut.pc
      /\ Killed(DecodeOut).exc = DecodeOut.exc /\ Killed(DecodeOut).ins = Bubble
  BY DEF DecodeOut, Killed
<1>3. fd.stat # "EMPTY" => DecodeOut.exc = FrontExc(fd.pc)
  BY <1>2 DEF Held, SlotInv, FrontExc
<1>4. CASE Stall
  BY <1>1, <1>2, <1>3, <1>4 DEF Stall
<1>5. CASE Advance
  BY <1>1, <1>2, <1>3, <1>5 DEF Advance
<1> QED BY <1>4, <1>5

\* What is on its way to a register after a clock.
LEMMA ComingStep ==
  ASSUME TypeInv, NEW ext \in SUBSET External, State(ext), Retire, NEW r \in Reg
  PROVE  Coming(r)' = IF r # 0 /\ r = WriteAddr(de.ins) THEN WriteBack(ExtType(de.ins), m_write_data') ELSE Coming(r)
<1>1. em'.ins = de.ins /\ Settled(r)' = Coming(r)
  BY RetireFacts
<1>2. Coming(r)' = IF r # 0 /\ r = WriteAddr(em'.ins) THEN WriteBack(ExtType(em'.ins), m_write_data') ELSE Settled(r)'
  BY DEF Coming
<1> QED BY <1>1, <1>2

\* A branch that does not wait in D reads what its registers will hold once the instructions
\* in front of it have finished.
LEMMA DecodeReads ==
  ASSUME TypeInv, NEW ext \in SUBSET External, State(ext), Retire, ~stall, NEW r \in Reg,
         \/ r = fd.ins.rs /\ ReadStage0(fd.ins) = DECODE
         \/ r = fd.ins.rt /\ ReadStage1(fd.ins) = DECODE
  PROVE  d_read_data(r) = Coming(r)'
<1>1. \A stage \in Nat : stage > 0 => Needs(r, stage)
  BY DEF Needs, DECODE
<1>2. r # 0 /\ r = WriteAddr(de.ins) => WriteStage(de.ins) = DECODE
  <2>1. WriteStage(de.ins) \in {DECODE, EXECUTE, MEM}
    BY WriterFacts
  <2> QED BY <1>1, <2>1 DEF stall, stall_de, DECODE, EXECUTE, MEM
<1>3. r # 0 /\ r = WriteAddr(em.ins) => WriteStage(em.ins) = EXECUTE
  <2>1. WriteStage(em.ins) \in {DECODE, EXECUTE, MEM}
    BY WriterFacts
  <2>2. WORDS - 1 \in Nat /\ WORDS - 1 > 0
    BY WordsDivisible
  <2>3. ~stall_em
    BY DEF stall
  <2> QED BY <1>1, <2>1, <2>2, <2>3 DEF stall_em, DECODE, EXECUTE, MEM
<1>4. em'.ins = de.ins /\ em'.wd = IF WriteStage(de.ins) = EXECUTE THEN e_alu_result ELSE de.link
  BY RetireFacts
<1>5. Coming(r)' = IF r # 0 /\ r = WriteAddr(de.ins) THEN WriteBack(ExtType(de.ins), m_write_data') ELSE Coming(r)
  BY ComingStep
<1>6. CASE r = 0
  BY <1>5, <1>6, RegsTyped DEF d_read_data
<1>7. CASE r # 0 /\ r = WriteAddr(de.ins)
  <2>1. WriteStage(de.ins) = DECODE /\ em'.wd = de.link /\ de.ins.op \in {"jal", "jalr"}
    BY <1>2, <1>4, <1>7, WriterFacts DEF DECODE, EXECUTE
  <2>2. m_write_data' = de.link
    BY <1>4, <2>1 DEF m_write_data, DECODE, MEM
  <2>3. ExtType(de.ins) = "NONE"
    BY <2>1, WriterFacts DEF DECODE, MEM
  <2>4. Coming(r)' = de.link
    BY <1>5, <1>7, <2>2, <2>3 DEF WriteBack
  <2> QED BY <1>7, <2>1, <2>4 DEF d_read_data, DECODE
<1>8. CASE r # 0 /\ r # WriteAddr(de.ins)
  <2>1. Coming(r)' = Coming(r)
    BY <1>5, <1>8
  <2>2. CASE r = WriteAddr(em.ins)
    <3>1. WriteStage(em.ins) = EXECUTE
      BY <1>3, <1>8, <2>2
    <3>2. em.ins.op # "mfc0"
      BY <3>1 DEF WriteStage, EXECUTE, MEM, Arith3, AddSub, Logic, Compare, Shift, ShiftV, ArithImm, AddImm, LogicImm,
                  CmpImm, MoveFrom
    <3>3. EmReady /\ m_write_data = em.wd
      BY <3>1, <3>2 DEF EmReady, m_write_data, EXECUTE, MEM
    <3>4. ExtType(em.ins) = "NONE"
      BY <3>1, WriterFacts DEF EXECUTE, MEM
    <3>5. Coming(r) = em.wd
      BY <1>8, <2>2, <3>3, <3>4 DEF Coming, WriteBack
    <3> QED BY <1>8, <2>1, <2>2, <3>3, <3>5 DEF d_read_data
  <2>3. CASE r # WriteAddr(em.ins)
    BY <1>8, <2>1, <2>3 DEF d_read_data, Coming, Settled, GrfRead
  <2> QED BY <2>2, <2>3
<1> QED BY <1>6, <1>7, <1>8

\* An instruction in E computes with the registers as they will be.
LEMMA ExecuteReads ==
  ASSUME TypeInv, Latched, OperandsReady
  PROVE  /\ ReadStage0(de.ins) <= EXECUTE => e_read0 = Coming(de.ins.rs)
         /\ ReadStage1(de.ins) <= EXECUTE => e_read1 = Coming(de.ins.rt)
<1>1. ASSUME NEW r \in Reg, NEW v, Kept(r, v), Ready(r)
      PROVE  e_read_data(r, v) = Coming(r)
  <2>1. CASE r = 0
    BY <2>1, RegsTyped DEF e_read_data
  <2>2. CASE r # 0 /\ r = WriteAddr(em.ins)
    <3>1. EmReady
      BY <1>1, <2>2 DEF Ready
    <3>2. WriteStage(em.ins) # MEM /\ em.ins.op # "mfc0"
      BY <3>1 DEF EmReady, WriteStage, DECODE, MEM, EXECUTE, Arith3, AddSub, Logic, Compare, Shift, ShiftV, ArithImm,
                  AddImm, LogicImm, CmpImm, MoveFrom
    <3>3. ExtType(em.ins) = "NONE" /\ m_write_data = em.wd
      BY <3>2, WriterFacts DEF m_write_data
    <3> QED BY <2>2, <3>1, <3>3 DEF e_read_data, Coming, WriteBack
  <2>3. CASE r # 0 /\ r # WriteAddr(em.ins)
    BY <1>1, <2>3 DEF e_read_data, Coming, Settled, Kept
  <2> QED BY <2>1, <2>2, <2>3
<1>2. de.ins.rs \in Reg /\ de.ins.rt \in Reg
  BY DEF TypeInv, Data, Usable
<1> QED BY <1>1, <1>2 DEF Latched, OperandsReady, e_read0, e_read1

-----------------------------------------------------------------------------
(* The invariant holds: each part, after a clock without a trap. *)

\* What was empty stays without effect.
LEMMA EmptiesStep ==
  ASSUME TypeInv, SlotInv, Pipeline, NEW ext \in SUBSET External, State(ext), Retire, Stall \/ Advance
  PROVE  Empties'
<1> USE DEF Pipeline, Empties
<1>1. Idle(em)'
  <2>1. em'.stat = de.stat /\ em'.ins = de.ins /\ em'.exc = IF de.exc # 0 THEN de.exc ELSE e_exc
    BY RetireFacts
  <2>2. de.stat = "EMPTY" => e_exc = 0
    BY EmptyFacts DEF Real, e_exc
  <2> QED BY <2>1, <2>2 DEF Idle
<1>2. Idle(de)'
  <2> SUFFICES ASSUME fd.stat = "EMPTY" PROVE de'.ins \in {Nop, Bubble} /\ de'.exc = 0
    BY FrontFacts DEF Idle
  <2>1. fd.ins = Nop /\ fd.exc = 0 /\ DecodeExc(Nop) = 0
    BY DEF SlotInv, Idle, Nop, DecodeExc, Known, Shift
  <2> QED BY <2>1, FrontFacts
<1>3. Idle(fd)'
  <2>1. CASE stall
    BY <2>1, FrontFacts DEF Idle
  <2>2. CASE ~stall
    <3> SUFFICES ASSUME NextStat(fd.ins) = "EMPTY" PROVE FetchExc(f_pc) = 0
      BY <2>2, FrontFacts DEF Idle
    <3>1. fd.ins.op = "eret"
      BY DEF NextStat
    <3> QED BY <3>1, EretAhead
  <2> QED BY <2>1, <2>2
<1> QED BY <1>1, <1>2, <1>3

\* What the instruction in E computes: an operand it does not read makes no difference.
LEMMA Operands ==
  ASSUME TypeInv, Latched, OperandsReady
  PROVE  LET i == de.ins
             a == In0(i, Coming(i.rs))
             b == In1(i, Coming(i.rt))
         IN  /\ e_exc = ExecuteExc(i, a, b)
             /\ WriteStage(i) = EXECUTE \/ i.op \in Load \cup Store => e_alu_result = AluResult(i, a, b, mdu)
             /\ i.op \in MulDiv \cup MoveTo => \A u : MduStart(u, i, e_in0, e_in1) = MduStart(u, i, a, b)
<1> DEFINE i == de.ins
           a == In0(i, Coming(i.rs))
           b == In1(i, Coming(i.rt))
<1>1. /\ ReadStage0(i) <= EXECUTE => e_read0 = Coming(i.rs)
      /\ ReadStage1(i) <= EXECUTE => e_read1 = Coming(i.rt)
  BY ExecuteReads
<1>2. i.op \in Computed \cup Load \cup Store \cup MulDiv \cup MoveTo => e_in0 = a
  <2>1. CASE i.op \in Shift \cup {"lui"}
    BY <2>1 DEF e_in0, In0, Shift
  <2>2. CASE i.op \in Arith3 \cup ArithImm \cup ShiftV \cup Load \cup Store \cup MulDiv \cup MoveTo
    <3>1. ReadStage0(i) <= EXECUTE
      BY <2>2 DEF ReadStage0, DECODE, EXECUTE
    <3> QED BY <1>1, <3>1 DEF e_in0
  <2> QED BY <2>1, <2>2 DEF Computed
<1>3. i.op \in Computed \cup Load \cup Store \cup MulDiv => e_in1 = b
  <2>1. CASE i.op \in ArithImm \cup Load \cup Store \cup {"lui"}
    BY <2>1 DEF e_in1, In1
  <2>2. CASE i.op \in Arith3 \cup Shift \cup ShiftV \cup MulDiv
    <3>1. ReadStage1(i) <= EXECUTE
      BY <2>2 DEF ReadStage1, DECODE, EXECUTE
    <3> QED BY <1>1, <3>1 DEF e_in1
  <2> QED BY <2>1, <2>2 DEF Computed
<1>4. e_exc = ExecuteExc(i, a, b)
  <2>1. CheckOverflow(i) => i.op \in Computed
    BY DEF CheckOverflow, Computed, Arith3, AddSub, ArithImm, AddImm
  <2> QED BY <1>2, <1>3, <2>1 DEF e_exc, ExecuteExc
<1>5. WriteStage(i) = EXECUTE \/ i.op \in Load \cup Store => e_alu_result = AluResult(i, a, b, mdu)
  <2>1. CASE i.op \in Computed \cup Load \cup Store
    BY <1>2, <1>3, <2>1 DEF e_alu_result
  <2>2. CASE i.op \in MoveFrom
    BY <2>2 DEF e_alu_result, AluResult, MoveFrom
  <2>3. WriteStage(i) = EXECUTE => i.op \in Computed \cup MoveFrom
    BY DEF WriteStage, EXECUTE, MEM, DECODE, Computed
  <2> QED BY <2>1, <2>2, <2>3
<1>6. i.op \in MulDiv \cup MoveTo => \A u : MduStart(u, i, e_in0, e_in1) = MduStart(u, i, a, b)
  <2>1. CASE i.op \in MulDiv
    BY <1>2, <1>3, <2>1
  <2>2. CASE i.op \in MoveTo
    BY <1>2, <2>2 DEF MduStart, MoveTo
  <2> QED BY <2>1, <2>2
<1> QED BY <1>4, <1>5, <1>6

\* The stages hold what was fetched.
LEMMA HeldStep ==
  ASSUME TypeInv, SlotInv, Pipeline, NEW ext \in SUBSET External, State(ext), Retire, Stall \/ Advance
  PROVE  Held'
<1> USE DEF Pipeline
<1>1. text' = text
  BY FrontFacts
<1>2. \A a : FetchExc(a)' = FetchExc(a) /\ Fetch(a)' = Fetch(a) /\ FrontExc(a)' = FrontExc(a)
  BY <1>1 DEF FetchExc, Fetch, FrontExc
<1>3. fd'.stat # "EMPTY" => fd'.exc = FetchExc(fd'.pc)
  <2>1. CASE stall
    BY <2>1, FrontFacts DEF Held
  <2>2. CASE ~stall
    BY <2>2, FrontFacts
  <2> QED BY <2>1, <2>2
<1>4. Real(de)' => de'.ins = Fetch(de'.pc) /\ de'.exc = FrontExc(de'.pc)
  <2>1. CASE stall
    BY <2>1, FrontFacts, BubbleFacts DEF Real
  <2>2. CASE ~stall
    BY <2>2, FrontFacts DEF Real, SlotInv
  <2> QED BY <2>1, <2>2
<1>5. Real(em)' => /\ em'.ins = Fetch(em'.pc)
                   /\ em'.exc = IF FrontExc(em'.pc) # 0 THEN FrontExc(em'.pc)
                                ELSE ExecuteExc(em'.ins, In0(em'.ins, Settled(em.ins.rs)'), In1(em'.ins, Settled(em.ins.rt)'))
  <2> SUFFICES ASSUME Real(em)'
               PROVE  /\ em'.ins = Fetch(em'.pc)
                      /\ em'.exc = IF FrontExc(em'.pc) # 0 THEN FrontExc(em'.pc)
                                   ELSE ExecuteExc(em'.ins, In0(em'.ins, Settled(em.ins.rs)'), In1(em'.ins, Settled(em.ins.rt)'))
    OBVIOUS
  <2>1. /\ em'.stat = de.stat /\ em'.pc = de.pc /\ em'.ins = de.ins
        /\ em'.exc = IF de.exc # 0 THEN de.exc ELSE e_exc
    BY RetireFacts
  <2>2. Real(de)
    BY <2>1 DEF Real
  <2>3. de.ins = Fetch(de.pc) /\ de.exc = FrontExc(de.pc)
    BY <2>2 DEF Held
  <2>4. PICK rs \in Reg, rt \in Reg : rs = de.ins.rs /\ rt = de.ins.rt
    BY DEF TypeInv, Data, Usable
  <2>5. Settled(rs)' = Coming(rs) /\ Settled(rt)' = Coming(rt)
    BY RetireFacts
  <2>6. Settled(em.ins.rs)' = Settled(rs)' /\ Settled(em.ins.rt)' = Settled(rt)'
    BY <2>1, <2>4 DEF Settled
  <2>7. e_exc = ExecuteExc(de.ins, In0(de.ins, Coming(rs)), In1(de.ins, Coming(rt)))
    BY <2>4, Operands
  <2> QED BY <2>1, <2>3, <2>5, <2>6, <2>7
<1> QED BY <1>2, <1>3, <1>4, <1>5 DEF Held

\* A stall leaves a bubble that stands for the instruction waiting in D, and passes it on.
LEMMA BubblesStep ==
  ASSUME TypeInv, SlotInv, Pipeline, NEW ext \in SUBSET External, State(ext), Retire, Stall \/ Advance
  PROVE  Bubbles'
<1> USE DEF Pipeline
<1>1. \A a : FrontExc(a)' = FrontExc(a)
  BY FrontFacts DEF FetchExc, Fetch, FrontExc
<1>2. de'.stat # "EMPTY" /\ ~Real(de)' => de'.stat = fd'.stat /\ de'.pc = fd'.pc /\ de'.exc = FrontExc(fd'.pc)
  <2>1. CASE stall
    BY <2>1, FrontFacts
  <2>2. CASE ~stall
    BY <2>2, FrontFacts, FetchReal DEF Real, SlotInv
  <2> QED BY <2>1, <2>2
<1>3. em'.stat # "EMPTY" /\ ~Real(em)' => em'.stat = de'.stat /\ em'.pc = de'.pc /\ em'.exc = FrontExc(de'.pc)
  <2> SUFFICES ASSUME em'.stat # "EMPTY", ~Real(em)'
               PROVE  em'.stat = de'.stat /\ em'.pc = de'.pc /\ em'.exc = FrontExc(de'.pc)
    OBVIOUS
  <2>1. em'.stat = de.stat /\ em'.pc = de.pc /\ em'.ins = de.ins /\ em'.exc = IF de.exc # 0 THEN de.exc ELSE e_exc
    BY RetireFacts
  <2>2. de.stat # "EMPTY" /\ ~Real(de)
    BY <2>1 DEF Real
  <2>3. de.stat = fd.stat /\ de.pc = fd.pc /\ de.exc = FrontExc(fd.pc)
    BY <2>2 DEF Bubbles
  <2>4. e_exc = 0
    BY <2>2, EmptyFacts DEF Empties, e_exc
  <2>5. de'.stat = fd.stat /\ de'.pc = fd.pc
    BY FrontFacts
  <2>6. em'.exc = FrontExc(fd.pc)
    BY <2>1, <2>3, <2>4
  <2> QED BY <2>1, <2>3, <2>5, <2>6
<1> QED BY <1>1, <1>2, <1>3 DEF Bubbles

\* A write to coprocessor 0 changes EPC only when it names it.
LEMMA EpcWritten ==
  ASSUME NEW c, Cp0Typed(c), NEW r, NEW v
  PROVE  /\ Cp0Typed(Cp0Write(c, r, v))
         /\ Cp0Write(c, r, v).epc = IF r = EPC THEN Align(v) ELSE c.epc
<1>1. Cp0Typed(Cp0Write(c, r, v))
  BY DEF Cp0Typed, Cp0Write
<1>2. CASE r = STATUS
  <2>1. ASSUME NEW x, NEW y, NEW z PROVE [c EXCEPT !.ie = x, !.exl = y, !.im = z].epc = c.epc
    BY DEF Cp0Typed
  <2> DEFINE masks == {l \in Lines : Bit(v, IM_LOW + l) = 1}
  <2>2. Cp0Write(c, r, v) = [c EXCEPT !.ie = Bit(v, 0), !.exl = Bit(v, 1), !.im = masks]
    BY <1>2 DEF Cp0Write, STATUS, EPC
  <2> HIDE DEF masks
  <2>3. Cp0Write(c, r, v).epc = c.epc
    BY <2>1, <2>2
  <2> QED BY <1>1, <1>2, <2>3 DEF STATUS, EPC
<1>3. CASE r = EPC
  BY <1>3 DEF Cp0Typed, Cp0Write, STATUS, EPC
<1>4. CASE r # STATUS /\ r # EPC
  BY <1>4 DEF Cp0Write
<1> QED BY <1>1, <1>2, <1>3, <1>4

\* EPC as the instruction in D may see it is EPC after the clock.
LEMMA EpcStep ==
  ASSUME NEW ext, TypeInv, State(ext), ~cp0_int_req(ext)
  PROVE  cp0'.epc = cp0_epc /\ (em.ins.op # "mtc0" => cp0_epc = cp0.epc)
<1>1. cp0' = Cp0Next(cp0, em.ins, m_read_data, em.stat = "DS", addr, cp0_exc, cp0_hw_int(ext))
  BY DEF State
<1>2. ~IntReq(cp0, cp0_exc, cp0_hw_int(ext))
  BY DEF cp0_int_req
<1>3. Cp0Typed(cp0)
  BY DEF TypeInv, ControlInv
<1>4. ASSUME NEW d, Cp0Typed(d), NEW lines PROVE [d EXCEPT !.ip = lines].epc = d.epc
  BY <1>4 DEF Cp0Typed
<1>5. ASSUME NEW lines PROVE [[cp0 EXCEPT !.exl = 0] EXCEPT !.ip = lines].epc = cp0.epc
  BY <1>3 DEF Cp0Typed
<1>6. CASE em.ins.op = "mtc0"
  <2>1. cp0' = [Cp0Write(cp0, em.ins.rd, m_read_data) EXCEPT !.ip = cp0_hw_int(ext)]
    BY <1>1, <1>6 DEF Cp0Next
  <2>2. Cp0Typed(Cp0Write(cp0, em.ins.rd, m_read_data))
    BY <1>3, EpcWritten
  <2>3. cp0'.epc = Cp0Write(cp0, em.ins.rd, m_read_data).epc
    BY <1>4, <2>1, <2>2
  <2> QED BY <1>3, <1>6, <2>3, EpcWritten DEF cp0_epc
<1>7. CASE em.ins.op # "mtc0"
  <2>1. cp0'.epc = cp0.epc
    BY <1>1, <1>2, <1>3, <1>4, <1>5, <1>7 DEF Cp0Next
  <2> QED BY <1>7, <2>1 DEF cp0_epc
<1> QED BY <1>6, <1>7

\* The branch in D goes where the emulator goes, with the registers as they will be.
LEMMA BranchGoes ==
  ASSUME TypeInv, SlotInv, NEW ext \in SUBSET External, State(ext), Retire, ~stall, fd.ins.op \in Branch
  PROVE  d_next_pc = Goes(fd.ins, View(fd.pc, NextRegs'))
<1> DEFINE i == fd.ins
           m == View(fd.pc, NextRegs')
<1>1. fd.stat = "NORMAL" /\ f_pc = U(fd.pc + 4) /\ i = Fetch(fd.pc)
  BY BranchNormal DEF SlotInv
<1>2. fd.pc \in DOMAIN text /\ i = text[fd.pc] /\ text \in Programs
  BY <1>1, FetchReal DEF SlotInv, Branch, BranchRT, BranchZ, JumpReg
<1>3. i.op \in Known \ {"eret"} /\ i.imm \in Word /\ i.rs \in Reg /\ i.rt \in Reg /\ f_pc \in Word /\ fd.pc \in Word
  BY DEF TypeInv, Data, Usable, Known, Branch, BranchRT, BranchZ, JumpReg
<1>4. m.pc = fd.pc /\ \A r \in Reg : m.grf[r] = Coming(r)'
  BY DEF View, NextRegs
<1> PICK rs \in Reg, rt \in Reg : rs = i.rs /\ rt = i.rt
  BY <1>3
<1>5. Em!Rs(i, m) = Coming(rs)' /\ Em!Rt(i, m) = Coming(rt)'
  <2> HIDE DEF i, m
  <2> QED BY <1>4 DEF Em!Rs, Em!Rt
<1>6. i.op \in BranchRT \cup BranchZ \cup JumpReg => d_read0 = Em!Rs(i, m)
  <2>1. i.op \in BranchRT \cup BranchZ \cup JumpReg => ReadStage0(i) = DECODE
    BY DEF ReadStage0
  <2> QED BY <1>3, <1>5, <2>1, DecodeReads DEF d_read0
<1>7. i.op \in BranchRT => d_read1 = Em!Rt(i, m)
  <2>1. i.op \in BranchRT => ReadStage1(i) = DECODE
    BY DEF ReadStage1
  <2> QED BY <1>3, <1>5, <2>1, DecodeReads DEF d_read1
<1>8. i.op \in {"j", "jal"} => 4 * i.imm < 2^(BITS - REGION_BITS) /\ m.pc + 4 < 2^(BITS - REGION_BITS)
  <2> DEFINE R == 2^(BITS - REGION_BITS)
  <2>1. R \in Nat
    <3>1. BITS - REGION_BITS \in 0 .. BITS
      BY WordsAssumption, DecodeAssumption
    <3> QED BY <3>1, PowerPositive
  <2>2. TEXT_MAX + 4 <= R /\ (i.op \in {"j", "jal"} => 4 * i.imm < R)
    BY <1>2, SeqAssumption
  <2> HIDE DEF R, m
  <2>3. TEXT_MAX \in Nat /\ fd.pc \in Nat /\ fd.pc < TEXT_MAX /\ m.pc = fd.pc
    BY <1>2, <1>4, ProgramNext, ForwardingAssumption, WordsAssumption DEF Word
  <2>4. m.pc + 4 < R
    BY <2>1, <2>2, <2>3
  <2> QED BY <2>2, <2>4 DEF R
<1>9. d_next_pc = NextPc(i, f_pc, d_read0, d_read1, 0)
  <2>1. i.op # "eret"
    BY <1>3
  <2> QED BY <2>1 DEF d_next_pc, NextPc
<1>10. U(f_pc + 4) = U(m.pc + 8)
  <2>1. fd.pc \in Int
    BY <1>3, WordsAssumption DEF Word
  <2> QED BY <1>1, <1>4, <2>1, WrapTwice
<1> HIDE DEF i, m
<1>11. m.pc \in Word /\ f_pc = U(m.pc + 4)
  BY <1>1, <1>3, <1>4
<1>12. NextPc(i, f_pc, d_read0, d_read1, 0) =
         IF Em!BranchResult(i, m) = <<>> THEN U(f_pc + 4) ELSE Em!BranchResult(i, m)[1]
  BY ONLY <1>3, <1>6, <1>7, <1>8, <1>11, BranchTarget
<1>13. d_next_pc = Goes(i, m)
  BY <1>9, <1>10, <1>12 DEF Goes
<1> QED BY <1>13 DEF i, m

\* What is fetched behind the instruction that enters E.
LEMMA BehindExecuteStep ==
  ASSUME TypeInv, SlotInv, Pipeline, NEW ext \in SUBSET External, State(ext), ~cp0_int_req(ext), Retire, Stall \/ Advance
  PROVE  BehindExecute'
<1> SUFFICES ASSUME Real(de)'
             PROVE  /\ fd'.stat = NextStat(de'.ins)
                    /\ de'.ins.op # "eret" /\ de'.stat = "NORMAL" => fd'.pc = U(de'.pc + 4)
                    /\ de'.ins.op \in Branch => f_pc' = Goes(de'.ins, View(de'.pc, NextRegs'))
                    /\ de'.ins.op = "eret" => f_pc' = cp0'.epc /\ ~(em'.ins.op = "mtc0" /\ em'.ins.rd = EPC)
  BY DEF BehindExecute, Goes, View
<1>1. Held
  BY DEF Pipeline
<1>2. ~stall
  BY <1>1, FrontFacts, BubbleFacts DEF Real
<1>3. /\ de'.stat = fd.stat /\ de'.pc = fd.pc /\ de'.ins = fd.ins
      /\ f_pc' = d_next_pc /\ fd'.stat = NextStat(fd.ins) /\ fd'.pc = f_pc
  BY <1>1, <1>2, FrontFacts
<1>4. fd.stat = "NORMAL" => f_pc = U(fd.pc + 4)
  BY DEF SlotInv
<1>5. fd.ins.op \in Branch => d_next_pc = Goes(fd.ins, View(fd.pc, NextRegs'))
  BY <1>2, BranchGoes
<1>6. ASSUME fd.ins.op = "eret" PROVE d_next_pc = cp0'.epc /\ ~(em'.ins.op = "mtc0" /\ em'.ins.rd = EPC)
  <2>1. d_next_pc = cp0_epc
    BY <1>6 DEF d_next_pc, NextPc, ShouldBranch, JumpReg
  <2>2. em'.ins = de.ins
    BY RetireFacts
  <2>3. ~(de.ins.op = "mtc0" /\ de.ins.rd = EPC)
    BY <1>2, <1>6 DEF stall, stall_epc
  <2> QED BY <2>1, <2>2, <2>3, EpcStep
<1> QED BY <1>3, <1>4, <1>5, <1>6

\* What is behind the instruction that enters M.
LEMMA BehindMemoryStep ==
  ASSUME TypeInv, SlotInv, Pipeline, NEW ext \in SUBSET External, State(ext), ~cp0_int_req(ext), Retire, Stall \/ Advance
  PROVE  BehindMemory'
<1> SUFFICES ASSUME Real(em)'
             PROVE  IF em'.ins.op = "eret" THEN de'.stat = "EMPTY" /\ fd'.stat = "NORMAL" /\ fd'.pc = cp0'.epc
                    ELSE /\ StatBehind' = NextStat(em'.ins)
                         /\ em'.stat = "NORMAL" => PcBehind' = U(em'.pc + 4)
                         /\ em'.ins.op \in Branch => SecondBehind' = Goes(em'.ins, View(em'.pc, Regs'))
  BY DEF BehindMemory, Goes, View
<1>1. Held /\ BehindExecute
  BY DEF Pipeline
<1>2. em'.stat = de.stat /\ em'.pc = de.pc /\ em'.ins = de.ins /\ Regs' = NextRegs
  <2>1. em'.stat = de.stat /\ em'.pc = de.pc /\ em'.ins = de.ins /\ \A r \in Reg : Settled(r)' = Coming(r)
    BY RetireFacts
  <2>2. Regs' = NextRegs
    BY <2>1 DEF Regs, NextRegs
  <2> QED BY <2>1, <2>2
<1>3. Real(de)
  BY <1>2 DEF Real
<1>4. CASE de.ins.op = "eret"
  <2>1. fd.stat = "EMPTY" /\ f_pc = cp0.epc /\ ~(em.ins.op = "mtc0" /\ em.ins.rd = EPC)
    BY <1>1, <1>3, <1>4 DEF BehindExecute, NextStat, Branch, BranchRT, BranchZ, JumpReg
  <2>2. ~stall /\ fd.ins = Nop
    BY <2>1, EmptyNoStall DEF SlotInv
  <2>3. de'.stat = "EMPTY" /\ fd'.stat = "NORMAL" /\ fd'.pc = f_pc
    BY <1>1, <2>1, <2>2, FrontFacts, NopFacts
  <2>4. cp0'.epc = cp0.epc
    BY <2>1, EpcStep DEF cp0_epc
  <2> QED BY <1>2, <1>4, <2>1, <2>3, <2>4
<1>5. CASE de.ins.op # "eret"
  <2>1. /\ fd.stat = NextStat(de.ins)
        /\ de.stat = "NORMAL" => fd.pc = U(de.pc + 4)
        /\ de.ins.op \in Branch => f_pc = Goes(de.ins, View(de.pc, NextRegs))
    BY <1>1, <1>3, <1>5 DEF BehindExecute
  <2>2. fd.stat # "EMPTY" /\ fd.ins = Fetch(fd.pc)
    BY <1>5, <2>1 DEF NextStat, SlotInv
  <2>3. StatBehind' = fd.stat /\ PcBehind' = fd.pc /\ (de.ins.op \in Branch => SecondBehind' = f_pc)
    <3>1. CASE stall
      <4>1. f_pc' = f_pc /\ fd'.stat = fd.stat /\ fd'.pc = fd.pc /\ ~Real(de)'
        BY <1>1, <3>1, FrontFacts, BubbleFacts DEF Real
      <4> QED BY <2>2, <4>1 DEF StatBehind, PcBehind, SecondBehind
    <3>2. CASE ~stall
      <4>1. /\ de'.stat = fd.stat /\ de'.pc = fd.pc /\ de'.ins = fd.ins
            /\ fd'.stat = NextStat(fd.ins) /\ fd'.pc = f_pc /\ text \in Programs
        BY <1>1, <3>2, FrontFacts
      <4>2. Real(de)'
        BY <2>2, <4>1, FetchReal DEF Real
      <4>3. de.ins.op \in Branch => fd'.stat # "EMPTY"
        <5> SUFFICES ASSUME de.ins.op \in Branch PROVE fd'.stat # "EMPTY"
          OBVIOUS
        <5>1. BehindBranch(fd.pc)
          BY <2>1 DEF NextStat, SlotInv
        <5>2. fd.ins.op # "eret"
          BY <2>2, <4>1, <5>1, SlotPlain
        <5> QED BY <4>1, <5>2 DEF NextStat
      <4> QED BY <4>1, <4>2, <4>3 DEF StatBehind, PcBehind, SecondBehind
    <3> QED BY <3>1, <3>2
  <2> QED BY <1>2, <1>5, <2>1, <2>3
<1> QED BY <1>4, <1>5

\* D reads the registers, and E hands on what it forwarded.
LEMMA LatchedStep ==
  ASSUME TypeInv, SlotInv, Pipeline, NEW ext \in SUBSET External, State(ext), Retire, Stall \/ Advance
  PROVE  Latched'
<1>1. Held /\ Latched
  BY DEF Pipeline
<1>2. em'.ins = de.ins /\ em'.v1 = e_read1 /\ mw'.wa = WriteAddr(em.ins)
  BY RetireFacts
<1> PICK rs \in Reg, rt \in Reg, es \in Reg, et \in Reg :
         rs = fd.ins.rs /\ rt = fd.ins.rt /\ es = de.ins.rs /\ et = de.ins.rt
  BY DEF TypeInv, Data, Usable
<1>3. et # 0 /\ et # mw'.wa => em'.v1 = grf'[et]
  <2>1. grf'[et] = Settled(et)
    BY GrfStep
  <2> QED BY <1>1, <1>2, <2>1 DEF Latched, Kept, e_read1, e_read_data, Settled
<1>4. /\ de'.ins.rs # 0 /\ de'.ins.rs # WriteAddr(em'.ins) /\ de'.ins.rs # mw'.wa => de'.v0 = grf'[de'.ins.rs]
      /\ de'.ins.rt # 0 /\ de'.ins.rt # WriteAddr(em'.ins) /\ de'.ins.rt # mw'.wa => de'.v1 = grf'[de'.ins.rt]
  <2>1. CASE stall
    <3>1. de'.ins.rs = 0 /\ de'.ins.rt = 0
      BY <1>1, <2>1, FrontFacts DEF Bubble, Nop
    <3> QED BY <3>1
  <2>2. CASE ~stall
    <3>1. ASSUME NEW r \in Reg, r # 0, r # WriteAddr(de.ins), r # WriteAddr(em.ins)
          PROVE  d_read_data(r) = grf'[r]
      <4>1. grf'[r] = Settled(r)
        BY GrfStep
      <4> QED BY <3>1, <4>1 DEF d_read_data, GrfRead, Settled
    <3>2. de'.ins = fd.ins /\ de'.v0 = d_read_data(rs) /\ de'.v1 = d_read_data(rt)
      BY <1>1, <2>2, FrontFacts DEF d_read0, d_read1
    <3> QED BY <1>2, <3>1, <3>2
  <2> QED BY <2>1, <2>2
<1>5. em'.ins.rt = et
  BY <1>2
<1> QED BY <1>3, <1>4, <1>5 DEF Latched, Kept

\* An instruction waits in D until what it reads in E can be forwarded.
LEMMA OperandsReadyStep ==
  ASSUME TypeInv, SlotInv, Pipeline, NEW ext \in SUBSET External, State(ext), Retire, Stall \/ Advance
  PROVE  OperandsReady'
<1>1. Held
  BY DEF Pipeline
<1>2. CASE stall
  <2>1. de'.ins.rs = 0 /\ de'.ins.rt = 0
    BY <1>1, <1>2, FrontFacts DEF Bubble, Nop
  <2> QED BY <2>1 DEF OperandsReady, Ready
<1>3. CASE ~stall
  <2>1. de'.ins = fd.ins /\ em'.ins = de.ins /\ ~stall_de
    BY <1>1, <1>3, FrontFacts, RetireFacts DEF stall
  <2>2. WriteStage(de.ins) \in Int /\ ReadStage0(fd.ins) \in Int /\ ReadStage1(fd.ins) \in Int /\ EXECUTE \in Int
    BY DEF WriteStage, ReadStage0, ReadStage1, DECODE, EXECUTE, MEM, NEVER
  <2>3. ASSUME NEW r, r # 0, r = WriteAddr(de.ins),
               \/ r = fd.ins.rs /\ ReadStage0(fd.ins) <= EXECUTE
               \/ r = fd.ins.rt /\ ReadStage1(fd.ins) <= EXECUTE
        PROVE  WriteStage(de.ins) <= EXECUTE
    <3>1. ~Needs(r, WriteStage(de.ins))
      BY <2>1, <2>3 DEF stall_de
    <3> QED BY <2>2, <2>3, <3>1 DEF Needs
  <2> QED BY <2>1, <2>3 DEF OperandsReady, Ready, EmReady
<1> QED BY <1>2, <1>3

\* The link value is two words behind the branch.
LEMMA LinkedStep ==
  ASSUME TypeInv, SlotInv, Pipeline, NEW ext \in SUBSET External, State(ext), Retire, Stall \/ Advance
  PROVE  Linked'
<1>1. Held
  BY DEF Pipeline
<1> SUFFICES ASSUME Real(de)', de'.ins.op \in {"jal", "jalr"} PROVE de'.link = U(de'.pc + 8)
  BY DEF Linked
<1>2. ~stall
  BY <1>1, FrontFacts, BubbleFacts DEF Real
<1>3. de'.pc = fd.pc /\ de'.ins = fd.ins /\ de'.link = U(f_pc + 4)
  BY <1>1, <1>2, FrontFacts
<1>4. fd.ins.op \in Branch
  BY <1>3 DEF Branch, JumpReg
<1>5. f_pc = U(fd.pc + 4)
  BY <1>4, BranchNormal
<1>6. fd.pc \in Word
  BY DEF TypeInv, Data
<1>7. fd.pc \in Int
  BY <1>6, WordsAssumption DEF Word
<1> QED BY <1>3, <1>5, <1>7, WrapTwice

\* HI and LO change only under an instruction that writes them.
LEMMA MduKept ==
  ASSUME TypeInv, MduInv, NEW ext, State(ext)
  PROVE  de.ins.op \notin MulDiv \cup MoveTo \/ cp0_int_req(ext) => mdu'.lo = mdu.lo /\ mdu'.hi = mdu.hi
<1>1. mdu = [lo |-> mdu.lo, hi |-> mdu.hi, busy |-> mdu.busy] /\ mdu.busy \in Int
  BY CyclesAssumption DEF MduInv, MduTyped
<1>2. mdu' = MduNext(mdu, de.ins, e_in0, e_in1, cp0_int_req(ext))
  BY DEF State
<1>3. de.ins.op \notin MulDiv \cup MoveTo => \A a, b : MduStart(mdu, de.ins, a, b) = mdu
  BY DEF MduStart, MulDiv, MoveTo
<1> QED BY <1>1, <1>2, <1>3 DEF MduNext

\* M gets the result of its instruction.
LEMMA ComputesStep ==
  ASSUME TypeInv, MduInv, Pipeline, NEW ext \in SUBSET External, State(ext), Retire
  PROVE  Computes'
<1> SUFFICES ASSUME Real(em)'
             PROVE  /\ WriteStage(em'.ins) = EXECUTE \/ em'.ins.op \in Load \cup Store => em'.alu = AluOut(em'.ins, Mach')
                    /\ WriteStage(em'.ins) = EXECUTE => em'.wd = em'.alu
                    /\ em'.ins.op \in {"jal", "jalr"} => em'.wd = U(em'.pc + 8)
  BY DEF Computes, AluOut
<1> DEFINE i == de.ins
           m == Mach'
           u == Unit(m)
<1>1. /\ em'.stat = de.stat /\ em'.pc = de.pc /\ em'.ins = i /\ em'.alu = e_alu_result
      /\ em'.wd = (IF WriteStage(i) = EXECUTE THEN e_alu_result ELSE de.link)
      /\ \A r \in Reg : Settled(r)' = Coming(r)
  BY RetireFacts
<1>2. Real(de) /\ Linked /\ Latched /\ OperandsReady
  BY <1>1 DEF Real, Pipeline
<1>3. m.lo = mdu'.lo /\ m.hi = mdu'.hi /\ \A r \in Reg : m.grf[r] = Coming(r)
  BY <1>1 DEF Mach, Regs
<1> PICK rs \in Reg, rt \in Reg : rs = i.rs /\ rt = i.rt
  BY DEF TypeInv, Data, Usable
<1>4. Em!Rs(i, m) = Coming(rs) /\ Em!Rt(i, m) = Coming(rt)
  <2> HIDE DEF i, m
  <2> QED BY <1>3 DEF Em!Rs, Em!Rt
<1>5. WriteStage(i) = EXECUTE \/ i.op \in Load \cup Store =>
        e_alu_result = AluResult(i, In0(i, Coming(rs)), In1(i, Coming(rt)), mdu)
  BY <1>2, Operands
<1>6. WriteStage(i) = EXECUTE \/ i.op \in Load \cup Store => mdu.lo = m.lo /\ mdu.hi = m.hi
  <2>1. WriteStage(i) = EXECUTE \/ i.op \in Load \cup Store => i.op \notin MulDiv \cup MoveTo
    BY DEF WriteStage, EXECUTE, MEM, DECODE, Arith3, AddSub, Logic, Compare, Shift, ShiftV, ArithImm, AddImm, LogicImm,
           CmpImm, MoveFrom, MulDiv, MoveTo, Load, Store
  <2> QED BY <1>3, <2>1, MduKept
<1>7. mdu.lo = m.lo /\ mdu.hi = m.hi => \A a, b : AluResult(i, a, b, mdu) = AluResult(i, a, b, u)
  BY DEF AluResult, Unit
<1>8. WriteStage(i) = EXECUTE \/ i.op \in Load \cup Store => e_alu_result = AluOut(i, m)
  BY <1>4, <1>5, <1>6, <1>7 DEF AluOut
<1>9. i.op \in {"jal", "jalr"} => WriteStage(i) # EXECUTE /\ de.link = U(de.pc + 8)
  BY <1>2 DEF Linked, WriteStage, EXECUTE, MEM, DECODE, Arith3, AddSub, Logic, Compare, Shift, ShiftV, ArithImm, AddImm,
           LogicImm, CmpImm, MoveFrom, Load
<1> QED BY <1>1, <1>8, <1>9

\* After a trap the stages are empty, and what is behind them is the handler.
LEMMA PipelineTrap ==
  ASSUME SlotInv, Trap
  PROVE  Pipeline'
<1>1. /\ fd'.stat = "EMPTY" /\ fd'.ins = Nop /\ fd'.exc = 0
      /\ de'.stat = "EMPTY" /\ de'.ins = Bubble /\ de'.exc = 0
      /\ em'.stat = "EMPTY" /\ em'.ins = Bubble /\ em'.exc = 0
  BY DEF Trap, FdEmpty, Killed, DecodeOut, ExecuteOut
<1>2. ~Real(de)' /\ ~Real(em)'
  BY <1>1 DEF Real
<1>3. /\ de'.ins.rs = 0 /\ de'.ins.rt = 0 /\ em'.ins.rt = 0
  BY <1>1 DEF Bubble, Nop
<1>4. Empties' /\ Held' /\ Bubbles'
  BY <1>1, <1>2 DEF Empties, Idle, Held, Bubbles
<1>5. BehindExecute' /\ BehindMemory' /\ Linked' /\ Computes'
  BY <1>2 DEF BehindExecute, BehindMemory, Linked, Computes
<1>6. Latched' /\ OperandsReady'
  BY <1>3 DEF Latched, Kept, OperandsReady, Ready
<1> QED BY <1>4, <1>5, <1>6 DEF Pipeline

\* Nothing changes when the clock stands still.
LEMMA PipelineStutter ==
  ASSUME Pipeline, UNCHANGED vars
  PROVE  Pipeline'
BY DEF vars, Pipeline, Empties, Idle, Held, Bubbles, BehindExecute, BehindMemory, Latched, OperandsReady, Linked,
       Computes, Real, Fetch, FetchExc, FrontExc, Settled, Coming, Regs, NextRegs, Mach, View, StatBehind, PcBehind,
       SecondBehind, Kept, Ready, EmReady, m_write_data, m_mem_read_data, w_write_data

\* The invariant holds after reset.
LEMMA SeqInit == Init => SeqInv
<1> SUFFICES ASSUME Init PROVE Pipeline
  BY TypeInit, SlotInit, BdInit, MduInit DEF SeqInv
<1>1. /\ fd.stat = "EMPTY" /\ fd.ins = Nop /\ fd.exc = 0
      /\ de.stat = "EMPTY" /\ de.ins = Bubble /\ de.exc = 0
      /\ em.stat = "EMPTY" /\ em.ins = Bubble /\ em.exc = 0
  BY DEF Init, FdEmpty
<1>2. ~Real(de) /\ ~Real(em)
  BY <1>1 DEF Real
<1>3. de.ins.rs = 0 /\ de.ins.rt = 0 /\ em.ins.rt = 0
  BY <1>1 DEF Bubble, Nop
<1>4. Empties /\ Held /\ Bubbles
  BY <1>1, <1>2 DEF Empties, Idle, Held, Bubbles
<1>5. BehindExecute /\ BehindMemory /\ Linked /\ Computes
  BY <1>2 DEF BehindExecute, BehindMemory, Linked, Computes
<1>6. Latched /\ OperandsReady
  BY <1>3 DEF Latched, Kept, OperandsReady, Ready
<1> QED BY <1>4, <1>5, <1>6 DEF Pipeline

\* A clock keeps the invariant.
LEMMA SeqStep == SeqInv /\ [Next]_vars => SeqInv'
<1> SUFFICES ASSUME SeqInv, [Next]_vars PROVE Pipeline'
  BY TypeStep, SlotStep, BdStep, MduStep DEF SeqInv
<1>1. TypeInv /\ SlotInv /\ BdInv /\ MduInv /\ Pipeline
  BY DEF SeqInv
<1>2. CASE UNCHANGED vars
  BY <1>1, <1>2, PipelineStutter
<1>3. CASE Next
  <2> PICK ext \in SUBSET External : Cycle(ext)
    BY <1>3 DEF Next
  <2>1. CASE cp0_int_req(ext) /\ Trap
    BY <1>1, <2>1, PipelineTrap
  <2>2. CASE ~cp0_int_req(ext) /\ Retire /\ (Stall \/ Advance)
    <3>1. State(ext)
      BY DEF Cycle
    <3>2. Empties' /\ Held' /\ Bubbles' /\ BehindExecute' /\ BehindMemory'
      BY <1>1, <2>2, <3>1, EmptiesStep, HeldStep, BubblesStep, BehindExecuteStep, BehindMemoryStep
    <3>3. Latched' /\ OperandsReady' /\ Linked' /\ Computes'
      BY <1>1, <2>2, <3>1, LatchedStep, OperandsReadyStep, LinkedStep, ComputesStep
    <3> QED BY <3>2, <3>3 DEF Pipeline
  <2> QED BY <2>1, <2>2 DEF Cycle
<1> QED BY <1>2, <1>3

-----------------------------------------------------------------------------
(* The sequential machine computes with its own copies of the operators.    *)

\* Its instructions have the effects of the emulator.
LEMMA Semantics ==
  \A i, m : /\ A!Effect(i, m) = Em!Effect(i, m) /\ A!HiLoEffect(i, m) = Em!HiLoEffect(i, m)
            /\ A!BranchResult(i, m) = Em!BranchResult(i, m)
            /\ A!Addr(i, m) = Em!Addr(i, m) /\ A!Granule(i) = Em!Granule(i)
            /\ \A r, v : A!SetGrf(m, r, v) = Em!SetGrf(m, r, v)
<1> USE DEF A!WORDS, Em!WORDS, A!Arith3, Em!Arith3, A!AddSub, Em!AddSub, A!Logic, Em!Logic, A!Compare, Em!Compare,
     A!Shift, Em!Shift, A!ShiftV, Em!ShiftV, A!AddImm, Em!AddImm, A!LogicImm, Em!LogicImm, A!CmpImm,
     Em!CmpImm, A!ArithImm, Em!ArithImm, A!Load, Em!Load, A!Store, Em!Store, A!MulDiv, Em!MulDiv,
     A!Branch, Em!Branch, A!BranchRT, Em!BranchRT, A!BranchZ, Em!BranchZ, A!JumpReg, Em!JumpReg,
     A!BYTE, Em!BYTE, A!HALF, Em!HALF, A!U, Em!U, A!S, Em!S, A!Bit, Em!Bit,
     A!And, Em!And, A!Or, Em!Or, A!Xor, Em!Xor, A!Sll, Em!Sll, A!Srl, Em!Srl, A!Sra, Em!Sra,
     A!Flag, Em!Flag, A!ExtHalf, Em!ExtHalf, A!ExtByte, Em!ExtByte, A!Lane, Em!Lane, A!Quot, Em!Quot,
     A!Rem, Em!Rem, A!AbsVal, Em!AbsVal, A!SetGrf, Em!SetGrf, A!Rs, Em!Rs, A!Rt, Em!Rt, A!Simm,
     Em!Simm, A!Addr, Em!Addr, A!Granule, Em!Granule, A!Operand, Em!Operand, A!SumValue, Em!SumValue, A!CompareValue,
     Em!CompareValue, A!LogicValue, Em!LogicValue, A!ShiftValue, Em!ShiftValue, A!Value, Em!Value,
     A!Bytes, Em!Bytes, A!FromBytes, Em!FromBytes, A!LoadValue, Em!LoadValue, A!StoreValue,
     Em!StoreValue, A!Product, Em!Product, A!MulDivEffect, Em!MulDivEffect, A!HiLoEffect, Em!HiLoEffect,
     A!Effect, Em!Effect, A!Taken, Em!Taken, A!Region, Em!Region, A!Target, Em!Target, A!BranchResult, Em!BranchResult
<1> SUFFICES ASSUME NEW i, NEW m
             PROVE  /\ A!Effect(i, m) = Em!Effect(i, m) /\ A!HiLoEffect(i, m) = Em!HiLoEffect(i, m)
                    /\ A!BranchResult(i, m) = Em!BranchResult(i, m)
                    /\ A!Addr(i, m) = Em!Addr(i, m) /\ A!Granule(i) = Em!Granule(i)
                    /\ \A r, v : A!SetGrf(m, r, v) = Em!SetGrf(m, r, v)
  OBVIOUS
<1>1. A!Effect(i, m) = Em!Effect(i, m)
  BY Zenon
<1>2. A!HiLoEffect(i, m) = Em!HiLoEffect(i, m)
  BY Zenon
<1>3. A!BranchResult(i, m) = Em!BranchResult(i, m)
  BY Zenon
<1>4. A!Addr(i, m) = Em!Addr(i, m) /\ A!Granule(i) = Em!Granule(i)
  BY Zenon
<1>5. \A r, v : A!SetGrf(m, r, v) = Em!SetGrf(m, r, v)
  BY Zenon
<1> QED BY ONLY <1>1, <1>2, <1>3, <1>4, <1>5

\* Its coprocessor and its timers are those of the CPU.
LEMMA SameDevices ==
  /\ A!Cp0Reset = Cp0Reset /\ A!TimerReset = TimerReset
  /\ \A c, lines : A!HwIntReq(c, lines) <=> HwIntReq(c, lines)
  /\ \A c, r : A!Cp0Read(c, r) = Cp0Read(c, r)
  /\ \A c, r, v : A!Cp0Write(c, r, v) = Cp0Write(c, r, v)
  /\ \A t : (A!IRQ(t) <=> IRQ(t)) /\ A!Tick(t) = Tick(t)
  /\ \A t, r : A!ReadReg(t, r) = ReadReg(t, r)
  /\ \A t, r, v : A!WriteReg(t, r, v) = WriteReg(t, r, v)
  /\ \A a : A!Selected(a) = Selected(a) /\ A!DevReg(a) = DevReg(a) /\ A!Align(a) = Align(a) /\ A!U(a) = U(a)
  /\ A!Flag(TRUE) = 1 /\ A!Flag(FALSE) = 0
<1> USE DEF A!WORDS, WORDS, A!U, U, A!Bit, Bit, A!Align, Align,
     A!HwIntReq, HwIntReq, A!Cp0Read, Cp0Read, A!Cp0Write, Cp0Write, A!StatusWord, StatusWord, A!CauseWord, CauseWord,
     A!LineBits, LineBits, A!LineBit, LineBit, A!STATUS, STATUS, A!CAUSE, CAUSE, A!EPC, EPC, A!PRID_REG, PRID_REG,
     A!Cp0Reset, Cp0Reset, A!TimerReset, TimerReset, A!CtrlOf, CtrlOf, A!CtrlWord, CtrlWord, A!IRQ, IRQ, A!Tick, Tick,
     A!ReadReg, ReadReg, A!WriteReg, WriteReg, A!Selected, Selected, A!DevReg, DevReg
<1>1. A!Cp0Reset = Cp0Reset /\ A!TimerReset = TimerReset
  BY Zenon
<1>2. \A c, lines : A!HwIntReq(c, lines) <=> HwIntReq(c, lines)
  BY Zenon
<1>3. \A c, r : A!Cp0Read(c, r) = Cp0Read(c, r)
  BY Zenon
<1>4. \A c, r, v : A!Cp0Write(c, r, v) = Cp0Write(c, r, v)
  BY Zenon
<1>5. \A t : (A!IRQ(t) <=> IRQ(t)) /\ A!Tick(t) = Tick(t)
  BY Zenon
<1>6. \A t, r : A!ReadReg(t, r) = ReadReg(t, r)
  BY Zenon
<1>7. \A t, r, v : A!WriteReg(t, r, v) = WriteReg(t, r, v)
  BY Zenon
<1>8. \A a : A!Selected(a) = Selected(a) /\ A!DevReg(a) = DevReg(a) /\ A!Align(a) = Align(a) /\ A!U(a) = U(a)
  BY Zenon
<1>9. A!Flag(TRUE) = 1 /\ A!Flag(FALSE) = 0
  BY DEF A!Flag
<1> QED BY ONLY <1>1, <1>2, <1>3, <1>4, <1>5, <1>6, <1>7, <1>8, <1>9

-----------------------------------------------------------------------------
(* The instruction of the sequential machine is the oldest in flight. *)

\* The sequential machine fetches what the pipeline fetches.
LEMMA SameFetch ==
  ASSUME NEW a \in Word
  PROVE  (A!Fetchable(a) <=> FetchExc(a) = 0) /\ A!InstrAt(a) = Fetch(a)
<1>1. a \in Int /\ TEXT_MIN \in Int /\ TEXT_MAX \in Int
  BY ForwardingAssumption, WordsAssumption DEF Word
<1>2. A!Fetchable(a) <=> FetchExc(a) = 0
  BY <1>1 DEF A!Fetchable, FetchExc, ADEL
<1> QED BY <1>2, SameNames DEF A!InstrAt, Fetch

\* The instruction in M is the one to complete, on the machine it sees, and what is behind
\* it is next.
LEMMA OldestReal ==
  ASSUME TypeInv, Pipeline, Real(em)
  PROVE  addr = em.pc /\ OldestStat = em.stat /\ A!Instr = em.ins /\ A!M = Mach /\ SecondPc = PcBehind
<1>1. addr = em.pc /\ OldestStat = em.stat
  BY DEF Real, addr, OldestStat
<1>2. A!Instr = em.ins
  <2>1. em.pc \in Word /\ em.ins = Fetch(em.pc)
    BY DEF TypeInv, Data, Pipeline, Held
  <2> QED BY <1>1, <2>1, SameFetch DEF A!Instr
<1>3. A!M = Mach
  <2>1. Regs = [r \in Reg |-> IF r # 0 /\ r = mw.wa THEN w_write_data ELSE grf[r]]
    BY DEF Regs, Settled
  <2> QED BY <1>1, <2>1 DEF A!M, A!Machine, Mach
<1>4. SecondPc = PcBehind
  BY DEF SecondPc, PcBehind
<1> QED BY <1>1, <1>2, <1>3, <1>4

\* Without an instruction in M the one behind it is the oldest.
LEMMA OldestBehind ==
  ASSUME Pipeline, ~Real(em)
  PROVE  addr = PcBehind /\ OldestStat = StatBehind /\ SecondPc = SecondBehind
BY DEF Pipeline, Bubbles, addr, PcBehind, OldestStat, StatBehind, SecondPc, SecondBehind, Real

\* After a clock without a trap what was behind M is the oldest.
LEMMA OldestStep ==
  ASSUME TypeInv, SlotInv, BdInv, Pipeline, NEW ext \in SUBSET External, State(ext), Retire, Stall \/ Advance
  PROVE  /\ addr' = PcBehind
         /\ OldestStat' = "DS" <=> StatBehind = "DS"
         /\ StatBehind = "DS" => SecondPc' = SecondBehind
<1>1. Held /\ Bubbles /\ BehindExecute
  BY DEF Pipeline
<1>2. em'.stat = de.stat /\ em'.pc = de.pc /\ em'.ins = de.ins
  BY RetireFacts
<1>3. Real(em)' <=> Real(de)
  BY <1>2 DEF Real
<1>4. de'.stat = fd.stat /\ de'.pc = fd.pc /\ text \in Programs
  BY <1>1, FrontFacts
<1>5. CASE de.stat = "EMPTY"
  <2>1. ~Real(de) /\ fd.stat # "DS"
    BY <1>5 DEF Real, BdInv
  <2>2. CASE fd.stat = "EMPTY"
    <3>1. ~stall /\ fd.ins = Nop
      BY <2>2, EmptyNoStall DEF SlotInv
    <3>2. fd'.stat = "NORMAL" /\ fd'.pc = f_pc
      BY <1>1, <3>1, FrontFacts, NopFacts
    <3> QED BY <1>2, <1>4, <1>5, <2>1, <2>2, <3>2 DEF addr, OldestStat, PcBehind, StatBehind
  <2>3. CASE fd.stat # "EMPTY"
    BY <1>2, <1>4, <1>5, <2>1, <2>3 DEF addr, OldestStat, PcBehind, StatBehind
  <2> QED BY <2>2, <2>3
<1>6. CASE de.stat # "EMPTY"
  <2>1. addr' = de.pc /\ OldestStat' = de.stat
    BY <1>2, <1>6 DEF addr, OldestStat
  <2>2. ~Real(de) => de.stat = fd.stat /\ de.pc = fd.pc
    BY <1>1, <1>6 DEF Bubbles
  <2>3. addr' = PcBehind /\ OldestStat' = StatBehind
    BY <1>6, <2>1, <2>2 DEF PcBehind, StatBehind
  <2>4. ASSUME StatBehind = "DS" PROVE SecondPc' = SecondBehind
    <3>1. CASE Real(de)
      <4>1. de.stat = "DS" /\ de.ins = Fetch(de.pc)
        BY <1>1, <2>4, <3>1 DEF StatBehind, Held
      <4>2. de.ins.op \notin Branch \cup {"eret"}
        BY <1>4, <4>1, SlotPlain DEF SlotInv
      <4>3. fd.stat = "NORMAL"
        BY <1>1, <3>1, <4>2 DEF BehindExecute, NextStat
      <4>4. fd.ins = Fetch(fd.pc)
        BY <4>3 DEF SlotInv
      <4>5. CASE stall
        <5>1. fd' = fd /\ ~Real(de)'
          BY <1>1, <4>5, FrontFacts, BubbleFacts DEF Real
        <5> QED BY <1>3, <3>1, <4>3, <5>1 DEF SecondPc, SecondBehind
      <4>6. CASE ~stall
        <5>1. de'.ins = fd.ins
          BY <1>1, <4>6, FrontFacts
        <5>2. Real(de)'
          BY <1>4, <4>3, <4>4, <5>1, FetchReal DEF Real
        <5> QED BY <1>3, <1>4, <3>1, <4>3, <5>2 DEF SecondPc, SecondBehind
      <4> QED BY <4>5, <4>6
    <3>2. CASE ~Real(de)
      <4>1. fd.stat = "DS" /\ fd.ins = Fetch(fd.pc)
        BY <2>4, <3>2 DEF StatBehind, SlotInv
      <4>2. fd.ins.op \notin Branch \cup {"eret"}
        BY <1>4, <4>1, SlotPlain DEF SlotInv
      <4>3. CASE stall
        <5>1. f_pc' = f_pc /\ ~Real(de)'
          BY <1>1, <4>3, FrontFacts, BubbleFacts DEF Real
        <5> QED BY <1>3, <3>2, <5>1 DEF SecondPc, SecondBehind
      <4>4. CASE ~stall
        <5>1. de'.ins = fd.ins /\ fd'.stat = NextStat(fd.ins) /\ fd'.pc = f_pc
          BY <1>1, <4>4, FrontFacts
        <5>2. Real(de)' /\ fd'.stat # "EMPTY"
          BY <1>4, <4>1, <4>2, <5>1, FetchReal DEF Real, NextStat
        <5> QED BY <1>3, <3>2, <5>1, <5>2 DEF SecondPc, SecondBehind
      <4> QED BY <4>3, <4>4
    <3> QED BY <3>1, <3>2
  <2> QED BY <2>3, <2>4
<1> QED BY <1>5, <1>6

-----------------------------------------------------------------------------
(* Exceptions. *)

\* The address of a load or store is in the ALU's result register.
LEMMA AddrTyped ==
  ASSUME TypeInv, Pipeline, Real(em)
  PROVE  /\ Em!Rs(em.ins, Mach) = Settled(em.ins.rs) /\ Em!Rt(em.ins, Mach) = Settled(em.ins.rt)
         /\ Settled(em.ins.rs) \in Word /\ Settled(em.ins.rt) \in Word
         /\ Em!Addr(em.ins, Mach) \in Word
         /\ em.ins.op \in Load \cup Store => em.alu = Em!Addr(em.ins, Mach)
<1> DEFINE i == em.ins
<1> PICK rs \in Reg, rt \in Reg : rs = i.rs /\ rt = i.rt
  BY DEF TypeInv, Data, Usable
<1>1. Em!Rs(i, Mach) = Settled(rs) /\ Em!Rt(i, Mach) = Settled(rt)
  BY DEF Em!Rs, Em!Rt, Mach, Regs
<1>2. Settled(rs) \in Word /\ Settled(rt) \in Word
  BY RegsTyped
<1>3. i.imm \in Word
  BY DEF TypeInv, Data, Usable
<1>4. Settled(rs) + ExtHalf(i.imm) \in Int
  <2>1. i.imm \in Int /\ Settled(rs) \in Int
    BY <1>2, <1>3, WordsAssumption DEF Word
  <2>2. ExtHalf(i.imm) \in Int
    BY <2>1, ExtTyped, WordsAssumption DEF Word
  <2> QED BY <2>1, <2>2
<1>5. Em!Addr(i, Mach) = U(Settled(rs) + ExtHalf(i.imm))
  BY <1>1, EmulatorImm DEF Em!Addr, Em!U, U, Em!WORDS, WORDS
<1>6. i.op \in Load \cup Store => em.alu = Em!Addr(i, Mach)
  BY AluAddress DEF Pipeline, Computes, AluOut
<1> QED BY <1>1, <1>2, <1>4, <1>5, <1>6, Wraps

\* A load or store traps for the bridge and for data memory exactly where the sequential machine
\* neither finds a device nor memory.
LEMMA MemoryTraps ==
  ASSUME NEW i, i.op \in Load \cup Store, NEW m, NEW a \in Word, a = A!Addr(i, m), NEW device, NEW access,
         device = IF i.op \in {"lw", "sw"} /\ a % 4 = 0 THEN Selected(a) ELSE {},
         access <=> device # {} /\ ~(i.op = "sw" /\ DevReg(a) = 2)
  PROVE  /\ MemExc(i, a) = IF access THEN 0 ELSE A!Exception(i, m)
         /\ MemExc(i, a) = 0 => /\ access => BridgeEnable(i, a)
                                /\ ~access => a < DATA_MAX /\ ~BridgeEnable(i, a)
         /\ A!Exception(i, m) = 0 => Em!Exception(i, m) = 0
<1>1. a \in Nat /\ RAM_WORDS \in Nat /\ DATA_MAX = 4 * RAM_WORDS
  BY WordsAssumption, MemoryAssumption DEF Word, DATA_MAX
<1>2. InvalidAddr(i, a) <=> a % A!Granule(i) # 0
  <2>1. a % 1 = 0
    BY <1>1
  <2> QED BY <2>1 DEF InvalidAddr, MemType, A!Granule, Load, Store
<1>3. a \div 4 >= RAM_WORDS <=> a >= DATA_MAX
  BY <1>1
<1>4. A!BadAddr(i, m) <=> InvalidAddr(i, a) \/ a >= DATA_MAX
  BY <1>2, <1>3 DEF A!BadAddr
<1>5. A!Exception(i, m) = IF A!BadAddr(i, m) THEN (IF i.op \in Load THEN ADEL ELSE ADES) ELSE 0
  BY SameNames DEF A!Exception, Load, Store, ADEL, ADES
<1>6. MemType(i) = "WORD" <=> i.op \in {"lw", "sw"}
  BY DEF MemType, Load, Store
<1>7. MemMode(i) = (IF i.op \in Load THEN "READ" ELSE "WRITE") /\ (i.op = "sw" => MemMode(i) = "WRITE")
      /\ (i.op \in {"lw", "sw"} /\ MemMode(i) = "WRITE" => i.op = "sw")
  BY DEF MemMode, Load, Store
<1>8. MemExc(i, a) = IF (IF BridgeEnable(i, a) THEN BridgeErr(i, a) ELSE InvalidAddr(i, a))
                     THEN (IF i.op \in Load THEN ADEL ELSE ADES) ELSE 0
  BY <1>7 DEF MemExc
<1>9. BridgeEnable(i, a) <=> ~InvalidAddr(i, a) /\ a >= DATA_MAX
  BY DEF BridgeEnable
<1>10. BridgeErr(i, a) <=> ~access
  BY <1>6, <1>7 DEF BridgeErr
<1>11. InvalidAddr(i, a) => ~access
  BY <1>6 DEF InvalidAddr
<1>12. access => a >= DATA_MAX
  <2> SUFFICES ASSUME NEW k \in Selected(a) PROVE a >= DATA_MAX
    OBVIOUS
  <2>1. k \in {0, 1} /\ a \in DEV_BASE + 16 * k .. DEV_BASE + 16 * k + 11 /\ DEV_BASE \in Nat /\ DEV_BASE >= DATA_MAX
    BY BridgeAssumption, SeqAssumption DEF Selected
  <2> QED BY <1>1, <2>1
<1>13. (IF i.op \in Load THEN ADEL ELSE ADES) # 0
  BY DEF ADEL, ADES
<1>14. MemExc(i, a) = IF access THEN 0 ELSE A!Exception(i, m)
  BY <1>4, <1>5, <1>8, <1>9, <1>10, <1>11, <1>12
<1>15. MemExc(i, a) = 0 => /\ access => BridgeEnable(i, a)
                           /\ ~access => a < DATA_MAX /\ ~BridgeEnable(i, a)
  <2>1. ~(a >= DATA_MAX) => a < DATA_MAX
    BY <1>1
  <2> QED BY <1>8, <1>9, <1>10, <1>11, <1>12, <1>13, <2>1
<1>16. A!Exception(i, m) = 0 => Em!Exception(i, m) = 0
  <2> SUFFICES ASSUME A!Exception(i, m) = 0 PROVE Em!Exception(i, m) = 0
    OBVIOUS
  <2>1. ~InvalidAddr(i, a) /\ a = Em!Addr(i, m)
    BY <1>4, <1>5, <1>13, Semantics
  <2>2. i.op \in Known
    BY DEF Known
  <2> QED BY <2>1, <2>2, TrapsAgree
<1> QED BY <1>14, <1>15, <1>16

\* What the address of the instruction alone says of its exception.
LEMMA FrontCode ==
  ASSUME NEW a \in Word, addr = a
  PROVE  /\ FrontExc(a) # 0 => A!Code = FrontExc(a)
         /\ FrontExc(a) = 0 => /\ A!Fetchable(addr) /\ A!Instr.op \in Known
                               /\ A!Code = IF A!DevAccess THEN 0 ELSE A!Exception(A!Instr, A!M)
<1>1. (A!Fetchable(addr) <=> FetchExc(a) = 0) /\ A!Instr = Fetch(a)
  BY SameFetch DEF A!Instr
<1>2. FetchExc(a) # 0 => FetchExc(a) = ADEL
  BY DEF FetchExc
<1>3. ADEL # 0 /\ RI # 0
  BY DEF ADEL, RI
<1> QED BY <1>1, <1>2, <1>3, SameNames DEF A!Code, FrontExc, DecodeExc

\* An instruction that accesses no memory traps in E where the sequential machine raises.
LEMMA PlainTraps ==
  ASSUME NEW i, i.op \in Known \ (Load \cup Store), NEW m, Em!Addr(i, m) \in Word
  PROVE  /\ ExecuteExc(i, In0(i, Em!Rs(i, m)), In1(i, Em!Rt(i, m))) = A!Exception(i, m)
         /\ A!Exception(i, m) = Em!Exception(i, m)
<1>1. /\ \A n : A!Fits(n) <=> Em!Fits(n)
      /\ \A w : A!S(w) = Em!S(w)
      /\ A!Rs(i, m) = Em!Rs(i, m) /\ A!Rt(i, m) = Em!Rt(i, m) /\ A!Simm(i) = Em!Simm(i)
  <2> USE DEF A!Fits, Em!Fits, A!S, Em!S, A!U, Em!U, A!WORDS, Em!WORDS, A!HALF, Em!HALF, A!Rs, Em!Rs, A!Rt, Em!Rt, A!Simm,
              Em!Simm, A!ExtHalf, Em!ExtHalf
  <2>1. \A n : A!Fits(n) <=> Em!Fits(n)
    BY Zenon
  <2>2. \A w : A!S(w) = Em!S(w)
    BY Zenon
  <2>3. A!Rs(i, m) = Em!Rs(i, m) /\ A!Rt(i, m) = Em!Rt(i, m) /\ A!Simm(i) = Em!Simm(i)
    BY Zenon
  <2> QED BY ONLY <2>1, <2>2, <2>3
<1>2. A!Exception(i, m) = Em!Exception(i, m) /\ Em!Exception(i, m) \in {0, 12}
  <2>1. i.op \notin A!Load /\ i.op \notin A!Store /\ i.op \notin Em!Load /\ i.op \notin Em!Store
    BY DEF A!Load, A!Store, Em!Load, Em!Store, Load, Store
  <2> QED BY <1>1, <2>1 DEF A!Exception, Em!Exception
<1>3. /\ CheckOverflow(i) => (Overflowed(i, In0(i, Em!Rs(i, m)), In1(i, Em!Rt(i, m))) <=> Em!Exception(i, m) # 0)
      /\ ~CheckOverflow(i) => Em!Exception(i, m) = 0
  BY TrapsAgree
<1> QED BY <1>2, <1>3 DEF ExecuteExc, OV

\* What the sequential machine finds at the address of the load or store in M.
LEMMA Access ==
  ASSUME TypeInv, Pipeline, Real(em), em.ins.op \in Load \cup Store
  PROVE  /\ em.alu = A!Addr(em.ins, Mach) /\ em.alu = A!Addr(A!Instr, A!M)
         /\ A!Device = IF em.ins.op \in {"lw", "sw"} /\ em.alu % 4 = 0 THEN Selected(em.alu) ELSE {}
         /\ A!DevAccess <=> A!Device # {} /\ ~(em.ins.op = "sw" /\ DevReg(em.alu) = 2)
         /\ MemExc(em.ins, em.alu) = IF A!DevAccess THEN 0 ELSE A!Exception(em.ins, Mach)
         /\ MemExc(em.ins, em.alu) = 0 => /\ A!DevAccess => BridgeEnable(em.ins, em.alu)
                                          /\ ~A!DevAccess => em.alu < DATA_MAX /\ ~BridgeEnable(em.ins, em.alu)
         /\ A!Exception(em.ins, Mach) = 0 => Em!Exception(em.ins, Mach) = 0
<1> DEFINE i == em.ins
<1>1. A!Instr = i /\ A!M = Mach
  BY OldestReal
<1>2. em.alu = A!Addr(i, Mach) /\ em.alu \in Word
  BY AddrTyped, Semantics
<1>3. A!Device = IF i.op \in {"lw", "sw"} /\ em.alu % 4 = 0 THEN Selected(em.alu) ELSE {}
  BY <1>1, <1>2, SameDevices DEF A!Device
<1>4. A!DevAccess <=> A!Device # {} /\ ~(i.op = "sw" /\ DevReg(em.alu) = 2)
  BY <1>1, <1>2, SameDevices DEF A!DevAccess
<1>5. /\ MemExc(i, em.alu) = IF A!DevAccess THEN 0 ELSE A!Exception(i, Mach)
      /\ MemExc(i, em.alu) = 0 => /\ A!DevAccess => BridgeEnable(i, em.alu)
                                  /\ ~A!DevAccess => em.alu < DATA_MAX /\ ~BridgeEnable(i, em.alu)
      /\ A!Exception(i, Mach) = 0 => Em!Exception(i, Mach) = 0
  BY <1>2, <1>3, <1>4, MemoryTraps
<1> QED BY <1>1, <1>2, <1>3, <1>4, <1>5

\* M raises what the sequential machine raises: for the instruction it holds, and early for an
\* instruction whose address or opcode is bad and that waits in D.  What completes in the
\* sequential machine completes in the emulator, unless it accesses a device.
LEMMA CodeAgrees ==
  ASSUME TypeInv, Pipeline
  PROVE  /\ Real(em) \/ cp0_exc # 0 => cp0_exc = A!Code
         /\ Real(em) /\ cp0_exc = 0 => /\ em.ins.op \in Known
                                       /\ A!DevAccess \/ Em!Exception(em.ins, Mach) = 0
<1> DEFINE i == em.ins
           e == ExecuteExc(i, In0(i, Settled(i.rs)), In1(i, Settled(i.rt)))
<1>1. Empties /\ Held /\ Bubbles
  BY DEF Pipeline
<1>2. CASE Real(em)
  <2>1. addr = em.pc /\ em.pc \in Word /\ A!Instr = i /\ A!M = Mach
    BY <1>2, OldestReal DEF TypeInv, Data
  <2>2. em.exc = IF FrontExc(em.pc) # 0 THEN FrontExc(em.pc) ELSE e
    BY <1>1, <1>2 DEF Held
  <2>3. CASE FrontExc(em.pc) # 0
    BY <2>1, <2>2, <2>3, FrontCode DEF cp0_exc
  <2>4. CASE FrontExc(em.pc) = 0
    <3>1. i.op \in Known /\ A!Code = IF A!DevAccess THEN 0 ELSE A!Exception(i, Mach)
      BY <2>1, <2>4, FrontCode
    <3>2. /\ Em!Rs(i, Mach) = Settled(i.rs) /\ Em!Rt(i, Mach) = Settled(i.rt) /\ Em!Addr(i, Mach) \in Word
          /\ i.op \in Load \cup Store => em.alu = Em!Addr(i, Mach)
      BY <1>2, AddrTyped
    <3>3. cp0_exc = IF e # 0 THEN e ELSE MemExc(i, em.alu)
      BY <2>2, <2>4 DEF cp0_exc, m_exc
    <3>4. CASE i.op \in Load \cup Store
      <4>1. e = 0
        BY <3>4 DEF ExecuteExc, CheckOverflow, Load, Store
      <4>2. /\ MemExc(i, em.alu) = IF A!DevAccess THEN 0 ELSE A!Exception(i, Mach)
            /\ A!Exception(i, Mach) = 0 => Em!Exception(i, Mach) = 0
        BY <1>2, <3>4, Access
      <4> QED BY <1>2, <3>1, <3>3, <4>1, <4>2
    <3>5. CASE i.op \notin Load \cup Store
      <4>1. MemExc(i, em.alu) = 0
        BY <3>5 DEF MemExc, MemMode
      <4>2. ~A!DevAccess
        BY <2>1, <3>5 DEF A!DevAccess, A!Device, Load, Store
      <4>3. e = A!Exception(i, Mach) /\ A!Exception(i, Mach) = Em!Exception(i, Mach)
        BY <3>1, <3>2, <3>5, PlainTraps
      <4> QED BY <3>1, <3>3, <4>1, <4>2, <4>3
    <3> QED BY <3>4, <3>5
  <2> QED BY <2>3, <2>4
<1>3. CASE ~Real(em)
  <2>1. MemExc(i, em.alu) = 0
    BY <1>1, <1>3, EmptyFacts DEF Empties, MemExc
  <2>2. CASE em.stat = "EMPTY"
    BY <1>1, <1>3, <2>1, <2>2 DEF Empties, Idle, cp0_exc, m_exc
  <2>3. CASE em.stat # "EMPTY"
    <3>1. em.exc = FrontExc(em.pc) /\ addr = em.pc /\ em.pc \in Word
      BY <1>1, <1>3, <2>3 DEF Bubbles, addr, TypeInv, Data
    <3> QED BY <1>3, <2>1, <3>1, FrontCode DEF cp0_exc, m_exc
  <2> QED BY <2>2, <2>3
<1> QED BY <1>2, <1>3

-----------------------------------------------------------------------------
(* Results. *)

\* What M stores, or moves to coprocessor 0, is the register.
LEMMA ReadData ==
  ASSUME TypeInv, Pipeline
  PROVE  m_read_data = Settled(em.ins.rt)
<1>1. em.ins.rt \in Reg
  BY DEF TypeInv, Data, Usable
<1> QED BY <1>1, RegsTyped DEF Pipeline, Latched, m_read_data, Settled

\* A write to a register of the machine M works on.
LEMMA Written ==
  ASSUME NEW r \in Reg, NEW v
  PROVE  LET m == Em!SetGrf(Mach, r, v)
         IN  /\ m.grf = IF r = 0 THEN Regs ELSE [Regs EXCEPT ![r] = v]
             /\ m.lo = mdu.lo /\ m.hi = mdu.hi /\ m.mem = ram
BY DEF Em!SetGrf, Mach

\* The registers after the instruction in M.
LEMMA NextWritten ==
  ASSUME NEW v, WriteAddr(em.ins) \in Reg, WriteAddr(em.ins) # 0 => WriteBack(ExtType(em.ins), m_write_data) = v
  PROVE  NextRegs = IF WriteAddr(em.ins) = 0 THEN Regs ELSE [Regs EXCEPT ![WriteAddr(em.ins)] = v]
<1> PICK w \in Reg : w = WriteAddr(em.ins)
  OBVIOUS
<1>1. \A r \in Reg : Coming(r) = IF r # 0 /\ r = w THEN v ELSE Regs[r]
  BY DEF Coming, Regs
<1>2. NextRegs = [r \in Reg |-> Coming(r)] /\ Regs = [r \in Reg |-> Regs[r]]
  BY DEF NextRegs, Regs
<1>3. NextRegs = IF w = 0 THEN Regs ELSE [Regs EXCEPT ![w] = v]
  BY ONLY <1>1, <1>2, w \in Reg
<1> QED BY <1>3

\* An instruction of M that the emulator completes leaves behind what the emulator leaves.
LEMMA ResultsPlain ==
  ASSUME TypeInv, Pipeline, Real(em), em.ins.op \in Known \ {"mfc0", "mtc0", "eret"}, Em!Exception(em.ins, Mach) = 0,
         em.ins.op \in Load \cup Store => em.alu < DATA_MAX /\ ~BridgeEnable(em.ins, em.alu)
  PROVE  LET m == Em!Effect(em.ins, Mach)
         IN  /\ NextRegs = m.grf
             /\ RamNext(ram, em.ins, em.alu, m_read_data, FALSE) = m.mem
             /\ em.ins.op \notin MulDiv \cup MoveTo => m.lo = mdu.lo /\ m.hi = mdu.hi
<1> DEFINE i == em.ins
           a == Em!Addr(i, Mach)
           v == ValueOut(i, Mach)
           h == UnitOut(i, Mach)
           m == Em!Effect(i, Mach)
           w == WriteAddr(i)
<1>1. /\ Em!Rs(i, Mach) \in Word /\ Em!Rt(i, Mach) \in Word /\ Em!Rt(i, Mach) = Settled(i.rt) /\ a \in Word
      /\ i.op \in Load \cup Store => em.alu = a
  BY AddrTyped
<1>2. i.imm \in Word /\ w \in Reg /\ ram \in [0 .. RAM_WORDS - 1 -> Word]
  BY DEF TypeInv, Data, Usable
<1>3. i.op \in Load \cup Store => a < DATA_MAX /\ a \div 4 \in 0 .. RAM_WORDS - 1 /\ RamWord(ram, a) = ram[a \div 4]
  <2> HIDE DEF a
  <2>1. a \in Nat /\ RAM_WORDS \in Nat
    BY <1>1, WordsAssumption, MemoryAssumption DEF Word
  <2> QED BY <1>1, <2>1 DEF DATA_MAX, RamWord
<1>4. m = [pc |-> Mach.pc, grf |-> IF w = 0 THEN Regs ELSE [Regs EXCEPT ![w] = v],
           lo |-> h.lo, hi |-> h.hi,
           mem |-> IF i.op \in Store
                   THEN [ram EXCEPT ![a \div 4] = WriteLane(i, a, ram[a \div 4], Em!Rt(i, Mach))] ELSE ram]
  <2>1. Mach = [pc |-> Mach.pc, grf |-> Mach.grf, lo |-> Mach.lo, hi |-> Mach.hi, mem |-> Mach.mem]
        /\ Mach.grf = Regs /\ Mach.mem = ram
    BY DEF Mach
  <2>2. i.op \in Load \cup Store => Mach.mem[a \div 4] \in Word
    BY <1>2, <1>3, <2>1
  <2>3. i.op \in Known \ {"mfc0", "mtc0", "eret"} /\ Em!Exception(i, Mach) = 0
    OBVIOUS
  <2>4. m = [pc |-> Mach.pc, grf |-> IF w = 0 THEN Mach.grf ELSE [Mach.grf EXCEPT ![w] = v],
             lo |-> h.lo, hi |-> h.hi,
             mem |-> IF i.op \in Store
                     THEN [Mach.mem EXCEPT ![a \div 4] = WriteLane(i, a, Mach.mem[a \div 4], Em!Rt(i, Mach))] ELSE Mach.mem]
    BY ONLY <1>1, <1>2, <2>1, <2>2, <2>3, Completes
  <2> QED BY <2>1, <2>4
<1>5. ASSUME w # 0 PROVE WriteBack(ExtType(i), m_write_data) = v
  <2>1. CASE WriteStage(i) = EXECUTE
    <3>1. em.wd = AluOut(i, Mach) /\ ExtType(i) = "NONE"
      BY <2>1, WriterFacts DEF Pipeline, Computes, EXECUTE, MEM
    <3>2. m_write_data = em.wd
      BY <2>1 DEF m_write_data, EXECUTE, MEM
    <3> QED BY <2>1, <3>1, <3>2 DEF WriteBack, ValueOut
  <2>2. CASE WriteStage(i) = MEM
    <3>1. i.op \in Load
      BY <2>2 DEF WriteStage, EXECUTE, MEM, DECODE
    <3>2. m_write_data = ReadLane(i, a, ram[a \div 4])
      BY <1>1, <1>3, <2>2, <3>1 DEF m_write_data, m_mem_read_data
    <3>3. AluOut(i, Mach) = a /\ Mach.mem = ram
      BY <1>1, <3>1 DEF Pipeline, Computes, Mach
    <3> QED BY <2>2, <3>2, <3>3 DEF ValueOut, EXECUTE, MEM
  <2>3. CASE WriteStage(i) = DECODE
    <3>1. i.op \in {"jal", "jalr"} /\ ExtType(i) = "NONE"
      BY <1>5, <2>3, WriterFacts DEF DECODE, MEM
    <3>2. em.wd = U(em.pc + 8) /\ Mach.pc = em.pc
      BY <3>1 DEF Pipeline, Computes, Mach
    <3>3. m_write_data = em.wd
      BY <2>3, <3>1 DEF m_write_data, DECODE, MEM
    <3> QED BY <2>3, <3>1, <3>2, <3>3 DEF WriteBack, ValueOut, DECODE, EXECUTE, MEM
  <2> QED BY <2>1, <2>2, <2>3, WriterFacts
<1>6. NextRegs = IF w = 0 THEN Regs ELSE [Regs EXCEPT ![w] = v]
  BY <1>2, <1>5, NextWritten
<1>7. RamNext(ram, i, em.alu, m_read_data, FALSE) =
        IF i.op \in Store THEN [ram EXCEPT ![a \div 4] = WriteLane(i, a, ram[a \div 4], Em!Rt(i, Mach))] ELSE ram
  <2>1. CASE i.op \in Store
    BY <1>1, <1>3, <2>1, ReadData, WriterFacts DEF RamNext
  <2>2. CASE i.op \notin Store
    BY <2>2, WriterFacts DEF RamNext
  <2> QED BY <2>1, <2>2
<1>8. i.op \notin MulDiv \cup MoveTo => h.lo = mdu.lo /\ h.hi = mdu.hi
  BY DEF UnitOut, MduStart, Unit, Mach, MulDiv, MoveTo
<1> HIDE DEF i, a, v, h, w, m
<1>9. m.grf = NextRegs /\ m.mem = RamNext(ram, i, em.alu, m_read_data, FALSE) /\ m.lo = h.lo /\ m.hi = h.hi
  BY <1>4, <1>6, <1>7
<1> QED BY <1>8, <1>9 DEF m, i

\* The instruction that leaves M leaves behind what the sequential machine computes.
LEMMA Results ==
  ASSUME TypeInv, Pipeline, Real(em), cp0_exc = 0, em.ins.op # "eret"
  PROVE  /\ NextRegs = A!Result.grf
         /\ RamNext(ram, em.ins, em.alu, m_read_data, FALSE) = A!Result.mem
         /\ em.ins.op \notin MulDiv \cup MoveTo => A!Result.lo = mdu.lo /\ A!Result.hi = mdu.hi
<1> DEFINE i == em.ins
<1>1. A!Instr = i /\ A!M = Mach
  BY OldestReal
<1>2. i.op \in Known /\ (A!DevAccess \/ Em!Exception(i, Mach) = 0) /\ MemExc(i, em.alu) = 0
  BY CodeAgrees DEF cp0_exc, m_exc
<1>3. i.rt \in Reg /\ WriteAddr(i) \in Reg
  BY DEF TypeInv, Data, Usable
<1>4. A!DevAccess => i.op \in {"lw", "sw"}
  BY <1>1 DEF A!DevAccess, A!Device
<1>5. Mach.grf = Regs /\ Mach.mem = ram /\ Mach.lo = mdu.lo /\ Mach.hi = mdu.hi
  BY DEF Mach
<1>6. CASE i.op = "mfc0"
  <2>1. A!Result = Em!SetGrf(Mach, i.rt, Cp0Read(cp0, i.rd))
    BY <1>1, <1>6, Semantics, SameDevices DEF A!Result
  <2>2. WriteAddr(i) = i.rt /\ ExtType(i) = "NONE" /\ MemMode(i) = "NONE" /\ i.op \notin MulDiv \cup MoveTo
    BY <1>6 DEF WriteAddr, ExtType, MemMode, Arith3, AddSub, Logic, Compare, Shift, ShiftV, MoveFrom, ArithImm, AddImm,
                LogicImm, CmpImm, Load, Store, MulDiv, MoveTo
  <2>3. WriteBack(ExtType(i), m_write_data) = Cp0Read(cp0, i.rd)
    BY <1>6, <2>2 DEF WriteBack, m_write_data
  <2>4. NextRegs = IF i.rt = 0 THEN Regs ELSE [Regs EXCEPT ![i.rt] = Cp0Read(cp0, i.rd)]
    BY <1>3, <2>2, <2>3, NextWritten
  <2>5. RamNext(ram, i, em.alu, m_read_data, FALSE) = ram
    BY <2>2 DEF RamNext
  <2> QED BY <1>3, <2>1, <2>4, <2>5, Written
<1>7. CASE i.op = "mtc0"
  <2>1. A!Result = Mach
    BY <1>1, <1>4, <1>7, SameNames
       DEF A!Result, A!Effect, A!HiLoEffect, A!Arith3, A!AddSub, A!Logic, A!Compare, A!Shift, A!ShiftV, A!ArithImm,
           A!AddImm, A!LogicImm, A!CmpImm, A!Load, A!Store, A!MulDiv
  <2>2. WriteAddr(i) = 0 /\ MemMode(i) = "NONE"
    BY <1>7 DEF WriteAddr, MemMode, Arith3, AddSub, Logic, Compare, Shift, ShiftV, MoveFrom, ArithImm, AddImm,
                LogicImm, CmpImm, Load, Store
  <2>3. NextRegs = Regs
    BY <1>3, <2>2, NextWritten
  <2>4. RamNext(ram, i, em.alu, m_read_data, FALSE) = ram
    BY <2>2 DEF RamNext
  <2> QED BY <1>5, <2>1, <2>3, <2>4
<1>8. CASE i.op = "lw" /\ A!DevAccess
  <2>1. em.alu = A!Addr(A!Instr, A!M) /\ BridgeEnable(i, em.alu) /\ A!Device = Selected(em.alu) /\ Selected(em.alu) # {}
    BY <1>2, <1>8, Access DEF Load, A!DevAccess
  <2> DEFINE v == ReadReg(tc[CHOOSE k \in Selected(em.alu) : TRUE], DevReg(em.alu))
  <2>2. A!Result = Em!SetGrf(Mach, i.rt, v)
    BY <1>1, <1>8, <2>1, Semantics, SameDevices DEF A!Result
  <2>3. WriteAddr(i) = i.rt /\ ExtType(i) = "NONE" /\ MemMode(i) = "READ" /\ i.op \notin MulDiv \cup MoveTo
        /\ WriteStage(i) = MEM
    BY <1>8 DEF WriteAddr, ExtType, MemMode, WriteStage, Arith3, AddSub, Logic, Compare, Shift, ShiftV, MoveFrom, ArithImm,
                AddImm, LogicImm, CmpImm, Load, Store, MulDiv, MoveTo
  <2>4. WriteBack(ExtType(i), m_write_data) = v
    BY <1>8, <2>1, <2>3 DEF WriteBack, m_write_data, m_mem_read_data
  <2> HIDE DEF v
  <2>5. NextRegs = IF i.rt = 0 THEN Regs ELSE [Regs EXCEPT ![i.rt] = v]
    BY <1>3, <2>3, <2>4, NextWritten
  <2>6. RamNext(ram, i, em.alu, m_read_data, FALSE) = ram
    BY <2>3 DEF RamNext
  <2> QED BY <1>3, <2>2, <2>5, <2>6, Written
<1>9. CASE i.op = "sw" /\ A!DevAccess
  <2>1. BridgeEnable(i, em.alu)
    BY <1>2, <1>9, Access DEF Store
  <2>2. A!Result = Mach
    BY <1>1, <1>9 DEF A!Result
  <2>3. WriteAddr(i) = 0
    BY <1>9, WriterFacts DEF Store
  <2>4. NextRegs = Regs
    BY <1>3, <2>3, NextWritten
  <2>5. RamNext(ram, i, em.alu, m_read_data, FALSE) = ram
    BY <2>1 DEF RamNext
  <2> QED BY <1>5, <2>2, <2>4, <2>5
<1>10. CASE i.op \notin {"mfc0", "mtc0"} /\ ~A!DevAccess
  <2>1. A!Result = Em!Effect(i, Mach)
    BY <1>1, <1>10, Semantics DEF A!Result
  <2>2. i.op \in Known \ {"mfc0", "mtc0", "eret"} /\ Em!Exception(i, Mach) = 0
    BY <1>2, <1>10
  <2>3. i.op \in Load \cup Store => em.alu < DATA_MAX /\ ~BridgeEnable(i, em.alu)
    BY <1>2, <1>10, Access
  <2> QED BY <2>1, <2>2, <2>3, ResultsPlain
<1> QED BY <1>4, <1>6, <1>7, <1>8, <1>9, <1>10

\* HI and LO run ahead by the instruction that leaves E, and by no other.
LEMMA HiLoStep ==
  ASSUME TypeInv, SlotInv, BdInv, MduInv, Pipeline,
         NEW ext \in SUBSET External, State(ext), ~cp0_int_req(ext), Retire, Stall \/ Advance
  PROVE  A!HiLo([lo |-> mdu.lo, hi |-> mdu.hi])
<1> DEFINE i == de.ins
           g == Regs'
           m == A!Machine(addr', g, [lo |-> mdu.lo, hi |-> mdu.hi], ram')
<1>1. em'.stat = de.stat /\ em'.ins = i /\ \A r \in Reg : Settled(r)' = Coming(r)
  BY RetireFacts
<1>2. Real(em)' <=> Real(de)
  BY <1>1 DEF Real
<1>3. [r \in Reg |-> IF r # 0 /\ r = mw.wa THEN w_write_data ELSE grf[r]]' = g
  BY DEF Regs, Settled
<1>4. CASE Real(de) /\ i.op \in MulDiv \cup MoveTo
  <2>1. addr' = de.pc /\ de.pc \in Word
    <3>1. em'.pc = de.pc /\ em'.stat # "EMPTY"
      BY <1>1, <1>4, RetireFacts DEF Real
    <3> QED BY <3>1 DEF addr, TypeInv, Data
  <2>2. i = Fetch(de.pc) /\ FetchExc(de.pc) = 0
    <3>1. i = Fetch(de.pc) /\ i.op # "sll" /\ text \in Programs
      BY <1>4 DEF Pipeline, Held, SlotInv, MulDiv, MoveTo
    <3> QED BY <3>1, FetchReal
  <2>3. A!Fetchable(addr') /\ A!InstrAt(addr') = i
    BY <2>1, <2>2, SameFetch
  <2>4. A!HiLoWriter(i)
    BY <1>4, SameNames DEF A!HiLoWriter
  <2> PICK rs \in Reg, rt \in Reg : rs = i.rs /\ rt = i.rt
    BY DEF TypeInv, Data, Usable
  <2>5. m.grf = g /\ m.lo = mdu.lo /\ m.hi = mdu.hi
        /\ m = [pc |-> m.pc, grf |-> m.grf, lo |-> m.lo, hi |-> m.hi, mem |-> m.mem]
    BY DEF A!Machine
  <2>6. Em!Rs(i, m) = Coming(rs) /\ Em!Rt(i, m) = Coming(rt)
    <3>1. \A r \in Reg : g[r] = Coming(r)
      BY <1>1 DEF Regs
    <3> HIDE DEF g, m, i
    <3> QED BY <2>5, <3>1 DEF Em!Rs, Em!Rt
  <2>7. mdu' = MduStart(mdu, i, In0(i, Coming(rs)), In1(i, Coming(rt))) /\ mdu = [lo |-> mdu.lo, hi |-> mdu.hi, busy |-> 0]
    <3>1. mdu.busy = 0 /\ mdu = [lo |-> mdu.lo, hi |-> mdu.hi, busy |-> mdu.busy]
      BY <1>4 DEF MduInv, MduIdle, MduTyped, HiLoOp
    <3>2. mdu' = MduStart(mdu, i, e_in0, e_in1)
      BY <3>1 DEF State, MduNext
    <3>3. MduStart(mdu, i, e_in0, e_in1) = MduStart(mdu, i, In0(i, Coming(rs)), In1(i, Coming(rt)))
      BY <1>4, Operands DEF Pipeline
    <3> QED BY <3>1, <3>2, <3>3
  <2>8. i.op \in Known
    BY <1>4 DEF Known, HiLoOp
  <2> HIDE DEF m, i
  <2>9. mdu'.lo = Em!HiLoEffect(i, m).lo /\ mdu'.hi = Em!HiLoEffect(i, m).hi
    BY <2>5, <2>6, <2>7, <2>8, HiLoAgree
  <2>10. A!HiLoEffect(i, m) = Em!HiLoEffect(i, m)
    BY Semantics
  <2>11. (Real(em) /\ em.ins.op \in MulDiv \cup MoveTo)'
    BY <1>1, <1>2, <1>4 DEF i
  <2> USE DEF m
  <2> QED BY <1>3, <2>3, <2>4, <2>9, <2>10, <2>11 DEF A!HiLo
<1>5. CASE ~(Real(de) /\ i.op \in MulDiv \cup MoveTo)
  <2>1. i.op \notin MulDiv \cup MoveTo
    BY <1>5, EmptyFacts DEF Pipeline, Empties, HiLoOp
  <2>2. mdu'.lo = mdu.lo /\ mdu'.hi = mdu.hi
    BY <2>1, MduKept
  <2>3. ~(Real(em) /\ em.ins.op \in MulDiv \cup MoveTo)'
    BY <1>1, <2>1
  <2> QED BY <2>2, <2>3 DEF A!HiLo
<1> QED BY <1>4, <1>5

-----------------------------------------------------------------------------
(* The steps. *)

\* The registers of the sequential machine, and whether it is in a delay slot, after a clock.
LEMMA Registers ==
  /\ [r \in Reg |-> IF r # 0 /\ r = mw.wa THEN w_write_data ELSE grf[r]] = Regs
  /\ [r \in Reg |-> IF r # 0 /\ r = mw.wa THEN w_write_data ELSE grf[r]]' = Regs'
BY DEF Regs, Settled

\* The lines the sequential machine sees are those of the CPU.
LEMMA SameLines ==
  ASSUME NEW ext
  PROVE  /\ ext \cup {k \in Timers : A!IRQ(tc[k])} = cp0_hw_int(ext)
         /\ A!Pending(cp0_hw_int(ext)) <=> HwIntReq(cp0, cp0_hw_int(ext))
         /\ cp0_int_req(ext) <=> cp0_exc # 0 \/ HwIntReq(cp0, cp0_hw_int(ext))
<1>1. {k \in Timers : A!IRQ(tc[k])} = {k \in Timers : IRQ(tc[k])}
  BY SameDevices
<1> QED BY <1>1, SameDevices DEF cp0_hw_int, A!Pending, cp0_int_req, IntReq

\* An mtc0 or eret in M raises no exception.
LEMMA SystemRaisesNothing ==
  ASSUME SlotInv, Pipeline, em.ins.op \in {"mtc0", "eret"}
  PROVE  Real(em) /\ cp0_exc = 0
<1>1. Real(em)
  BY DEF Pipeline, Empties, Idle, Real, Nop, Bubble
<1>2. em.ins = Fetch(em.pc) /\ text \in Programs
  BY <1>1 DEF Pipeline, Held, SlotInv
<1>3. FrontExc(em.pc) = 0
  BY <1>2, FetchReal DEF FrontExc, DecodeExc, Known
<1>4. em.exc = 0
  BY <1>1, <1>3 DEF Pipeline, Held, ExecuteExc, CheckOverflow
<1>5. MemExc(em.ins, em.alu) = 0
  BY DEF MemExc, MemMode, Load, Store
<1> QED BY <1>1, <1>4, <1>5 DEF cp0_exc, m_exc

\* Whether M holds a delay slot is whether the sequential machine is in one.
LEMMA SlotAgrees ==
  ASSUME BdInv
  PROVE  OldestStat = "DS" <=> em.stat = "DS"
BY DEF BdInv, OldestStat

\* A trap enters the handler, and leaves the registers, HI and LO, memory and the timers alone.
LEMMA TrapState ==
  ASSUME TypeInv, MduInv, NEW ext \in SUBSET External, State(ext), cp0_int_req(ext), Trap
  PROVE  /\ addr' = HANDLER /\ OldestStat' # "DS" /\ ~Real(em)'
         /\ Regs' = Regs /\ mdu'.lo = mdu.lo /\ mdu'.hi = mdu.hi /\ ram' = ram
         /\ tc' = [k \in Timers |-> A!Tick(tc[k])]
<1>1. addr' = HANDLER /\ OldestStat' # "DS" /\ ~Real(em)'
  BY DEF Trap, FdEmpty, Killed, DecodeOut, ExecuteOut, addr, OldestStat, Real
<1>2. Regs' = Regs
  <2>1. mw'.wa = 0
    BY DEF Trap
  <2>2. \A r \in Reg : Settled(r)' = Settled(r)
    BY <2>1, GrfStep DEF Settled
  <2> QED BY <2>2 DEF Regs
<1>3. ram' = ram
  BY DEF State, RamNext
<1>4. tc' = [k \in Timers |-> A!Tick(tc[k])]
  BY SameDevices DEF State, dev_we
<1> QED BY <1>1, <1>2, <1>3, <1>4, MduKept

\* The state of coprocessor 0 on entry to the handler.
Entry(c, code, lines, bd, epc) == [c EXCEPT !.exl = 1, !.exc = code, !.ip = lines, !.bd = bd, !.epc = epc]
Cp0Fields == {"ie", "exl", "im", "bd", "exc", "ip", "epc"}

\* Field by field: interrupts and masks are kept, everything else is set.
LEMMA Entered ==
  ASSUME NEW c, Cp0Typed(c), NEW x, NEW l, NEW b, NEW r
  PROVE  Entry(c, x, l, b, r) =
           [ie |-> c.ie, exl |-> 1, im |-> c.im, bd |-> b, exc |-> x, ip |-> l, epc |-> r]
<1> DEFINE e == [c EXCEPT !.exl = 1, !.exc = x, !.ip = l, !.bd = b, !.epc = r]
           g == [ie |-> c.ie, exl |-> 1, im |-> c.im, bd |-> b, exc |-> x, ip |-> l, epc |-> r]
<1>1. c = [k \in Cp0Fields |-> c[k]]
  BY DEF Cp0Typed, Cp0Fields
<1>2. e = [k \in Cp0Fields |-> e[k]]
  BY <1>1 DEF Cp0Fields
<1>3. g = [k \in Cp0Fields |-> g[k]]
  BY DEF Cp0Fields
<1>4. e.ie = c.ie /\ e.exl = 1 /\ e.im = c.im /\ e.bd = b /\ e.exc = x /\ e.ip = l /\ e.epc = r
  BY <1>1 DEF Cp0Fields
<1>5. g.ie = c.ie /\ g.exl = 1 /\ g.im = c.im /\ g.bd = b /\ g.exc = x /\ g.ip = l /\ g.epc = r
  OBVIOUS
<1> HIDE DEF e, g
<1>6. \A k \in Cp0Fields : e[k] = g[k]
  BY <1>4, <1>5 DEF Cp0Fields
<1> QED BY ONLY <1>2, <1>3, <1>6 DEF e, g, Entry

\* The state of coprocessor 0 after an eret.
LEMMA Returned ==
  ASSUME NEW c, Cp0Typed(c), NEW l
  PROVE  [c EXCEPT !.exl = 0, !.ip = l] = [[c EXCEPT !.exl = 0] EXCEPT !.ip = l]
<1> DEFINE e == [c EXCEPT !.exl = 0, !.ip = l]
           g == [[c EXCEPT !.exl = 0] EXCEPT !.ip = l]
<1>1. c = [k \in Cp0Fields |-> c[k]]
  BY DEF Cp0Typed, Cp0Fields
<1>2. e = [k \in Cp0Fields |-> e[k]] /\ g = [k \in Cp0Fields |-> g[k]]
  BY <1>1 DEF Cp0Fields
<1>3. \A k \in Cp0Fields : e[k] = g[k]
  BY <1>1 DEF Cp0Fields
<1> HIDE DEF e, g
<1> QED BY ONLY <1>2, <1>3 DEF e, g

\* A trap raises an exception, takes an interrupt, or loses one on an mtc0 or eret.
LEMMA TrapStep ==
  ASSUME TypeInv, SlotInv, BdInv, MduInv, Pipeline, NEW ext \in SUBSET External, State(ext), cp0_int_req(ext), Trap
  PROVE  A!Clock(cp0_hw_int(ext))
<1> DEFINE lines == cp0_hw_int(ext)
           slot == IF OldestStat = "DS" THEN <<SecondPc>> ELSE <<>>
           ahead == Real(em) /\ em.ins.op \in MulDiv \cup MoveTo
           regs == [r \in Reg |-> IF r # 0 /\ r = mw.wa THEN w_write_data ELSE grf[r]]
           hl == [lo |-> mdu.lo, hi |-> mdu.hi]
<1>1. addr' = HANDLER /\ slot' = <<>> /\ ahead' = FALSE
  BY TrapState
<1>2. regs' = regs /\ hl' = hl /\ ram' = ram /\ tc' = [k \in Timers |-> A!Tick(tc[k])]
  BY TrapState, Registers
<1>3. slot # <<>> <=> em.stat = "DS"
  BY SlotAgrees
<1>4. cp0' = Cp0Next(cp0, em.ins, m_read_data, em.stat = "DS", addr, cp0_exc, lines)
  BY DEF State
<1>5. Cp0Typed(cp0)
  BY DEF TypeInv, ControlInv
<1> HIDE DEF lines, slot, ahead, regs, hl
<1>6. CASE em.ins.op \notin {"mtc0", "eret"}
  <2> DEFINE code == IF HwIntReq(cp0, lines) THEN 0 ELSE cp0_exc
             resume == U(Align(addr) - (IF slot # <<>> THEN 4 ELSE 0))
  <2>1. resume = IF em.stat = "DS" THEN U(Align(addr) - 4) ELSE Align(addr)
    <3>1. Align(addr) \in 0 .. WORDS - 1 /\ WORDS \in Nat \ {0}
      BY SignalsTyped, AlignTyped, WordsDivisible DEF TypeInv, Word
    <3>2. U(Align(addr) - 0) = Align(addr)
      BY <3>1, SmallMod DEF U
    <3> QED BY <1>3, <3>2
  <2>2. cp0' = [Cp0Trap(cp0, em.stat = "DS", addr, cp0_exc, lines) EXCEPT !.ip = lines]
    BY <1>4, <1>6 DEF Cp0Next, cp0_int_req, lines
  <2>3. cp0' = [ie |-> cp0.ie, exl |-> 1, im |-> cp0.im, bd |-> Flag(em.stat = "DS"), exc |-> code, ip |-> lines, epc |-> resume]
    BY <2>1, <2>2 DEF Cp0Trap
  <2> DEFINE bit == Flag(em.stat = "DS")
  <2>4. bit = A!Flag(slot # <<>>)
    BY <1>3 DEF Flag, A!Flag
  <2>5. resume = A!U(A!Align(addr) - (IF slot # <<>> THEN 4 ELSE 0))
    BY SameDevices
  <2> HIDE DEF bit, code, resume
  <2>6. cp0' = [cp0 EXCEPT !.exl = 1, !.exc = code, !.ip = lines, !.bd = bit, !.epc = resume]
    <3>1. cp0' = [ie |-> cp0.ie, exl |-> 1, im |-> cp0.im, bd |-> bit, exc |-> code, ip |-> lines, epc |-> resume]
      BY <2>3 DEF bit
    <3>2. cp0' = Entry(cp0, code, lines, bit, resume)
      BY ONLY <1>5, <3>1, Entered
    <3> QED BY ONLY <3>2 DEF Entry
  <2>7. A!Enter(lines, code)
    BY <1>1, <1>2, <2>4, <2>5, <2>6 DEF A!Enter, A!TickAll, slot, ahead, regs, hl
  <2>8. CASE HwIntReq(cp0, lines)
    BY <2>7, <2>8, SameLines DEF code, A!Interrupt, A!Clock, lines
  <2>9. CASE ~HwIntReq(cp0, lines)
    <3>1. cp0_exc # 0 /\ cp0_exc = A!Code
      BY <2>9, SameLines, CodeAgrees DEF lines
    <3> QED BY <2>7, <2>9, <3>1, SameLines DEF code, A!Raise, A!Clock, lines
  <2> QED BY <2>8, <2>9
<1>7. CASE em.ins.op \in {"mtc0", "eret"}
  <2>1. Real(em) /\ cp0_exc = 0 /\ A!Code = 0 /\ A!Instr = em.ins
    BY <1>7, SystemRaisesNothing, CodeAgrees, OldestReal
  <2>2. A!Pending(lines)
    BY <2>1, SameLines DEF lines
  <2>3. regs[em.ins.rt] = m_read_data
    <3>1. em.ins.rt \in Reg
      BY DEF TypeInv, Data, Usable
    <3> QED BY <3>1, ReadData, Registers DEF regs, Regs
  <2>4. cp0' = [(IF em.ins.op = "mtc0" THEN A!Cp0Write(cp0, em.ins.rd, regs[em.ins.rt]) ELSE [cp0 EXCEPT !.exl = 0]) EXCEPT !.ip = lines]
    BY <1>4, <1>7, <2>3, SameDevices DEF Cp0Next
  <2>5. A!Unsaved(lines)
    BY <1>1, <1>2, <1>7, <2>1, <2>2, <2>4 DEF A!Unsaved, A!TickAll, slot, ahead, regs, hl
  <2> QED BY <2>5 DEF A!Clock, lines
<1> QED BY <1>6, <1>7

\* What a clock without a trap does to the registers and memory.
LEMMA NoTrapData ==
  ASSUME TypeInv, Pipeline, NEW ext \in SUBSET External, State(ext), ~cp0_int_req(ext), Retire
  PROVE  /\ cp0_exc = 0 /\ ~A!Pending(cp0_hw_int(ext))
         /\ Regs' = NextRegs
         /\ ram' = RamNext(ram, em.ins, em.alu, m_read_data, FALSE)
<1>1. cp0_exc = 0 /\ ~A!Pending(cp0_hw_int(ext))
  BY SameLines
<1>2. Regs' = NextRegs
  BY RetireFacts DEF Regs, NextRegs
<1>3. ram' = RamNext(ram, em.ins, em.alu, m_read_data, cp0_int_req(ext))
  BY DEF State
<1>4. ram' = RamNext(ram, em.ins, em.alu, m_read_data, FALSE)
  BY <1>3 DEF RamNext
<1> QED
  BY <1>1, <1>2, <1>4

\* What it does to coprocessor 0.
LEMMA Cp0Completes ==
  ASSUME TypeInv, Pipeline, NEW ext \in SUBSET External, State(ext), ~cp0_int_req(ext)
  PROVE  LET c == IF em.ins.op = "mtc0" THEN Cp0Write(cp0, em.ins.rd, Settled(em.ins.rt))
                  ELSE IF em.ins.op = "eret" THEN [cp0 EXCEPT !.exl = 0] ELSE cp0
         IN  cp0' = [c EXCEPT !.ip = cp0_hw_int(ext)]
<1>1. cp0' = Cp0Next(cp0, em.ins, m_read_data, em.stat = "DS", addr, cp0_exc, cp0_hw_int(ext))
  BY DEF State
<1>2. ~IntReq(cp0, cp0_exc, cp0_hw_int(ext)) /\ m_read_data = Settled(em.ins.rt)
  BY ReadData DEF cp0_int_req
<1> QED BY ONLY <1>1, <1>2 DEF Cp0Next

\* The devices see the store of the instruction that completes, and nothing else.
LEMMA DevicesStep ==
  ASSUME TypeInv, Pipeline, NEW ext \in SUBSET External, State(ext), ~cp0_int_req(ext), cp0_exc = 0
  PROVE  /\ em.ins.op # "sw" => tc' = [k \in Timers |-> A!Tick(tc[k])]
         /\ Real(em) => tc' = [k \in Timers |-> IF A!Instr.op = "sw" /\ A!DevAccess /\ k \in A!Device
                                 THEN A!WriteReg(tc[k], A!DevReg(A!Addr(A!Instr, A!M)), Settled(em.ins.rt)) ELSE A!Tick(tc[k])]
<1>1. tc' = [k \in Timers |-> IF dev_we(ext) /\ k \in Selected(em.alu)
                              THEN WriteReg(tc[k], DevReg(em.alu), Settled(em.ins.rt)) ELSE Tick(tc[k])]
  BY ReadData DEF State
<1>2. dev_we(ext) <=> BridgeEnable(em.ins, em.alu) /\ em.ins.op \in Store
  BY WriterFacts DEF dev_we
<1>3. BridgeEnable(em.ins, em.alu) /\ em.ins.op \in Store /\ Selected(em.alu) # {} => em.ins.op = "sw"
  <2> SUFFICES ASSUME BridgeEnable(em.ins, em.alu), em.ins.op \in Store \ {"sw"} PROVE FALSE
    OBVIOUS
  <2>1. BridgeErr(em.ins, em.alu)
    BY DEF BridgeErr, MemType, Store
  <2>2. MemExc(em.ins, em.alu) # 0
    BY <2>1, WriterFacts DEF MemExc, ADEL, ADES
  <2> QED BY <2>2 DEF cp0_exc, m_exc
<1>4. em.ins.op # "sw" => tc' = [k \in Timers |-> A!Tick(tc[k])]
  BY <1>1, <1>2, <1>3, SameDevices
<1>5. ASSUME Real(em), em.ins.op = "sw"
      PROVE  tc' = [k \in Timers |-> IF A!Instr.op = "sw" /\ A!DevAccess /\ k \in A!Device
                      THEN A!WriteReg(tc[k], A!DevReg(A!Addr(A!Instr, A!M)), Settled(em.ins.rt)) ELSE A!Tick(tc[k])]
  <2>1. /\ em.alu = A!Addr(A!Instr, A!M) /\ MemExc(em.ins, em.alu) = 0
        /\ A!Device = IF em.alu % 4 = 0 THEN Selected(em.alu) ELSE {}
        /\ A!DevAccess => BridgeEnable(em.ins, em.alu) /\ A!Device # {}
        /\ ~A!DevAccess => ~BridgeEnable(em.ins, em.alu)
    BY <1>5, Access DEF Store, cp0_exc, m_exc
  <2>2. A!Instr.op = "sw"
    BY <1>5, OldestReal
  <2>3. \A k : dev_we(ext) /\ k \in Selected(em.alu) <=> A!DevAccess /\ k \in A!Device
    BY <1>2, <1>5, <2>1 DEF Store
  <2>4. \A t : WriteReg(t, DevReg(em.alu), Settled(em.ins.rt)) =
               A!WriteReg(t, A!DevReg(A!Addr(A!Instr, A!M)), Settled(em.ins.rt))
    BY <2>1, SameDevices
  <2> QED BY <1>1, <2>2, <2>3, <2>4, SameDevices
<1>6. ASSUME Real(em), em.ins.op # "sw" PROVE A!Instr.op # "sw"
  BY <1>6, OldestReal
<1> QED BY <1>4, <1>5, <1>6

\* A branch decides by its address and the registers alone.
LEMMA BranchDecides ==
  ASSUME NEW i, NEW m, NEW n, m.pc = n.pc, m.grf = n.grf
  PROVE  /\ Em!BranchResult(i, m) = Em!BranchResult(i, n)
         /\ <<Goes(i, m)>> = IF Em!BranchResult(i, n) = <<>> THEN <<U(n.pc + 8)>> ELSE Em!BranchResult(i, n)
<1>1. Em!Taken(i, m) = Em!Taken(i, n)
  BY DEF Em!Taken, Em!Rs, Em!Rt
<1>2. Em!Target(i, m) = Em!Target(i, n)
  BY DEF Em!Target, Em!Rs, Em!Region
<1>3. Em!BranchResult(i, m) = Em!BranchResult(i, n)
  BY <1>1, <1>2 DEF Em!BranchResult
<1>4. Em!BranchResult(i, n) # <<>> => Em!BranchResult(i, n) = <<Em!Target(i, n)>>
  BY DEF Em!BranchResult
<1> QED BY <1>3, <1>4 DEF Goes

\* Where the sequential machine goes after the instruction in M.
LEMMA PlacesStep ==
  ASSUME TypeInv, SlotInv, BdInv, Pipeline, NEW ext \in SUBSET External, State(ext), Retire, Stall \/ Advance,
         Real(em), em.ins.op # "eret"
  PROVE  LET slot == IF OldestStat = "DS" THEN <<SecondPc>> ELSE <<>>
         IN IF slot # <<>> THEN addr' = slot[1] /\ slot' = <<>>
            ELSE /\ addr' = A!U(addr + 4)
                 /\ slot' = IF A!Instr.op \notin A!Branch THEN <<>>
                            ELSE IF A!BranchResult(A!Instr, A!M) = <<>> THEN <<A!U(addr + 8)>> ELSE A!BranchResult(A!Instr, A!M)
<1> DEFINE slot == IF OldestStat = "DS" THEN <<SecondPc>> ELSE <<>>
           i == em.ins
<1>1. /\ addr = em.pc /\ OldestStat = em.stat /\ A!Instr = i /\ A!M = Mach /\ SecondPc = PcBehind
      /\ A!Branch = Branch
  BY OldestReal, SameNames
<1>2. addr' = PcBehind /\ (OldestStat' = "DS" <=> StatBehind = "DS") /\ (StatBehind = "DS" => SecondPc' = SecondBehind)
  BY OldestStep
<1>3. slot' = IF StatBehind = "DS" THEN <<SecondBehind>> ELSE <<>>
  BY <1>2
<1>4. /\ StatBehind = NextStat(i)
      /\ em.stat = "NORMAL" => PcBehind = U(em.pc + 4)
      /\ i.op \in Branch => SecondBehind = Goes(i, View(em.pc, Regs))
  BY DEF Pipeline, BehindMemory
<1>5. NextStat(i) = "DS" <=> i.op \in Branch
  BY DEF NextStat
<1>6. CASE em.stat = "DS"
  <2>1. BehindBranch(em.pc) /\ i = Fetch(em.pc) /\ text \in Programs
    BY <1>6 DEF SlotInv, Pipeline, Held
  <2>2. i.op \notin Branch
    BY <2>1, SlotPlain
  <2>3. slot = <<PcBehind>> /\ slot' = <<>>
    BY <1>1, <1>3, <1>4, <1>5, <1>6, <2>2
  <2>4. slot # <<>> /\ slot[1] = PcBehind
    BY <2>3
  <2> QED BY <1>2, <2>3, <2>4
<1>7. CASE em.stat # "DS"
  <2>1. em.stat = "NORMAL" /\ slot = <<>>
    BY <1>1, <1>7 DEF Real, TypeInv, ControlInv, ControlOK, Stat
  <2>2. addr' = A!U(addr + 4)
    BY <1>1, <1>2, <1>4, <2>1, SameDevices
  <2>3. A!BranchResult(i, Mach) = Em!BranchResult(i, Mach) /\ A!U(addr + 8) = U(em.pc + 8)
    BY <1>1, Semantics, SameDevices
  <2>4. <<Goes(i, View(em.pc, Regs))>> = IF Em!BranchResult(i, Mach) = <<>> THEN <<U(em.pc + 8)>> ELSE Em!BranchResult(i, Mach)
    <3> DEFINE m == View(em.pc, Regs)
    <3>1. m.pc = Mach.pc /\ m.grf = Mach.grf /\ Mach.pc = em.pc
      BY DEF View, Mach
    <3> HIDE DEF m
    <3>2. <<Goes(i, m)>> = IF Em!BranchResult(i, Mach) = <<>> THEN <<U(Mach.pc + 8)>> ELSE Em!BranchResult(i, Mach)
      BY ONLY <3>1, BranchDecides
    <3> QED BY <3>1, <3>2 DEF m
  <2>5. slot' = IF i.op \notin Branch THEN <<>>
                ELSE IF A!BranchResult(i, Mach) = <<>> THEN <<A!U(addr + 8)>> ELSE A!BranchResult(i, Mach)
    BY <1>3, <1>4, <1>5, <2>3, <2>4
  <2> QED BY <1>1, <2>1, <2>2, <2>5
<1> QED BY <1>6, <1>7

\* An instruction that leaves M is executed.
LEMMA ExecuteStep ==
  ASSUME TypeInv, SlotInv, BdInv, MduInv, Pipeline, NEW ext \in SUBSET External, State(ext), ~cp0_int_req(ext),
         Retire, Stall \/ Advance, Real(em), em.ins.op # "eret"
  PROVE  A!Execute(cp0_hw_int(ext))
<1> DEFINE lines == cp0_hw_int(ext)
           slot == IF OldestStat = "DS" THEN <<SecondPc>> ELSE <<>>
           ahead == Real(em) /\ em.ins.op \in MulDiv \cup MoveTo
           regs == [r \in Reg |-> IF r # 0 /\ r = mw.wa THEN w_write_data ELSE grf[r]]
           hl == [lo |-> mdu.lo, hi |-> mdu.hi]
           result == [lo |-> A!Result.lo, hi |-> A!Result.hi]
<1>1. cp0_exc = 0 /\ ~A!Pending(lines)
  BY NoTrapData
<1>2. A!Code = 0 /\ A!Instr.op # "eret"
  BY <1>1, CodeAgrees, OldestReal
<1>3. regs' = A!Result.grf /\ ram' = A!Result.mem
  BY <1>1, NoTrapData, Results, Registers
<1>4. IF slot # <<>> THEN addr' = slot[1] /\ slot' = <<>>
      ELSE /\ addr' = A!U(addr + 4)
           /\ slot' = IF A!Instr.op \notin A!Branch THEN <<>>
                      ELSE IF A!BranchResult(A!Instr, A!M) = <<>> THEN <<A!U(addr + 8)>> ELSE A!BranchResult(A!Instr, A!M)
  BY PlacesStep
<1>5. A!HiLo(IF ahead THEN hl ELSE result)
  <2>1. A!HiLo(hl)
    BY HiLoStep
  <2>2. ~ahead => result = hl
    BY <1>1, Results
  <2> HIDE DEF hl, result, ahead
  <2>3. CASE ahead
    BY <2>1, <2>3 DEF A!HiLo
  <2>4. CASE ~ahead
    BY <2>1, <2>2, <2>4 DEF A!HiLo
  <2> QED BY <2>3, <2>4
<1>6. A!Instr = em.ins /\ regs[em.ins.rt] = Settled(em.ins.rt)
  <2>1. em.ins.rt \in Reg
    BY DEF TypeInv, Data, Usable
  <2> QED BY <2>1, OldestReal, Registers DEF Regs
<1>7. cp0' = [(IF A!Instr.op = "mtc0" THEN A!Cp0Write(cp0, A!Instr.rd, regs[A!Instr.rt]) ELSE cp0) EXCEPT !.ip = lines]
  <2> DEFINE c == IF em.ins.op = "mtc0" THEN Cp0Write(cp0, em.ins.rd, Settled(em.ins.rt)) ELSE cp0
             d == IF A!Instr.op = "mtc0" THEN A!Cp0Write(cp0, A!Instr.rd, regs[A!Instr.rt]) ELSE cp0
  <2>1. cp0' = [c EXCEPT !.ip = lines]
    BY Cp0Completes
  <2>2. c = d
    BY <1>6, SameDevices
  <2> HIDE DEF c, d
  <2>3. cp0' = [d EXCEPT !.ip = lines]
    BY ONLY <2>1, <2>2
  <2> QED BY ONLY <2>3 DEF d
<1>8. tc' = [k \in Timers |-> IF A!Instr.op = "sw" /\ A!DevAccess /\ k \in A!Device
                THEN A!WriteReg(tc[k], A!DevReg(A!Addr(A!Instr, A!M)), regs[A!Instr.rt]) ELSE A!Tick(tc[k])]
  BY <1>1, <1>6, DevicesStep
<1> HIDE DEF lines, slot, ahead, regs, hl, result
<1>9. A!Execute(lines)
  BY ONLY <1>1, <1>2, <1>3, <1>4, <1>5, <1>7, <1>8 DEF A!Execute, slot, ahead, regs, hl, result
<1> QED BY <1>9 DEF lines

\* An eret that leaves M returns.
LEMMA ReturnStep ==
  ASSUME TypeInv, SlotInv, BdInv, MduInv, Pipeline, NEW ext \in SUBSET External, State(ext), ~cp0_int_req(ext),
         Retire, Stall \/ Advance, em.ins.op = "eret"
  PROVE  A!Return(cp0_hw_int(ext))
<1> DEFINE lines == cp0_hw_int(ext)
           slot == IF OldestStat = "DS" THEN <<SecondPc>> ELSE <<>>
           regs == [r \in Reg |-> IF r # 0 /\ r = mw.wa THEN w_write_data ELSE grf[r]]
           hl == [lo |-> mdu.lo, hi |-> mdu.hi]
<1>1. Real(em) /\ cp0_exc = 0 /\ ~A!Pending(lines)
  BY SystemRaisesNothing, NoTrapData
<1>2. A!Code = 0 /\ A!Instr.op = "eret"
  BY <1>1, CodeAgrees, OldestReal
<1>3. addr' = cp0.epc /\ slot' = <<>>
  <2>1. de.stat = "EMPTY" /\ fd.stat = "NORMAL" /\ fd.pc = cp0.epc
    BY <1>1 DEF Pipeline, BehindMemory
  <2>2. StatBehind = "NORMAL" /\ PcBehind = cp0.epc
    BY <2>1 DEF StatBehind, PcBehind, Real
  <2>3. addr' = PcBehind /\ (OldestStat' = "DS" <=> StatBehind = "DS")
    BY OldestStep
  <2> QED BY <2>2, <2>3
<1>4. WriteAddr(em.ins) = 0 /\ MemMode(em.ins) = "NONE"
  BY DEF WriteAddr, MemMode, Arith3, AddSub, Logic, Compare, Shift, ShiftV, MoveFrom, ArithImm, AddImm, LogicImm, CmpImm,
         Load, Store
<1>5. regs' = regs /\ ram' = ram
  <2>1. NextRegs = Regs
    BY <1>4, NextWritten, Zero
  <2>2. RamNext(ram, em.ins, em.alu, m_read_data, FALSE) = ram
    BY <1>4 DEF RamNext
  <2> QED BY <2>1, <2>2, NoTrapData, Registers
<1>6. tc' = [k \in Timers |-> A!Tick(tc[k])]
  BY <1>1, DevicesStep
<1>7. A!HiLo(hl)
  BY HiLoStep
<1>8. cp0' = [cp0 EXCEPT !.exl = 0, !.ip = lines]
  <2>1. cp0' = [[cp0 EXCEPT !.exl = 0] EXCEPT !.ip = lines]
    BY Cp0Completes
  <2>2. Cp0Typed(cp0)
    BY DEF TypeInv, ControlInv
  <2> HIDE DEF lines
  <2> QED BY ONLY <2>1, <2>2, Returned
<1> HIDE DEF lines, slot, regs, hl
<1>9. A!Return(lines)
  BY ONLY <1>1, <1>2, <1>3, <1>5, <1>6, <1>7, <1>8 DEF A!Return, A!TickAll, slot, regs, hl
<1> QED BY <1>9 DEF lines

\* Without an instruction in M the sequential machine waits.
LEMMA WaitStep ==
  ASSUME TypeInv, SlotInv, BdInv, MduInv, Pipeline, NEW ext \in SUBSET External, State(ext), ~cp0_int_req(ext),
         Retire, Stall \/ Advance, ~Real(em)
  PROVE  A!Wait(cp0_hw_int(ext))
<1> DEFINE lines == cp0_hw_int(ext)
           slot == IF OldestStat = "DS" THEN <<SecondPc>> ELSE <<>>
           ahead == Real(em) /\ em.ins.op \in MulDiv \cup MoveTo
           regs == [r \in Reg |-> IF r # 0 /\ r = mw.wa THEN w_write_data ELSE grf[r]]
           hl == [lo |-> mdu.lo, hi |-> mdu.hi]
<1>1. cp0_exc = 0 /\ ~A!Pending(lines)
  BY NoTrapData
<1>2. addr' = addr /\ slot' = slot
  BY OldestBehind, OldestStep
<1>3. WriteAddr(em.ins) = 0 /\ MemMode(em.ins) = "NONE" /\ em.ins.op \in {"sll", "bubble"}
  BY EmptyFacts DEF Pipeline, Empties
<1>4. regs' = regs /\ ram' = ram
  <2>1. NextRegs = Regs
    BY <1>3, NextWritten, Zero
  <2>2. RamNext(ram, em.ins, em.alu, m_read_data, FALSE) = ram
    BY <1>3 DEF RamNext
  <2> QED BY <2>1, <2>2, NoTrapData, Registers
<1>5. tc' = [k \in Timers |-> A!Tick(tc[k])]
  BY <1>1, <1>3, DevicesStep
<1>6. A!HiLo(hl) /\ ~ahead
  BY HiLoStep
<1>7. cp0' = [cp0 EXCEPT !.ip = lines]
  BY <1>3, Cp0Completes
<1> HIDE DEF lines, slot, ahead, regs, hl
<1>8. A!Wait(lines)
  BY ONLY <1>1, <1>2, <1>4, <1>5, <1>6, <1>7 DEF A!Wait, A!TickAll, slot, ahead, regs, hl
<1> QED BY <1>8 DEF lines

-----------------------------------------------------------------------------
(* The refinement. *)

Starts == A!Init
Step == A!Next \/ UNCHANGED A!vars

\* Every clock of the pipeline is a clock of the sequential machine.
LEMMA StepImplements == SeqInv /\ [Next]_vars => Step
<1> SUFFICES ASSUME SeqInv, [Next]_vars PROVE Step
  OBVIOUS
<1>1. TypeInv /\ SlotInv /\ BdInv /\ MduInv /\ Pipeline
  BY DEF SeqInv
<1>2. CASE UNCHANGED vars
  <2> DEFINE slot == IF OldestStat = "DS" THEN <<SecondPc>> ELSE <<>>
             ahead == Real(em) /\ em.ins.op \in MulDiv \cup MoveTo
             regs == [r \in Reg |-> IF r # 0 /\ r = mw.wa THEN w_write_data ELSE grf[r]]
             hl == [lo |-> mdu.lo, hi |-> mdu.hi]
  <2>1. addr' = addr /\ slot' = slot /\ ahead' = ahead
    BY <1>2 DEF vars, addr, OldestStat, SecondPc, Real
  <2>2. regs' = regs /\ hl' = hl
    BY <1>2 DEF vars, w_write_data
  <2>3. text' = text /\ ram' = ram /\ cp0' = cp0 /\ tc' = tc
    BY <1>2 DEF vars
  <2> HIDE DEF slot, ahead, regs, hl
  <2> QED BY ONLY <2>1, <2>2, <2>3 DEF Step, A!vars, slot, ahead, regs, hl
<1>3. CASE Next
  <2> PICK ext \in SUBSET External : Cycle(ext)
    BY <1>3 DEF Next
  <2>1. State(ext) /\ text' = text
    BY DEF Cycle, State
  <2>2. A!Clock(cp0_hw_int(ext))
    <3>1. CASE cp0_int_req(ext) /\ Trap
      BY <1>1, <2>1, <3>1, TrapStep
    <3>2. CASE ~cp0_int_req(ext) /\ Retire /\ (Stall \/ Advance)
      <4>1. CASE Real(em) /\ em.ins.op # "eret"
        BY <1>1, <2>1, <3>2, <4>1, ExecuteStep DEF A!Clock
      <4>2. CASE em.ins.op = "eret"
        BY <1>1, <2>1, <3>2, <4>2, ReturnStep DEF A!Clock
      <4>3. CASE ~Real(em)
        BY <1>1, <2>1, <3>2, <4>3, WaitStep DEF A!Clock
      <4> QED BY <4>1, <4>2, <4>3
    <3> QED BY <3>1, <3>2 DEF Cycle
  <2>3. A!Clock(ext \cup {k \in Timers : A!IRQ(tc[k])})
    BY ONLY <2>2 DEF cp0_hw_int, A!IRQ, IRQ
  <2> QED BY <2>1, <2>3 DEF Step, A!Next
<1> QED BY <1>2, <1>3

\* Reset leaves the sequential machine in front of the first instruction.
LEMMA InitImplements == Init => Starts
<1> SUFFICES ASSUME Init PROVE Starts
  OBVIOUS
<1>1. /\ fd.stat = "EMPTY" /\ de.stat = "EMPTY" /\ em.stat = "EMPTY" /\ f_pc = TEXT_MIN /\ text \in Programs /\ mw.wa = 0
      /\ grf = [r \in Reg |-> 0] /\ mdu = MduReset /\ ram = [a \in 0 .. RAM_WORDS - 1 |-> 0]
      /\ cp0 = Cp0Reset /\ tc = [k \in Timers |-> TimerReset]
  BY DEF Init, FdEmpty
<1>2. A!WellFormed(text)
  BY <1>1, WellFormedAssumption
<1>3. addr = TEXT_MIN /\ (IF OldestStat = "DS" THEN <<SecondPc>> ELSE <<>>) = <<>>
      /\ (Real(em) /\ em.ins.op \in MulDiv \cup MoveTo) = FALSE
  BY <1>1 DEF addr, OldestStat, Real
<1>4. [r \in Reg |-> IF r # 0 /\ r = mw.wa THEN w_write_data ELSE grf[r]] = [r \in 0 .. NREG - 1 |-> 0]
  BY <1>1 DEF Reg
<1>5. [lo |-> mdu.lo, hi |-> mdu.hi] = [lo |-> 0, hi |-> 0]
  BY <1>1 DEF MduReset
<1>6. cp0 = A!Cp0Reset /\ tc = [k \in Timers |-> A!TimerReset]
  BY <1>1, SameDevices
<1> QED BY <1>1, <1>2, <1>3, <1>4, <1>5, <1>6 DEF Starts, A!Init

\* The pipelined CPU implements the sequential machine: whatever the program, the latencies, the
\* stalls, the traps and the interrupts, its instructions complete one at a time and in order, each
\* with the effect of the co-tester's emulator, and a trap is taken between two of them.
THEOREM MipsImplements == Spec => Implements
<1>1. Init => SeqInv /\ Starts
  BY SeqInit, InitImplements
<1>2. SeqInv /\ [Next]_vars => SeqInv' /\ Step
  BY SeqStep, StepImplements
<1> QED BY <1>1, <1>2, PTL DEF Spec, Starts, Step, Implements, A!Spec
=============================================================================
