--------------------------------- MODULE P6 ---------------------------------
(***************************************************************************)
(* The pipelined CPU of P6/mips.v, the predecessor of P7: no coprocessor,   *)
(* no interrupts and no devices.  An instruction that would raise an        *)
(* exception has no effect, and a CPU that leaves its program halts: it     *)
(* fetches nothing more, whatever the address.  What D gets then, the word  *)
(* 0, has no effect either and is written as Bubble, as is the word 0 of    *)
(* reset.                                                                   *)
(***************************************************************************)
EXTENDS Forwarding

\* The programs a test of P6 is made of: the co-tester runs with --no-exc, and a jump stays in
\* the region of the program (16r7000 is far below 2^28).
P6Assumption ==
  /\ TEXT_MAX + 4 <= 2^(BITS - REGION_BITS)
  /\ \A p \in Programs : \A a \in DOMAIN p :
       /\ p[a].op \in Known \ {"mfc0", "mtc0", "eret"}
       /\ p[a].op \in {"j", "jal"} => 4 * p[a].imm < 2^(BITS - REGION_BITS)

VARIABLE halted      \* stage_fetch has stopped

vars == <<text, f_pc, fd, de, em, mw, grf, mdu, ram, halted>>

\* Instruction memory: bits 1:0 of the address are not looked at, and a word that was never
\* written is unknown.
should_halt == halted \/ f_pc \notin TEXT_MIN .. TEXT_MAX - 1 \/ Align(f_pc) \notin DOMAIN text
f_instr == IF should_halt THEN Bubble ELSE text[Align(f_pc)]

stall == stall_de \/ stall_em \/ stall_alu

\* The instruction in E that overflows or is misaligned loses its effects.
mem_unaligned == MemMode(de.ins) # "NONE" /\ InvalidAddr(de.ins, e_alu_result)
ignored_late == mem_unaligned                  \* Fault: an overflow is written back
ignored == mem_unaligned \/ (CheckOverflow(de.ins) /\ Overflowed(de.ins, e_in0, e_in1))

\* Data memory: the address wraps around.
RamIndex(a) == (a \div 4) % RAM_WORDS
m_mem_read_data == ReadLane(em.ins, em.alu, ram[RamIndex(em.alu)])
m_write_data == IF WriteStage(em.ins) = MEM THEN m_mem_read_data ELSE em.wd
real_write_data == WriteLane(em.ins, em.alu, ram[RamIndex(em.alu)], m_read_data)
-----------------------------------------------------------------------------
Init ==
  /\ text \in Programs
  /\ f_pc = TEXT_MIN /\ halted = FALSE
  /\ fd = [pc |-> 0, ins |-> Bubble]
  /\ de = [pc |-> 0, ins |-> Bubble, v0 |-> 0, v1 |-> 0, link |-> 0]
  /\ em = [pc |-> 0, ins |-> Bubble, v1 |-> 0, wd |-> 0, alu |-> 0]
  /\ mw = [pc |-> 0, wa |-> 0, wd |-> 0, ext |-> "NONE"]
  /\ grf = [r \in Reg |-> 0]
  /\ mdu = MduReset
  /\ ram = [a \in 0 .. RAM_WORDS - 1 |-> 0]

DecodeOut == [pc |-> fd.pc, ins |-> fd.ins, v0 |-> d_read0, v1 |-> d_read1, link |-> U(f_pc + 4)]
ExecuteOut == [pc |-> de.pc, ins |-> de.ins, v1 |-> e_read1, alu |-> e_alu_result,
               wd |-> IF WriteStage(de.ins) = EXECUTE THEN e_alu_result ELSE de.link]

\* D waits: F and D keep their instruction and E gets a bubble.
Stall ==
  /\ stall
  /\ de' = Killed(DecodeOut)
  /\ UNCHANGED <<f_pc, fd>>

Advance ==
  /\ ~stall
  /\ f_pc' = NextPc(fd.ins, f_pc, d_read0, d_read1, 0)
  /\ de' = DecodeOut
  /\ fd' = [pc |-> f_pc, ins |-> f_instr]

\* One rising clock edge after reset.
Next ==
  /\ Stall \/ Advance
  /\ halted' = should_halt
  /\ em' = IF ignored THEN Killed(ExecuteOut) ELSE ExecuteOut
  /\ mw' = [pc |-> em.pc, wa |-> WriteAddr(em.ins), wd |-> m_write_data, ext |-> ExtType(em.ins)]
  /\ grf' = IF mw.wa # 0 THEN [grf EXCEPT ![mw.wa] = w_write_data] ELSE grf
  /\ mdu' = MduNext(mdu, de.ins, e_in0, e_in1, FALSE)
  /\ ram' = IF MemMode(em.ins) = "WRITE" THEN [ram EXCEPT ![RamIndex(em.alu)] = real_write_data] ELSE ram
  /\ UNCHANGED text

Spec == Init /\ [][Next]_vars /\ WF_vars(Next)
=============================================================================
