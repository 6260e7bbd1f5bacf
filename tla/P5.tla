--------------------------------- MODULE P5 ---------------------------------
(***************************************************************************)
(* The first pipelined CPU (P5/mips.v): eleven instructions and nop, no     *)
(* multiply unit and no partial accesses.  Its forwarding looks at register *)
(* numbers alone and may pick a value that is no result yet: the stall      *)
(* conditions keep such a value from being used.  It halts as P6 does, but  *)
(* one fetch earlier: it also looks at the address that follows.            *)
(***************************************************************************)
EXTENDS Memory

CONSTANTS NREG, TEXT_MIN, TEXT_MAX, Programs    \* as in Forwarding; text is [16r3000, 16r4000)

\* The decode table of P5/stage_decode.v is the one of Decode for these.
Implemented == {"addu", "subu", "andi", "ori", "lw", "sw", "beq", "lui", "j", "jal", "jr"}

\* The instructions P5 has, with fields in range; a delay slot holds no branch, and a jump
\* stays in the region of the program (16r4000 is far below 2^28).
P5Assumption ==
  /\ NREG \in Nat \ {0} /\ RA \in 0 .. NREG - 1
  /\ TEXT_MIN \in Word /\ TEXT_MAX \in Word /\ TEXT_MIN % 4 = 0 /\ TEXT_MAX % 4 = 0
  /\ TEXT_MAX + 4 <= 2^(BITS - REGION_BITS)
  /\ \A p \in Programs : \A a \in DOMAIN p :
       /\ p[a].op \in Implemented \/ p[a] = Nop
       /\ {p[a].rs, p[a].rt, WriteAddr(p[a])} \subseteq 0 .. NREG - 1 /\ p[a].imm \in Word
       /\ p[a].op \in {"j", "jal"} => 4 * p[a].imm < 2^(BITS - REGION_BITS)
       /\ p[a].op \in Branch /\ U(a + 4) \in DOMAIN p => p[U(a + 4)].op \notin Branch

VARIABLES text, f_pc, fd, de, em, mw, grf, ram, halted     \* as in Forwarding and P6

vars == <<text, f_pc, fd, de, em, mw, grf, ram, halted>>
-----------------------------------------------------------------------------
(* Combinational signals. *)

GrfRead(r) == IF r = mw.wa THEN mw.wd ELSE grf[r]

d_read_data(r) == IF r = 0 THEN 0
                  ELSE IF r = WriteAddr(de.ins) THEN de.link
                  ELSE IF r = WriteAddr(em.ins) THEN em.wd ELSE GrfRead(r)
e_read_data(r, v) == IF r = 0 THEN 0
                     ELSE IF r = WriteAddr(em.ins) THEN em.wd
                     ELSE IF r = mw.wa THEN mw.wd ELSE v
m_read_data == IF em.ins.rt = 0 THEN 0 ELSE IF em.ins.rt = mw.wa THEN mw.wd ELSE em.v1

Needs(r, stage) == r # 0 /\ \/ r = fd.ins.rs /\ stage > ReadStage0(fd.ins)
                            \/ r = fd.ins.rt /\ stage > ReadStage1(fd.ins)
stall_de == Needs(WriteAddr(de.ins), WriteStage(de.ins))
stall_em == Needs(WriteAddr(em.ins), IF WriteStage(em.ins) = 0 THEN WORDS - 1 ELSE WriteStage(em.ins) - 1)
stall_shallow == stall_de                                \* Fault: a load two ahead is forgotten
stall == stall_de \/ stall_em

d_next_pc == NextPc(fd.ins, f_pc, d_read_data(fd.ins.rs), d_read_data(fd.ins.rt), 0)
f_next_pc == IF stall THEN f_pc ELSE d_next_pc

\* The word that is fetched is dropped if the address behind it is outside of the memory.
should_halt == halted \/ f_next_pc \notin TEXT_MIN .. TEXT_MAX - 1 \/ Align(f_pc) \notin DOMAIN text
f_instr == IF should_halt THEN Bubble ELSE text[Align(f_pc)]

alu_result(i, a, b) == CASE i.op = "subu" -> U(a - b) [] i.op = "ori" -> Or(a, b) [] i.op = "andi" -> And(a, b)
                        [] i.op = "lui" -> U(b * HALF) [] OTHER -> U(a + b)
e_alu_result == alu_result(de.ins, e_read_data(de.ins.rs, de.v0), In1(de.ins, e_read_data(de.ins.rt, de.v1)))

\* Data memory: whole words, and the address wraps around.
RamIndex(a) == (a \div 4) % RAM_WORDS
m_write_data == IF WriteStage(em.ins) = MEM THEN ram[RamIndex(em.alu)] ELSE em.wd

KilledNot(s) == s                                        \* Fault: a stall sends the instruction down
Killed(s) == [s EXCEPT !.ins = Bubble]
-----------------------------------------------------------------------------
Init ==
  /\ text \in Programs
  /\ f_pc = TEXT_MIN /\ halted = FALSE
  /\ fd = [pc |-> 0, ins |-> Bubble]
  /\ de = [pc |-> 0, ins |-> Bubble, v0 |-> 0, v1 |-> 0, link |-> 0]
  /\ em = [pc |-> 0, ins |-> Bubble, v1 |-> 0, wd |-> 0, alu |-> 0]
  /\ mw = [pc |-> 0, wa |-> 0, wd |-> 0]
  /\ grf = [r \in 0 .. NREG - 1 |-> 0]
  /\ ram = [a \in 0 .. RAM_WORDS - 1 |-> 0]

DecodeOut == [pc |-> fd.pc, ins |-> fd.ins, v0 |-> d_read_data(fd.ins.rs), v1 |-> d_read_data(fd.ins.rt),
              link |-> U(f_pc + 4)]

Stall == stall /\ de' = Killed(DecodeOut) /\ UNCHANGED fd
Advance == ~stall /\ de' = DecodeOut /\ fd' = [pc |-> f_pc, ins |-> f_instr]

\* One rising clock edge after reset.
Next ==
  /\ Stall \/ Advance
  /\ f_pc' = f_next_pc /\ halted' = should_halt
  /\ em' = [pc |-> de.pc, ins |-> de.ins, v1 |-> e_read_data(de.ins.rt, de.v1), alu |-> e_alu_result,
            wd |-> IF WriteStage(de.ins) = EXECUTE THEN e_alu_result ELSE de.link]
  /\ mw' = [pc |-> em.pc, wa |-> WriteAddr(em.ins), wd |-> m_write_data]
  /\ grf' = IF mw.wa # 0 THEN [grf EXCEPT ![mw.wa] = mw.wd] ELSE grf
  /\ ram' = IF em.ins.op = "sw" THEN [ram EXCEPT ![RamIndex(em.alu)] = m_read_data] ELSE ram
  /\ UNCHANGED text

Spec == Init /\ [][Next]_vars /\ WF_vars(Next)
=============================================================================
