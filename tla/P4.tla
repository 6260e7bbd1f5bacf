--------------------------------- MODULE P4 ---------------------------------
(***************************************************************************)
(* The single-cycle CPU of P4/mips.v: one instruction per clock, no delay   *)
(* slots.  Both memories ignore the high bits of an address, so a program   *)
(* that runs past the end of instruction memory starts over, with a pc that *)
(* goes on counting.                                                        *)
(***************************************************************************)
EXTENDS Decode

CONSTANTS NREG, TEXT_MIN, TEXT_WORDS, RAM_WORDS    \* 32; 16r3000; 1024 words each

P4Assumption == TEXT_MIN % (4 * TEXT_WORDS) = 0 /\ RAM_WORDS \in Nat \ {0}

Implemented == {"addu", "subu", "ori", "lw", "sw", "beq", "lui", "jal", "jr"}

VARIABLES text, pc, grf, ram

vars == <<text, pc, grf, ram>>
-----------------------------------------------------------------------------
(* Combinational signals.  A word that was never loaded is unknown: it writes nothing. *)

TextIndex(a) == TEXT_MIN + (a % (4 * TEXT_WORDS))
instr == IF Align(TextIndex(pc)) \in DOMAIN text THEN text[Align(TextIndex(pc))] ELSE Bubble
pc4 == U(pc + 4)
Unset(r) == IF r = 0 THEN 0 ELSE grf[r]
rs_data == Unset(instr.rs)
rt_data == Unset(instr.rt)

ext_out == IF instr.op \in {"lw", "sw"} THEN ExtHalf(instr.imm) ELSE instr.imm
alu_out == CASE instr.op = "addu" -> U(rs_data + rt_data) [] instr.op = "subu" -> U(rs_data - rt_data)
             [] instr.op \in {"lw", "sw"} -> U(rs_data + ext_out) [] instr.op = "ori" -> Or(rs_data, ext_out)
             [] instr.op = "lui" -> U(ext_out * HALF) [] instr.op = "beq" -> Flag(rs_data = rt_data)
             [] OTHER -> U(rs_data + rt_data)

reg_write == instr.op \in {"addu", "subu", "ori", "lw", "lui", "jal"}
grf_write_addr == CASE instr.op \in {"ori", "lw", "lui"} -> instr.rt [] instr.op = "jal" -> RA [] OTHER -> instr.rd
grf_write_data == CASE instr.op = "lw" -> ram[(alu_out \div 4) % RAM_WORDS] [] instr.op = "jal" -> pc4 [] OTHER -> alu_out

next_pc_late == IF instr.op = "beq" /\ alu_out = 1 THEN U(pc4 + 4 * S(ExtHalf(instr.imm)) + 4) ELSE pc4    \* Fault: a slot is skipped
next_pc == CASE instr.op = "beq" /\ alu_out = 1 -> U(pc4 + 4 * S(ExtHalf(instr.imm)))
             [] instr.op = "jal" -> Or(pc4 \div 2^(BITS - REGION_BITS), U(4 * instr.imm))
             [] instr.op = "jr" -> rs_data
             [] OTHER -> pc4
-----------------------------------------------------------------------------
Init == /\ text = [a \in {} |-> Nop] /\ pc = TEXT_MIN
        /\ grf = [r \in 0 .. NREG - 1 |-> 0] /\ ram = [a \in 0 .. RAM_WORDS - 1 |-> 0]

\* One rising clock edge after reset.  A write to $0 is stored, though never read.
Next == /\ pc' = next_pc
        /\ grf' = IF reg_write THEN [grf EXCEPT ![grf_write_addr] = grf_write_data] ELSE grf
        /\ ram' = IF instr.op = "sw" THEN [ram EXCEPT ![(alu_out \div 4) % RAM_WORDS] = rt_data] ELSE ram
        /\ UNCHANGED text
=============================================================================
