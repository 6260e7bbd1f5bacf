--------------------------- MODULE MCEarlierCpus ---------------------------
(***************************************************************************)
(* Small instances: 8-bit words (2-bit bytes), four registers with $3 as    *)
(* link register, two words of data memory, and programs of a few words     *)
(* from 64 that begin with a value, a call or a long operation.             *)
(***************************************************************************)
EXTENDS EarlierCpus

R(op, rs, rt, rd) == [op |-> op, rs |-> rs, rt |-> rt, rd |-> rd, imm |-> 0]
I(op, rs, rt, imm) == [op |-> op, rs |-> rs, rt |-> rt, rd |-> 0, imm |-> imm]

NoBranchInSlot(p) == \A a \in DOMAIN p : p[a].op \in Branch /\ a + 4 \in DOMAIN p => p[a + 4].op \notin Branch
ProgramsOf(first, rest, n) ==
  {p \in {[a \in {64 + 4 * k : k \in 0 .. n - 1} |-> IF a = 64 THEN f ELSE q[(a - 64) \div 4]] :
            f \in first, q \in [1 .. n - 1 -> rest]} : NoBranchInSlot(p)}

\* P5: results of every latency and their readers in D, E and M, branches backwards, jumps
\* through the link and out of memory.  All immediates are multiples of 4 or shifted to
\* one, and so is every value: no access is misaligned, which P5 would not notice.  The
\* programs fill an instruction memory of four words or leave the last one unknown.
Alphabet5 ==
  { I("ori", 0, 1, 4), R("addu", 1, 3, 2), R("subu", 0, 1, 1), I("lw", 1, 1, 4), I("sw", 1, 2, 0), I("lui", 0, 2, 4),
    I("beq", 1, 2, 14), I("jal", 0, 0, 19), R("jr", 3, 0, 0) }
First5 == {I("ori", 0, 1, 4), I("lui", 0, 2, 4), I("jal", 0, 0, 19)}
ThreeOrFour == ProgramsOf(Alphabet5, Alphabet5, 3) \cup ProgramsOf(First5, Alphabet5, 4)

\* P6: also instructions that are ignored, the multiply unit, and branches out of the
\* program and into each other's delay slot.
Alphabet6 ==
  { I("addiu", 0, 1, 7), R("add", 1, 1, 1), I("lh", 1, 2, 1), I("lw", 0, 1, 4), I("sb", 1, 2, 1), I("sw", 1, 1, 10),
    R("mult", 1, 1, 0), R("mflo", 0, 0, 2), I("beq", 1, 2, 14), I("jal", 0, 0, 19), R("jalr", 3, 0, 1) }
First6 == {I("addiu", 0, 1, 7), I("lw", 0, 1, 4), R("mult", 1, 1, 0), I("jal", 0, 0, 19)}
Four == ProgramsOf(First6, Alphabet6, 4)
=============================================================================
