--------------------------- MODULE MCEarlierTests ---------------------------
(***************************************************************************)
(* Small instances: 8-bit words, four registers with $3 as link register,   *)
(* two words of data memory, programs of four and five words and the        *)
(* shortest time that is enough.                                            *)
(***************************************************************************)
EXTENDS EarlierTests

R(op, rs, rt, rd) == [op |-> op, rs |-> rs, rt |-> rt, rd |-> rd, imm |-> 0]
I(op, rs, rt, imm) == [op |-> op, rs |-> rs, rt |-> rt, rd |-> 0, imm |-> imm]
Uniform(n, alphabet) == {[k \in 1 .. n |-> alphabet]}

\* P4: values for the jumps and the addresses, a write to $0, branches over one and two
\* words, calls and a look at their link.
Shapes4_ == Uniform(COUNT4,
  { I("ori", 1, 1, 12), I("lui", 0, 1, 4), R("addu", 1, 2, 2), R("subu", 2, 3, 2), I("ori", 1, 0, 4), I("sw", 0, 1, 4),
    I("lw", 2, 2, 4), I("beq", 2, 1, 1), I("beq", 0, 0, 2), R("jr", 1, 0, 0), I("jal", 0, 0, 18), I("jal", 0, 0, 20) })

\* P5: values for the jumps and the addresses, a load of what was stored and its readers,
\* and every kind of branch with its slot.
Shapes5_ == Uniform(COUNT5,
  { I("ori", 1, 1, 12), I("lui", 0, 1, 4), R("addu", 1, 2, 2), R("subu", 2, 1, 2), I("andi", 1, 2, 4), I("sw", 0, 1, 4),
    I("lw", 2, 2, 4), I("beq", 2, 1, 2), I("j", 0, 0, 19), I("jal", 0, 0, 20), R("jr", 1, 0, 0) })

\* P6: an overflow that is ignored, a misaligned sum as base, the multiply unit next to its
\* readers, stores of parts of words, and every kind of branch with its slot.
Shapes6_ == Uniform(COUNT6,
  { I("addiu", 0, 1, 7), I("lui", 0, 1, 4), I("ori", 1, 1, 12), R("add", 1, 1, 2), R("div", 1, 2, 0),
    R("mfhi", 0, 0, 2), I("sb", 1, 2, 14), I("sw", 0, 1, 4), I("lb", 0, 2, 4), I("beq", 1, 2, 1),
    I("bgtz", 1, 0, 2), I("jal", 0, 0, 19), R("jalr", 1, 0, 2) })
=============================================================================
