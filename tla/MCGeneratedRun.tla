--------------------------- MODULE MCGeneratedRun ---------------------------
(***************************************************************************)
(* Small instances: 8-bit words, four registers with $3 as link register,   *)
(* two words of data memory, programs of a few words.                       *)
(***************************************************************************)
EXTENDS GeneratedRun

R(op, rs, rt, rd) == [op |-> op, rs |-> rs, rt |-> rt, rd |-> rd, imm |-> 0]
I_(op, rs, rt, imm) == [op |-> op, rs |-> rs, rt |-> rt, rd |-> 0, imm |-> imm]

\* Values that are addresses of words and of data, an overflow, partial accesses at bases
\* near and far, HI and LO, sums beyond the program, a sum that shows when it is done
\* twice, and every kind of branch.  The first word makes a value, or is one that needs none.
First == {I_("lui", 0, 1, 4), I_("ori", 1, 1, 12), I_("sw", 0, 1, 4), I_("bgez", 1, 0, 2), I_("jal", 0, 0, 19)}
Rest ==
  First \cup
  { R("add", 1, 1, 2), R("mult", 1, 2, 0), R("addu", 1, 3, 1), R("addu", 1, 2, 2), I_("sb", 2, 1, 3),
    I_("bne", 1, 2, 1), R("jalr", 1, 0, 2) }
RunShapes == {[n \in 1 .. INSTR_COUNT |-> IF n = 1 THEN First ELSE Rest]}
AllTypes == InstructionType

\* Stores of every width, where only sh is asked for.
OnlySh == {"sh"}
StoreShapes == {[n \in 1 .. INSTR_COUNT |-> {I_(op, 0, 1, 4) : op \in Store}]}
=============================================================================
