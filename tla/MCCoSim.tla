------------------------------ MODULE MCCoSim ------------------------------
(***************************************************************************)
(* Small instances of a whole test: 16-bit words, five registers with $4 as *)
(* link register, six words of data memory, programs of a few words.  The   *)
(* generator draws them from an alphabet, in every order that it allows,    *)
(* and interrupts the machine before any subset of the words.               *)
(***************************************************************************)
EXTENDS CoSim

R(op, rs, rt, rd) == W(op, rs, rt, rd, 0)
I(op, rs, rt, imm) == W(op, rs, rt, 0, imm)

\* The generator starts from an empty memory; LoadProgram puts the program in.
NoProgram == {[a \in {} |-> Nop]}

\* A value, then three words around it: exceptions, interrupts, and HI/LO across the
\* handler, around a conditional branch to its own slot and a jump over a word.
Traps == {R("add", 1, 1, 2), I("sb", 1, 1, 5)}
Branches == {I("beq", 1, 0, 0), I("jal", 0, 0, 20)}
Product == {R("mult", 1, 1, 0)}
High == {R("mfhi", 0, 0, 2)}
TrapShape == << {I("lui", 0, 1, 127)}, {R("add", 1, 1, 2)} \cup Branches \cup Product,
                Traps \cup Branches \cup Product \cup High, Traps \cup High >>

\* Jumps through a register to a word and to between two words, behind or into the own
\* slot, and their link.
Targets == {I("ori", 0, 1, 76), I("ori", 0, 1, 74)}
Jumps == {R("jr", 1, 0, 0), R("jalr", 1, 0, 2)}
Sum == {I("addiu", 2, 2, 1)}
JumpShapes == { << Targets, Jumps, Sum \cup Targets, Sum >>, << Targets, Sum, Jumps, Sum \cup Targets >> }

TrapsAndJumps == {TrapShape} \cup JumpShapes
=============================================================================
