----------------------------- MODULE MCEncoding -----------------------------
(***************************************************************************)
(* Every opcode with register numbers and immediates at the edges of their  *)
(* fields, and every word with such numbers in its middle fields.           *)
(***************************************************************************)
EXTENDS Encoding

Numbers == {0, 1, 4, 16, 31}
Immediates == {0, 1, 63, 64, 2047, 2048, 32768, 65535}
MadeOps == Known \ {"mfc0", "mtc0", "eret"}
Range(o) == IF o \in Shift THEN {0, 1, 31} ELSE IF o \in {"j", "jal"} THEN Immediates \cup {65536, 2097152, 67108863}
            ELSE IF o \in ArithImm \cup {"lui"} \cup Load \cup Store \cup BranchRT \cup BranchZ THEN Immediates ELSE {0}
Edges == UNION {[op : {o}, rs : {0, 1, 31}, rt : {0, 1, 31}, rd : {0, 31}, imm : Range(o)] : o \in MadeOps}
AllWords == (0 .. 63) \X Numbers \X {0, 1, 2} \X {0} \X {0} \X (0 .. 63)
=============================================================================
