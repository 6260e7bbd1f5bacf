------------------------------ MODULE MipsSeq ------------------------------
(***************************************************************************)
(* The pipeline implements the sequential machine.  The abstract state is   *)
(* read off the pipeline: the next instruction to complete is the oldest    *)
(* one in flight, its delay-slot target is the one behind it, and the       *)
(* registers include the value the write-back stage is about to store.      *)
(***************************************************************************)
EXTENDS Mips

\* The timers lie above data memory, and programs in instruction memory: a jump stays in the
\* region of the program (16r5000 is far below 2^28).
ASSUME SeqAssumption ==
  /\ DEV_BASE >= DATA_MAX /\ TEXT_MAX + 4 <= 2^(BITS - REGION_BITS)
  /\ \A p \in Programs : \A a \in DOMAIN p :
       /\ a \in TEXT_MIN .. TEXT_MAX - 1 /\ a % 4 = 0 /\ p[a].op # "bubble"
       /\ p[a].op \in {"j", "jal"} => 4 * p[a].imm < 2^(BITS - REGION_BITS)

Real(s) == s.stat # "EMPTY" /\ s.ins.op # "bubble"

SecondPc == IF Real(em) /\ Real(de) THEN de.pc
            ELSE IF (Real(em) \/ Real(de)) /\ fd.stat # "EMPTY" THEN fd.pc ELSE f_pc

A == INSTANCE Seq WITH
       MEM_SIZE <- RAM_WORDS,
       pc <- addr,
       slot <- IF OldestStat = "DS" THEN <<SecondPc>> ELSE <<>>,
       grf <- [r \in Reg |-> IF r # 0 /\ r = mw.wa THEN w_write_data ELSE grf[r]],
       hl <- [lo |-> mdu.lo, hi |-> mdu.hi],
       ahead <- Real(em) /\ em.ins.op \in MulDiv \cup MoveTo

ASSUME WellFormedAssumption == \A p \in Programs : A!WellFormed(p)

\* Every step of the pipeline is a step of the sequential machine, or none.
Implements == A!Spec
=============================================================================
