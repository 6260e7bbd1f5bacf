------------------------------- MODULE P5Isa -------------------------------
(***************************************************************************)
(* The pipeline of P5 implements the sequential machine, for programs that  *)
(* make no misaligned access (P5 ignores the low bits of an address).  The  *)
(* mapping is the one of P6: an instruction completes when it leaves E.     *)
(***************************************************************************)
EXTENDS P5

Real(s) == s.ins.op # "bubble"
Pending(r) == IF r = 0 THEN grf[0]
              ELSE IF r = WriteAddr(em.ins) THEN m_write_data
              ELSE IF r = mw.wa THEN mw.wd ELSE grf[r]
PendingRam == IF em.ins.op = "sw" THEN [ram EXCEPT ![RamIndex(em.alu)] = m_read_data] ELSE ram

STOP == 0 - 1
OldestPc == IF Real(de) THEN de.pc ELSE IF Real(fd) THEN fd.pc ELSE IF should_halt THEN STOP ELSE f_pc
SecondPc == IF Real(de) THEN fd.pc ELSE IF Real(fd) THEN f_pc ELSE IF should_halt THEN STOP ELSE U(f_pc + 4)

A == INSTANCE Isa WITH
       LOOKAHEAD <- TRUE,
       pc <- OldestPc, npc <- SecondPc,
       grf <- [r \in 0 .. NREG - 1 |-> Pending(r)],
       hl <- [lo |-> 0, hi |-> 0],
       ram <- PendingRam

\* The load or store in E, if there is one, is aligned.
Aligned == de.ins.op \in {"lw", "sw"} => e_alu_result % 4 = 0

\* The parts of A!Spec: where the pipeline starts, and what one clock of it may do.
Starts == A!Init
Step == A!Next \/ UNCHANGED A!vars
=============================================================================
