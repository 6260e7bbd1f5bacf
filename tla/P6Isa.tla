------------------------------- MODULE P6Isa -------------------------------
(***************************************************************************)
(* The pipeline of P6 implements the sequential machine.  An instruction    *)
(* completes when it leaves E: the abstract registers and memory include    *)
(* what M and W are about to write.                                         *)
(***************************************************************************)
EXTENDS P6

Real(s) == s.ins.op # "bubble"

\* The value on its way to register r from M and from W, if there is one.
Pending(r) == IF r = 0 THEN grf[0]
              ELSE IF r = WriteAddr(em.ins) THEN WriteBack(ExtType(em.ins), m_write_data)
              ELSE IF r = mw.wa THEN w_write_data ELSE grf[r]
PendingRam == IF MemMode(em.ins) = "WRITE" THEN [ram EXCEPT ![RamIndex(em.alu)] = real_write_data] ELSE ram

STOP == 0 - 1
OldestPc == IF Real(de) THEN de.pc ELSE IF Real(fd) THEN fd.pc ELSE IF should_halt THEN STOP ELSE f_pc
SecondPc == IF Real(de) THEN fd.pc ELSE IF Real(fd) THEN f_pc ELSE IF should_halt THEN STOP ELSE U(f_pc + 4)

A == INSTANCE Isa WITH
       LOOKAHEAD <- FALSE,
       pc <- OldestPc, npc <- SecondPc,
       grf <- [r \in Reg |-> Pending(r)],
       hl <- [lo |-> mdu.lo, hi |-> mdu.hi],
       ram <- PendingRam

\* The parts of A!Spec: where the pipeline starts, and what one clock of it may do.
Starts == A!Init
Step == A!Next \/ UNCHANGED A!vars
=============================================================================
