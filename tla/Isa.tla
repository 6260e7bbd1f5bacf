-------------------------------- MODULE Isa --------------------------------
(***************************************************************************)
(* What the CPUs without exceptions promise to software: one instruction at *)
(* a time, with the semantics of the co-tester's emulator.  An instruction  *)
(* that would raise an exception is ignored ("ignore problematic            *)
(* instructions", main.rs:90).  Branches take effect behind the instruction *)
(* that follows them: the machine knows the next two addresses.  Data       *)
(* memory repeats through the whole address space, and a machine that       *)
(* leaves its program stops for good.                                       *)
(***************************************************************************)
EXTENDS Decode

CONSTANTS NREG, TEXT_MIN, TEXT_MAX, RAM_WORDS,   \* as in Forwarding
          LOOKAHEAD    \* an instruction is only executed if the one behind it has a place in memory: in P5

VARIABLES
  text,     \* the program
  pc, npc,  \* the next instruction to execute and the one after it; STOP when there is none
  grf,      \* general registers
  hl,       \* HI and LO
  ram       \* data memory

vars == <<text, pc, npc, grf, hl, ram>>

E == INSTANCE Emulator WITH MEM_SIZE <- WORDS \div 4

STOP == 0 - 1
InMemory(a) == a \in TEXT_MIN .. TEXT_MAX - 1
Runs(a, next) == InMemory(a) /\ Align(a) \in DOMAIN text /\ (LOOKAHEAD => InMemory(next))
Starting == IF Runs(TEXT_MIN, TEXT_MIN + 4) THEN pc = TEXT_MIN /\ npc = TEXT_MIN + 4 ELSE pc = STOP /\ npc = STOP

Init == /\ Starting
        /\ grf = [r \in 0 .. NREG - 1 |-> 0] /\ hl = [lo |-> 0, hi |-> 0]
        /\ ram = [a \in 0 .. RAM_WORDS - 1 |-> 0]

Instr == text[Align(pc)]
M == [pc |-> pc, grf |-> grf, lo |-> hl.lo, hi |-> hl.hi, mem |-> [a \in 0 .. WORDS \div 4 - 1 |-> ram[a % RAM_WORDS]]]
Stored(m) == IF Instr.op \in Store THEN LET a == E!Addr(Instr, M) \div 4 IN [ram EXCEPT ![a % RAM_WORDS] = m.mem[a]]
             ELSE ram

\* The instruction at pc completes.
Execute ==
  LET m == IF E!Exception(Instr, M) # 0 THEN M ELSE E!Effect(Instr, M)
      target == E!BranchResult(Instr, M)
      after == IF target = <<>> THEN U(npc + 4) ELSE target[1]
  IN /\ grf' = m.grf /\ hl' = [lo |-> m.lo, hi |-> m.hi]
     /\ ram' = IF E!Exception(Instr, M) # 0 THEN ram ELSE Stored(m)
     /\ IF Runs(npc, after) THEN pc' = npc /\ npc' = after ELSE pc' = STOP /\ npc' = STOP
     /\ UNCHANGED text

Next == pc # STOP /\ Execute
Spec == Init /\ [][Next]_vars
=============================================================================
