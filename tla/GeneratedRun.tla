---------------------------- MODULE GeneratedRun ----------------------------
(***************************************************************************)
(* What a generated program does when it is run: the sequential machine of  *)
(* Isa executes what the generator made with --no-exc.  The emulator went   *)
(* over the words once, front to back, and skipped some; the machine follows*)
(* the branches.                                                            *)
(***************************************************************************)
EXTENDS Generator

VARIABLES phase,               \* generate, run
          pc, npc, grf, hl, ram   \* as in Isa

tester == <<machine, prog, phase>>
isa == <<pc, npc, grf, hl, ram>>

I == INSTANCE Isa WITH text <- prog, RAM_WORDS <- MEM_SIZE, TEXT_MAX <- WORDS, LOOKAHEAD <- FALSE

RunInit == /\ GenInit /\ phase = "generate"
           /\ pc = TEXT_MIN /\ npc = TEXT_MIN + 4
           /\ grf = New.grf /\ hl = [lo |-> 0, hi |-> 0] /\ ram = New.mem

GenerateOne == phase = "generate" /\ Generate /\ UNCHANGED <<phase, isa>>

\* The program is in memory; the machine is still as reset left it.
Loaded == phase = "generate" /\ Generated /\ phase' = "run" /\ UNCHANGED <<machine, prog, isa>>

Run == phase = "run" /\ I!Next /\ UNCHANGED tester

RunNext == GenerateOne \/ Loaded \/ Run
RunSpec == RunInit /\ [][RunNext]_<<tester, isa>> /\ WF_<<tester, isa>>(RunNext)
-----------------------------------------------------------------------------
(* Properties *)

\* Options that leave something to choose everywhere: a type that may stand in a delay slot
\* and in the last word and, for loads and stores, a data memory within an offset of $0.
\* The command line takes others too (main.rs:141-153).
OptionsServe ==
  /\ InstrSet \ Branch # {}
  /\ InstrSet \cap (Load \cup Store) # {} => 4 * MEM_SIZE <= HALF \div 2

\* With such options the generator never chooses from nothing: a type, a register to jump
\* through, a base (gen.rs:75, :160, :198-210, :429-432).  With any, what it makes never
\* trips a debug assertion of the emulator (machine.rs:168-193).
NeverPanics ==
  ~Generated => \A irq \in {FALSE, EXCEPTIONS} :
    LET k == Started(irq)
    IN (OptionsServe => ~NothingToChoose(k)) /\ \A i \in Candidates(k) : ~AssertionFails(k, i)

\* Run for real, a generated program never goes back (a slot may be executed twice), is never
\* left but behind its last word, wherever the jump leads, and has no branch in the delay slot of
\* another (gen.rs:166-178, :193, :199).
StaysInside ==
  phase = "run" /\ pc # I!STOP =>
    /\ npc >= pc
    /\ Align(npc) \notin DOMAIN prog => npc = jump_limit
    /\ I!Instr.op \in Branch /\ Align(npc) \in DOMAIN prog => prog[Align(npc)].op \notin Branch

\* The single pass over the words, skipped ones included, leaves the emulator as the run
\* with its jumps leaves the machine (machine.rs:154-209).
SameEffect == phase = "run" /\ pc = I!STOP =>
                machine.grf = grf /\ machine.mem = ram /\ machine.lo = hl.lo /\ machine.hi = hl.hi

\* A word that is executed twice in a row, as the slot of a jump to that slot, is no load
\* that moves its own base: the generator sees to the first access only (gen.rs:139-162).
BaseKept == phase = "run" /\ pc # I!STOP /\ pc = npc => ~(I!Instr.op \in Load /\ I!Instr.rs = I!Instr.rt)

\* Every generated program comes to its end.
Halts == <>(phase = "run" /\ pc = I!STOP)

\* What is generated was asked for ("A comma-separated list of instructions that will be
\* generated.", main.rs:76).
OnlyListed == \A a \in DOMAIN prog : prog[a].op \in InstrSet \/ (prog[a] = Nop /\ "nop" \in InstrSet)
=============================================================================
