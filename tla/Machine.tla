------------------------------ MODULE Machine ------------------------------
(***************************************************************************)
(* The co-tester's emulator (machine.rs:13-232).  It executes each          *)
(* instruction as it is generated, so one pass over the addresses yields    *)
(* the writes a CPU must log when it runs the program, and the addresses at *)
(* which to interrupt it.  A forward branch skips the words up to its       *)
(* target while they are generated.  The exception handler is not executed: *)
(* HandleException writes to the logs what code_handler.asm would do.       *)
(***************************************************************************)
EXTENDS Emulator, SequencesExt

CONSTANTS NREG,          \* GRF_SIZE: 32
          TEXT_MIN,      \* TEXT_START_ADDR: 16r3000
          HANDLER,       \* HANDLER_ADDR: 16r4180
          PRID,          \* what the handler reads from PrID: 16rdeadbeaf
          DELAYED,       \* delayed_branching: not --no-db
          EXCEPTIONS     \* exception_enabled: not --no-exc

VARIABLE machine   \* pc, state (at, target), grf, lo, hi, mem, the two logs, irq_log, exception_occurred

Normal == [at |-> "Normal", target |-> 0]
InDelaySlot(t) == [at |-> "InDelaySlot", target |-> t]
Branching(t) == [at |-> "Branching", target |-> t]

New == [pc |-> TEXT_MIN, state |-> Normal, grf |-> [r \in 0 .. NREG - 1 |-> 0], lo |-> 0, hi |-> 0,
        mem |-> [a \in 0 .. MEM_SIZE - 1 |-> 0], grf_log |-> <<>>, mem_log |-> <<>>, irq_log |-> {}, exc |-> FALSE]
-----------------------------------------------------------------------------
(* Exceptions and interrupts. *)

\* The handler saves every register, looks at Cause (and for an exception saves HI and LO
\* and steps EPC over the instruction) and restores what it saved.
At(n) == HANDLER + 4 * n

HandlerWrites(k, code, irq) ==
  LET slot    == k.state.at = "InDelaySlot"
      cause   == (IF irq THEN 2^12 ELSE 0) + 4 * code
      bd      == IF slot THEN 2^(BITS - 1) ELSE 0
      epc     == IF slot THEN U(k.pc - 4) ELSE k.pc
      n       == NREG + 3
      looked  == << <<At(2), 1, bd + cause>>, <<At(3), 2, epc>>, <<At(5), 3, 2^12 + 3>>,
                    <<At(7), 4, U(PRID)>>, <<At(n), 1, 4 * code>> >>
      skipped == << <<At(n + 3), 1, k.lo>>, <<At(n + 5), 1, k.hi>>, <<At(n + 7), 2, U(epc + 4)>>,
                    <<At(n + 9), 1, k.lo>>, <<At(n + 11), 1, k.hi>> >>
      back    == [r \in 1 .. NREG - 1 |-> <<At(n + 12 + r), r, k.grf[r]>>]
  IN looked \o (IF code # 0 THEN skipped ELSE <<>>) \o back

HandlerSaves(k, code) ==
  LET Save(r) == At(CASE r = 1 -> 0 [] r = 2 -> 1 [] r = 3 -> 4 [] r = 4 -> 6 [] OTHER -> r + 3)
      saved   == [r \in 1 .. NREG - 1 |-> <<Save(r), 4 * (r - 1), k.grf[r]>>]
      hilo    == << <<At(NREG + 7), 4 * (NREG - 1), k.lo>>, <<At(NREG + 9), 4 * NREG, k.hi>> >>
  IN saved \o (IF code # 0 THEN hilo ELSE <<>>)

HandlerMem(k, code) ==
  [a \in DOMAIN k.mem |-> IF a < NREG - 1 THEN k.grf[a + 1]
                          ELSE IF code = 0 \/ a > NREG THEN k.mem[a]
                          ELSE IF a = NREG - 1 THEN k.lo ELSE k.hi]

HandleException(k, code, irq) ==
  IF ~EXCEPTIONS THEN k
  ELSE [k EXCEPT !.exc = @ \/ code # 0,
                 !.grf_log = @ \o HandlerWrites(k, code, irq),
                 !.mem_log = @ \o HandlerSaves(k, code),
                 !.mem = HandlerMem(k, code)]

ForceException(k, pc, code) == [HandleException([k EXCEPT !.pc = pc], code, FALSE) EXCEPT !.pc = k.pc]
CheckBranchTarget(k, target) == IF target % 4 # 0 THEN ForceException(k, Align(target), ADEL) ELSE k

\* Fault: the branch that is executed again after the handler logs its link only once.
InterruptUnlinked(k) ==
  IF k.state.at = "Branching" THEN k
  ELSE HandleException([k EXCEPT !.irq_log = @ \cup {k.pc}], 0, TRUE)

\* An interrupt in a delay slot makes the CPU execute the branch again: a link it wrote
\* just before is logged a second time.
Interrupt(k) ==
  IF k.state.at = "Branching" THEN k
  ELSE LET h    == HandleException([k EXCEPT !.irq_log = @ \cup {k.pc}], 0, TRUE)
           last == k.grf_log[Len(k.grf_log)]
       IN IF k.state.at = "InDelaySlot" /\ k.grf_log # <<>> /\ last[1] = k.pc - 4
          THEN [SetGrf(h, last[2], last[3]) EXCEPT !.grf_log = Append(@, last)] ELSE h
-----------------------------------------------------------------------------
(* Executing one instruction. *)

\* The register an instruction writes.
Dest(i) == CASE i.op \in Arith3 \cup Shift \cup ShiftV \cup MoveFrom \cup {"jalr"} -> i.rd
             [] i.op \in ArithImm \cup Load \cup {"lui"} -> i.rt
             [] i.op = "jal" -> RA
             [] OTHER -> 0

ExecuteOn(k, i) ==
  IF Exception(i, k) # 0 THEN HandleException(k, Exception(i, k), FALSE)
  ELSE LET m == Effect(i, k)
           a == Addr(i, k) \div 4
       IN [m EXCEPT !.grf_log = IF Dest(i) = 0 THEN @ ELSE Append(@, <<k.pc, Dest(i), m.grf[Dest(i)]>>),
                    !.mem_log = IF i.op \notin Store THEN @ ELSE Append(@, <<k.pc, 4 * a, m.mem[a]>>)]

InNormal(k, i) ==
  LET m == [ExecuteOn(k, i) EXCEPT !.pc = k.pc + 4]
      r == BranchResult(i, k)
  IN CASE i.op \notin Branch -> m
       [] i.op \in Branch /\ r = <<>> -> IF DELAYED THEN [m EXCEPT !.state = InDelaySlot(m.pc + 4)] ELSE m
       [] OTHER -> IF DELAYED THEN [m EXCEPT !.state = InDelaySlot(r[1])]
                   ELSE IF r[1] > m.pc THEN [m EXCEPT !.state = Branching(r[1])]
                   ELSE CheckBranchTarget(m, r[1])

\* Fault: the branch to its own slot does not execute it again.
InSlotStraight(k, i, target) ==
  LET m == [ExecuteOn(k, i) EXCEPT !.state = Normal]
  IN IF m.exc THEN ExecuteOn(m, i)
     ELSE IF target > k.pc + 4 THEN [m EXCEPT !.state = Branching(target)]
     ELSE CheckBranchTarget(m, target)

\* A slot that raised an exception is where the handler returns to, without its branch;
\* a branch to the slot executes it again.
InSlot(k, i, target) ==
  LET m == [ExecuteOn(k, i) EXCEPT !.state = Normal]
      t == CheckBranchTarget(m, target)
  IN IF m.exc THEN ExecuteOn(m, i)
     ELSE IF target > k.pc + 4 THEN [m EXCEPT !.state = Branching(target)]
     ELSE IF target <= k.pc THEN ExecuteOn(t, i) ELSE t

Execute(k, i) ==
  LET m == CASE k.state.at = "Normal" -> InNormal(k, i)
             [] k.state.at = "InDelaySlot" -> [InSlot(k, i, k.state.target) EXCEPT !.pc = k.pc + 4]
             [] k.state.at = "Branching" ->
                  IF k.state.target > k.pc + 4 THEN [k EXCEPT !.pc = @ + 4]
                  ELSE CheckBranchTarget([k EXCEPT !.pc = @ + 4, !.state = Normal], k.state.target)
  IN [m EXCEPT !.exc = FALSE]
=============================================================================
