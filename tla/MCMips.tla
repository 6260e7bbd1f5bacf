------------------------------- MODULE MCMips -------------------------------
(***************************************************************************)
(* Small instances of the pipeline: 8-bit words (2-bit bytes), four         *)
(* registers with $3 as link register, two words of data memory at 0, and   *)
(* instruction memory from 64.  Each run explores every program of a few    *)
(* words over an alphabet of instructions.                                  *)
(***************************************************************************)
EXTENDS MipsSeq, TLC

R(op, rs, rt, rd) == [op |-> op, rs |-> rs, rt |-> rt, rd |-> rd, imm |-> 0]
I(op, rs, rt, imm) == [op |-> op, rs |-> rs, rt |-> rt, rd |-> 0, imm |-> imm]

\* Every well-formed program of n words over an alphabet, with a fixed handler.
ProgramsOver(n, alphabet, handler) ==
  {p \in {[a \in {64 + 4 * k : k \in 0 .. n - 1} \cup DOMAIN handler |->
             IF a \in DOMAIN handler THEN handler[a] ELSE q[(a - 64) \div 4]]
          : q \in [0 .. n - 1 -> alphabet]} : A!WellFormed(p)}

NoHandler == [a \in {} |-> Nop]

\* Results of every latency, read by every stage that reads registers.
HazardAlphabet ==
  { I("addiu", 0, 1, 4), R("addu", 1, 1, 2), I("lw", 1, 1, 0), I("lb", 2, 1, 1),
    I("sw", 0, 1, 4), I("sh", 1, 2, 2), I("beq", 1, 2, 2), I("bne", 1, 0, 14),
    I("jal", 0, 0, 18), R("jr", 3, 0, 0), R("jalr", 3, 0, 1) }
HazardPrograms == ProgramsOver(4, HazardAlphabet, NoHandler)

\* Every exception, from every stage, in and out of delay slots; the handler
\* skips the offending instruction by moving EPC, right before eret.
ExceptionAlphabet ==
  { I("addiu", 0, 1, 7), R("add", 1, 1, 1), R("sllv", 1, 1, 1), I("lh", 1, 2, 0), I("sw", 1, 2, 10),
    I("ri", 3, 1, 0), I("beq", 0, 0, 2), I("jal", 0, 0, 18), R("jr", 1, 0, 0), R("mult", 1, 1, 0),
    R("mfhi", 0, 0, 2), R("mtlo", 1, 0, 0) }
SkipHandler == 80 :> [I("mfc0", 0, 2, 0) EXCEPT !.rd = 14] @@ 84 :> I("addiu", 2, 2, 4)
               @@ 88 :> [I("mtc0", 0, 2, 0) EXCEPT !.rd = 14] @@ 92 :> I("eret", 0, 0, 0)
ExceptionPrograms == ProgramsOver(3, ExceptionAlphabet, SkipHandler)

HazardsAndExceptions == HazardPrograms \cup ExceptionPrograms

\* Interrupts at any edge, around instructions whose effects are not all in one stage.
InterruptAlphabet ==
  { I("addiu", 0, 1, 7), I("sw", 0, 1, 4), I("lw", 0, 2, 4), R("mult", 1, 1, 0), R("mflo", 0, 0, 1),
    I("bne", 1, 2, 14), I("jal", 0, 0, 18), R("add", 1, 1, 1) }
ReturnHandler == 80 :> [I("mfc0", 0, 2, 0) EXCEPT !.rd = 13] @@ 84 :> I("eret", 0, 0, 0)
InterruptPrograms == ProgramsOver(3, InterruptAlphabet, ReturnHandler)

\* Interrupts around the instructions that change CP0 while interrupts are enabled.
Cp0Alphabet ==
  { I("addiu", 0, 1, 3), I("addiu", 0, 2, 5), [I("mtc0", 0, 1, 0) EXCEPT !.rd = 12],
    [I("mtc0", 0, 2, 0) EXCEPT !.rd = 14], [I("mfc0", 0, 1, 0) EXCEPT !.rd = 12],
    [I("mfc0", 0, 2, 0) EXCEPT !.rd = 14], I("eret", 0, 0, 0), I("jal", 0, 0, 18) }
Cp0Programs == ProgramsOver(3, Cp0Alphabet, ReturnHandler)

InterruptedPrograms == InterruptPrograms \cup Cp0Programs

\* A program that sets up timer 0 and lets its line through the mask ($1 = 17 and
\* $2 = 11, periodic, or 9, one-shot), then four free words; the handler switches the timer off.
TimerAlphabet ==
  { I("sw", 1, 2, 15), I("sw", 1, 0, 15), I("sw", 1, 2, 3), I("lw", 1, 3, 7), I("sw", 1, 2, 7),
    R("add", 2, 2, 3), I("bne", 3, 0, 14) }
TimerPrologue(ctrl) == 64 :> I("ori", 0, 1, 15) @@ 68 :> I("addiu", 1, 1, 2)
                 @@ 72 :> [I("mtc0", 0, 1, 0) EXCEPT !.rd = 12] @@ 76 :> I("ori", 0, 2, ctrl)
TimerHandler == 96 :> I("sw", 1, 0, 15) @@ 100 :> I("eret", 0, 0, 0)
TimerPrograms ==
  {[a \in DOMAIN p |-> p[a]] @@ TimerPrologue(ctrl) @@ TimerHandler :
     ctrl \in {9, 11}, p \in {q \in [{80, 84, 88, 92} -> TimerAlphabet] : A!WellFormed(q)}}
=============================================================================
