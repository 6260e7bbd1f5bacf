-------------------------------- MODULE Seq --------------------------------
(***************************************************************************)
(* What the pipelined CPU promises to software: a machine that executes one *)
(* instruction at a time, with the instruction semantics of the co-tester's *)
(* emulator, delay slots, and exceptions and interrupts between two         *)
(* instructions, next to timers that advance once per clock.  A clock       *)
(* completes at most one instruction.  Two liberties of the hardware are    *)
(* part of the contract:                                                    *)
(*  - HI and LO may already hold the result of the instruction at pc when   *)
(*    an interrupt takes its place (`ahead');                               *)
(*  - an interrupt that arrives on an mtc0 or eret enters the handler       *)
(*    without saving anything (`Unsaved').                                  *)
(***************************************************************************)
EXTENDS Emulator, Cp0, Bridge, TC

CONSTANTS NREG, TEXT_MIN, TEXT_MAX, HANDLER, External     \* as in Mips

VARIABLES
  text,     \* the program
  pc,       \* the next instruction to execute
  slot,     \* <<>>, or <<target>> when pc is in the delay slot of a branch to target
  grf,      \* general registers
  hl,       \* HI and LO
  ahead,    \* they already include the effect of the instruction at pc
  ram,      \* data memory
  cp0,      \* coprocessor 0
  tc        \* the timers

vars == <<text, pc, slot, grf, hl, ahead, ram, cp0, tc>>

\* The contract covers programs without a branch or eret in a delay slot (the co-tester's
\* generator puts one only where it is not executed), nor an eret in the last word of memory.
WellFormed(p) == \A a \in DOMAIN p :
  /\ p[a].op \in Branch /\ a + 4 \in DOMAIN p => p[a + 4].op \notin Branch \cup {"eret"}
  /\ p[a].op = "eret" => a + 4 < TEXT_MAX

Init ==
  /\ WellFormed(text)
  /\ pc = TEXT_MIN /\ slot = <<>>
  /\ grf = [r \in 0 .. NREG - 1 |-> 0]
  /\ hl = [lo |-> 0, hi |-> 0] /\ ahead = FALSE
  /\ ram = [a \in 0 .. MEM_SIZE - 1 |-> 0]
  /\ cp0 = Cp0Reset
  /\ tc = [k \in Timers |-> TimerReset]

Fetchable(a) == a \in TEXT_MIN .. TEXT_MAX - 1 /\ a % 4 = 0
InstrAt(a) == IF Fetchable(a) /\ a \in DOMAIN text THEN text[a] ELSE Nop
Instr == InstrAt(pc)
Machine(a, g, h, mem) == [pc |-> a, grf |-> g, lo |-> h.lo, hi |-> h.hi, mem |-> mem]
M == Machine(pc, grf, hl, ram)

\* A whole-word access to a timer register; the count is read-only.
Device == IF Instr.op \in {"lw", "sw"} /\ Addr(Instr, M) % 4 = 0 THEN Selected(Addr(Instr, M)) ELSE {}
DevAccess == Device # {} /\ ~(Instr.op = "sw" /\ DevReg(Addr(Instr, M)) = 2)

\* The exception the instruction at pc raises, 0 if none.
Code == IF ~Fetchable(pc) THEN ADEL
        ELSE IF Instr.op \notin Known THEN RI
        ELSE IF DevAccess THEN 0 ELSE Exception(Instr, M)

\* The machine after the instruction at pc, which raises none.
Result ==
  CASE Instr.op = "mfc0" -> SetGrf(M, Instr.rt, Cp0Read(cp0, Instr.rd))
    [] Instr.op = "lw" /\ DevAccess ->
         SetGrf(M, Instr.rt, ReadReg(tc[CHOOSE k \in Device : TRUE], DevReg(Addr(Instr, M))))
    [] Instr.op = "sw" /\ DevAccess -> M
    [] OTHER -> Effect(Instr, M)

HiLoWriter(i) == i.op \in MulDiv \cup MoveTo

\* HI and LO after a step that leaves them at h; the next instruction may run ahead.
HiLo(h) ==
  \/ ahead' = FALSE /\ hl' = h
  \/ /\ Fetchable(pc') /\ HiLoWriter(InstrAt(pc'))
     /\ LET m == HiLoEffect(InstrAt(pc'), Machine(pc', grf', h, ram'))
        IN ahead' = TRUE /\ hl' = [lo |-> m.lo, hi |-> m.hi]

Pending(lines) == HwIntReq(cp0, lines)
TickAll == tc' = [k \in Timers |-> Tick(tc[k])]

\* The instruction at pc completes.
Execute(lines) ==
  /\ ~Pending(lines) /\ Code = 0 /\ Instr.op # "eret"
  /\ grf' = Result.grf /\ ram' = Result.mem
  /\ IF slot # <<>> THEN pc' = slot[1] /\ slot' = <<>>
     ELSE /\ pc' = U(pc + 4)
          /\ slot' = IF Instr.op \notin Branch THEN <<>>
                     ELSE IF BranchResult(Instr, M) = <<>> THEN <<U(pc + 8)>> ELSE BranchResult(Instr, M)
  /\ HiLo(IF ahead THEN hl ELSE [lo |-> Result.lo, hi |-> Result.hi])
  /\ cp0' = [(IF Instr.op = "mtc0" THEN Cp0Write(cp0, Instr.rd, grf[Instr.rt]) ELSE cp0) EXCEPT !.ip = lines]
  /\ tc' = [k \in Timers |-> IF Instr.op = "sw" /\ DevAccess /\ k \in Device
                             THEN WriteReg(tc[k], DevReg(Addr(Instr, M)), grf[Instr.rt]) ELSE Tick(tc[k])]

\* eret: interrupts back on, execution resumes at EPC without a delay slot.
Return(lines) ==
  /\ ~Pending(lines) /\ Code = 0 /\ Instr.op = "eret"
  /\ pc' = cp0.epc /\ slot' = <<>>
  /\ cp0' = [cp0 EXCEPT !.exl = 0, !.ip = lines]
  /\ UNCHANGED <<grf, ram>> /\ TickAll
  /\ HiLo(hl)

\* The handler is entered instead of the instruction at pc.  EPC is where to
\* resume: the branch, if pc is in its delay slot.
Enter(lines, code) ==
  /\ pc' = HANDLER /\ slot' = <<>> /\ ahead' = FALSE
  /\ UNCHANGED <<grf, hl, ram>> /\ TickAll
  /\ cp0' = [cp0 EXCEPT !.exl = 1, !.exc = code, !.ip = lines, !.bd = Flag(slot # <<>>),
                        !.epc = U(Align(pc) - (IF slot # <<>> THEN 4 ELSE 0))]

Raise(lines) == ~Pending(lines) /\ Code # 0 /\ Enter(lines, Code)
Interrupt(lines) == Pending(lines) /\ Enter(lines, 0)

Unsaved(lines) ==
  /\ Pending(lines) /\ Code = 0 /\ Instr.op \in {"mtc0", "eret"}
  /\ pc' = HANDLER /\ slot' = <<>> /\ ahead' = FALSE
  /\ UNCHANGED <<grf, ram, hl>> /\ TickAll
  /\ cp0' = [(IF Instr.op = "mtc0" THEN Cp0Write(cp0, Instr.rd, grf[Instr.rt])
              ELSE [cp0 EXCEPT !.exl = 0]) EXCEPT !.ip = lines]

\* A clock in which nothing completes; the instruction at pc may run ahead.
Wait(lines) ==
  /\ ~Pending(lines)
  /\ UNCHANGED <<pc, slot, grf, ram>> /\ TickAll
  /\ cp0' = [cp0 EXCEPT !.ip = lines]
  /\ IF ahead THEN UNCHANGED <<hl, ahead>> ELSE HiLo(hl)

Clock(lines) == \/ Execute(lines) \/ Return(lines) \/ Raise(lines)
                \/ Interrupt(lines) \/ Unsaved(lines) \/ Wait(lines)

Next == \E ext \in SUBSET External :
          UNCHANGED text /\ Clock(ext \cup {k \in Timers : IRQ(tc[k])})

Spec == Init /\ [][Next]_vars
=============================================================================
