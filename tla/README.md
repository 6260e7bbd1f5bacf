# A verification of the computer-organization project

The repository builds a MIPS computer in steps (P0 to P7) and a program,
`co-tester`, that tests the later steps with random programs. The last step, P7, is a
five-stage pipelined CPU with forwarding, stalls, delay slots, precise exceptions,
interrupts and two timers. This project models the four CPUs written in Verilog
(P4 to P7), the co-tester from its generator to its test runner, and the tests it
makes of each CPU.

Contents: [inventory](#inventory), [modules](#modules), [runs](#runs),
[bounds](#bounds), [fairness](#fairness), [proofs](#proofs),
[findings](#findings), [what is not modelled](#what-is-not-modelled),
[plan](#plan).

## Inventory

| Component | State | Operations | Interacts with |
|---|---|---|---|
| P7 pipeline: `mips.v`, `stage_*.v`, `grf.v` | pipeline registers F/D, D/E, E/M, M/W; register file; HI, LO and the busy counter; data memory | one clock edge: advance, stall, or flush to the handler | reads and writes CP0 and the bridge from stage M; CP0's `int_req` flushes every stage |
| P7 coprocessor 0: `cp0.v` | Status, Cause, EPC | mtc0, eret, trap, sampling the interrupt lines | decides about exceptions and interrupts of M; gives `eret` in D its target |
| P7 bridge: `bridge.v` | none | selects a device, refuses bad accesses, gates writes | between M and the timers |
| P7 timers: `TC.v` | ctrl, preset, count, FSM state, interrupt latch | bus write, FSM step | interrupt lines 0 and 1 of CP0 |
| P7 test bench: `mips_test` in `mips.v` | a ten-cycle pulse counter, the list of addresses | raises the external line when a listed address is the macro PC | line 2 of CP0, the co-tester's `irqs.txt` |
| handler: `code_handler.asm` | the saved registers in memory | save, look at Cause, skip, restore, eret | runs on the CPU; `handle_exception` mirrors it |
| P6 pipeline | as P7, without CP0, bridge and timers; a flag that it has left its program | one clock edge; an instruction that overflows or is misaligned is emptied in E | a test bench that runs for a fixed time |
| P5 pipeline | as P6, without HI/LO, for eleven instructions | one clock edge | the same |
| P4 single-cycle CPU | pc, registers, memory | one instruction per clock | a test bench that runs for as many cycles as memory has words |
| co-tester machine: `machine.rs` | pc, registers, memory, delay-slot state, logs | execute an instruction, raise an exception, interrupt; write an instruction's machine code | driven by the generator, read by the comparator |
| co-tester generator: `gen.rs` | random source | the next instruction, chosen to suit the machine's state | executes it on the machine at once |
| co-tester comparator: `log.rs`, `main.rs:216-277` | two positions in the logs | parse a line, compare it | subject's output against the machine's logs |
| co-tester runner: `main.rs:157-318` | tests in flight, counters, cancellation, directories | start a test, wait for its parts, count it, stop | blocking threads, child processes, signals |
| P0 to P3, Pre | schematics, recognisers, assembly exercises | | none |

What is hard here:

* **One edge, five instructions.** Every property of a pipeline is about several
  instructions in several stages, and about the cycle in which they meet. A test
  program reaches a meeting only by luck.
* **Interrupts at any edge.** An instruction that is flushed must have left no trace
  and is executed again; HI and LO are written one stage too early for that.
* **Bubbles.** A stall sends down a bubble that carries the pc and the delay-slot
  status of the instruction that waits. EPC is computed from whatever is oldest.
* **CP0 against the pipeline.** mtc0, mfc0 and eret meet an exception or each other in
  different stages.
* **Devices.** A store to a timer and the timer's own interrupt may share a cycle.
* **Forwarding what is not there.** P5 forwards by register number alone; only its
  stall conditions keep a reader from a value that does not exist yet.
* **Leaving the program.** P5 and P6 stop at an address, in different stages, while older
  instructions are still in flight.
* **The predictor.** The co-tester's machine executes a program while it is being generated
  and goes forward only; it must predict every register and memory write of a CPU
  that goes back to a branch after an interrupt, leaves a slot without its branch after
  an exception, and runs a slot twice when a branch leads to it.
* **The generator.** What it may choose depends on values in registers, on the branch
  before and on how many words are left; a wrong choice makes a program whose run nobody
  defines, and no choice at all is a panic.
* **The comparator.** It skips what it does not understand and counts two kinds of
  lines apart, so a fault in one kind must not hide behind the other.
* **The runner.** A failure, a signal or a panic ends the program between any two
  awaits of any test in flight.

What makes each component correct:

* Each pipeline, with its memories and devices, is a machine that executes one
  instruction at a time (`Implements`, once for P7 and once for P5 and P6), and keeps going
  (`Progress`). P7's timers are honest (`IrqMeansExpired`, `TimerExpires`), and what it
  saves about an interrupted instruction describes that instruction (`BdExact`,
  `SlotBehindBranch`).
* The generator makes only programs that a CPU can run, and always finds something to choose
  (`NeverPanics`, `StaysInside`, `SameEffect`, `Halts`); the machine code of what it makes means
  to the decoder what it meant to the emulator (`Understood`, `OneRow`).
* The comparator passes a test exactly when the subject wrote what was expected, and
  reports the first line that is wrong (`Exact`, `BlamesFirst`).
* Together: a correct CPU passes every test (`NoFalseAlarm`) and every test of P7
  ends (`Ends`).
* The runner accounts for every test (`Accounted`), keeps exactly the evidence of the failed
  ones (`EvidenceKept`) and stops when it should (`FailFastEnds`, `NoneSkipped`, `Terminates`).

## Modules

    Words ─ Decode ─┬─ Execute ─┬─ Forwarding ─┬─ Mips ─── MipsSeq ─┬─ MCMips
                    ├─ Memory ──┘              │           │        └─ MipsProofs
                    ├─ Bridge, Cp0, TC ────────┘           │
                    │         └──────────────── Seq ───────┘ (contract of P7)
                    │
                    │  Forwarding ─ P6 ─ P6Isa ─ P6Proofs ─┐
                    │  Memory ───── P5 ─ P5Isa ─ P5Proofs ─┴─ EarlierCpus ─ MCEarlierCpus
                    │                     │         └ DatapathProofs (Execute, Memory and Emulator)
                    │                     └ Isa   (contract of P5 and P6)
                    │
                    ├─ Emulator ─ Machine ─ Generator ─┬─ GeneratedRun (with Isa) ─ MCGeneratedRun
                    │                     │            └─ Tester (with Comparator)
                    │                     └ CoTesterProofs (GeneratedRun, Encoding and DatapathProofs)
                    │  Tester + Mips ─ CoSim ─ MCCoSim
                    │  Tester + P4, P5, P6 ─ CoSim4, CoSim5, CoSim6 ─ EarlierTests ─ MCEarlierTests
                    │
                    └─ Encoding ─ MCEncoding
    Comparator ─ LogCompare ─┬─ MCLogCompare
                             └─ LogCompareProofs
    TestRunner ─ TestRunnerProofs

Shared by all of it:

* **Words** — words of `BITS` bits as numbers: wrapping, two's complement, byte and half
  lanes, bitwise operations, shifts, truncating division.
* **Decode** — `stage_decode.v` and `def.v` as functions of an instruction. An
  instruction is a record of its fields; the field sharing is kept (`rt` is a register
  number even where the opcode does not use it, and takes part in the stall and
  forwarding equations).

The CPUs:

* **Execute**, **Memory**, **Bridge**, **Cp0**, **TC** — `stage_execute.v`; `stage_mem.v` and
  `stage_write.v`; `bridge.v`; `cp0.v`; `TC.v`: operators on the record of each
  component's registers, one per signal, and one that gives the registers after a clock
  edge (`MduNext`, `RamNext`, `Cp0Next`, `Tick`/`WriteReg`).
* **Forwarding** — what P6 and P7 have in common equation for equation: the muxes of D, E
  and M, the stall conditions, the register file and the reset.
* **Mips** — P7's `mips.v`: the pipeline registers `fd`, `de`, `em`, `mw` as records and the
  components above. `Cycle(ext)` is one rising edge with the external line `ext`; it
  ends as `Trap`, or as `Retire` with `Stall` or `Advance`, and always includes
  `State`, the registers every edge writes. A decoded control signal that the code keeps
  in a pipeline register is recomputed from the instruction the register holds; where the
  code clears some of those signals (a stall, a flush) the instruction becomes
  `Bubble`, which has every effect off. A bubble keeps `stat`, `pc` and `exc` as the
  code does.
* **Seq** — what P7 promises to software: a machine that executes one instruction
  at a time with the Emulator's semantics, delay slots, and exceptions and interrupts
  in between; the timers tick beside it, once per clock. It shares CP0's and the timer's
  register operations with the pipeline and nothing else.
* **MipsSeq** — the refinement: `pc` is the macro PC `addr` (the oldest instruction in flight, `mips.v:82-85`),
  the delay-slot target is the address behind it, the registers include the value W is about
  to store. `Implements` is Seq's specification under that mapping.
* **P6**, **P5** — the pipelines before it. P6 is Forwarding with its own fetch stage,
  memory, and `ignored`: the instructions that E empties. P5 has its own, simpler, muxes
  and stall conditions. Both set `halted` when they leave the program.
* **Isa** — what P5 and P6 promise: one instruction at a time, the ones that would raise
  an exception ignored ("ignore problematic instructions", `main.rs:90`), the next two addresses
  instead of a delay-slot state, and a stop for good where the program ends. `LOOKAHEAD`
  says that P5 also drops an instruction whose successor has no place in memory.
* **P6Isa**, **P5Isa** — their refinement mappings; an instruction completes when it leaves E.
* **EarlierCpus** — one specification for both, so that one contract and one run serve them: `cpu`
  says which pipeline a behaviour is of.
* **P4** — the single-cycle CPU.

The co-tester:

* **Emulator** — the instruction semantics (`execute_on` in `machine.rs`): what an
  instruction does to registers, HI/LO and memory, and the exception it raises.
* **Machine** — the control of `MipsMachine` (`machine.rs:13-232`), its state one record with the
  three states `Normal`, `InDelaySlot` and `Branching` of the code; `HandleException` writes what
  the handler will do to the logs. `DELAYED` and `EXCEPTIONS` are the options `--no-db` and `--no-exc`.
* **Generator** — `gen.rs`: each step takes any instruction that the conditions of the code allow in
  the machine's state (`Candidates`), possibly after an interrupt, and executes it. `NothingToChoose` and
  `AssertionFails` are what makes it panic.
* **Encoding** — `to_machine_code` of every instruction, and the opcode wires of P7's decoder: two
  tables that were written apart.
* **Comparator** — `log.rs` and the loop of `main.rs:216-277` as operators on a record. A line is
  a record of the pieces the regular expression takes it apart into.
* **LogCompare** — a comparison as a state machine, for any output and any logs.
* **TestRunner** — the runner. The main task's control is modelled at the
  granularity of the futures it polls: `Pull` takes a test from the stream,
  `Continue` and `Finish` poll one, `PollDone` and `Select` end a poll of
  `for_each_concurrent` and of `select_all`. What runs on other threads and processes
  (`Generated`, `Exited`, `Compared`, `Signal`) may happen at any time. Its options are
  variables chosen at the start.

Compositions:

* **GeneratedRun** — Generator and then Isa: the emulator went over the words once, front to
  back, while the machine follows the branches.
* **Tester** — one test around any CPU: generate, run, compare each line as it is printed, verdict.
* **CoSim** — a test of P7: `LoadProgram` puts the generated program with the handler
  (`code_handler.asm`, for `NREG` registers) and the final jump into the memory of Mips; `Run` is
  the loop of `mips_test` with one clock edge each.
* **CoSim4**, **CoSim5**, **CoSim6** — tests of P4 (`--no-db --no-exc`), P5 and P6 (`--no-exc`), each with the
  test bench of its CPU; **EarlierTests** puts them into one specification, `subject` says which.
* **MC...** — the instances.

Definitions whose comment starts with *Fault* are deliberate mistakes, used to show
that a property would notice such a mistake in the code; no specification uses them.

### Two liberties of the hardware

Seq is not the textbook machine. The CPU departs from it in two ways that software
cannot see or must know, and both are stated in Seq:

* HI and LO may already hold the result of the instruction at `pc` when an interrupt takes
  its place (`ahead`): `stage_execute.v:60` writes them in E. The instruction is
  executed again after the handler, from registers that do not include HI and LO, so the
  result is the same; a handler that reads HI or LO sees the new value.
* An interrupt that becomes pending while an mtc0 or eret is in M enters the
  handler without setting EXL and without saving EPC and Cause (`Unsaved`): `cp0.v:48-56`
  gives the instruction precedence over the trap while `int_req` flushes the pipeline.
  Software must disable interrupts around mtc0, and only return with eret from a handler
  that was entered with EXL set.

## Runs

| Run | Question | Properties |
|---|---|---|
| `pipeline` | every 4-word program over 11 instructions with results and readers of each latency (branches, jumps, address bases, stores); every 3-word program over 12 instructions that raise ADEL (fetch and load), ADES, RI and OV, also in delay slots and behind a busy multiplier, with a handler that moves EPC by 4 with `mtc0` right before `eret` | `TypeOK`, `MduIdle`, `BdExact`, `Implements`, `Progress` |
| `interrupts` | the external line up at any set of edges, around stores, loads, branches, calls, `add` overflows and `mult`; and around `mtc0`, `mfc0` and `eret`, in a program that runs with interrupts enabled and may mask them | `Implements`, `SlotBehindBranch` |
| `soc` | programs that load, start, stop and read timer 0 in one-shot and periodic mode, and its interrupt; the handler switches it off | `Implements`, `IrqMeansExpired`, `TimerExpires` |
| `earlier_cpus` | P5: every program of three words over nine instructions, and those of four that begin with one of three; P6: four words over eleven instructions that begin with one of four, with ignored instructions, the multiply unit, partial loads and stores, and calls out of the program | `Implements`, `Progress` |
| `cosim` | a test of P7: 4-word programs of overflow, a bad address, a conditional branch to its own slot, a call over a word, `mult` and `mfhi`, and of `jr` and `jalr` to a word, to the own slot and to between two words; interrupted before any subset of the words | `NoFalseAlarm`, `Ends` |
| `earlier_tests` | tests of P4 and P5 with five words, of P6 with four | `NoFalseAlarm` (P5, P6), `AlarmOnlyKnown` (P4) |
| `generator` | every five-word program the generator makes of twelve instructions, executed by Isa; whatever it may choose next exists | `NeverPanics`, `StaysInside`, `SameEffect`, `Halts` |
| `generator_sh` | are the instructions listed with `--only-instr` generated | `OnlyListed` (violated) |
| `encoding` | every opcode with fields at their edges from the emulator through the decoder; 61,440 arbitrary words | `Understood`, `OneRow` |
| `compare` | every output of up to four lines from nine against logs of up to two entries each | `Exact`, `BlamesFirst` |
| `runner` | four tests; two, three or any number at a time; with and without `--fail-fast`; one subject that hangs or none; signals and panics | `TypeOK`, `Accounted`, `EvidenceKept`, `NoneSkipped`, `FailFastEnds`, `Terminates` |
| `runner_immediate` | does `--fail-fast` do what its help says | `StopsImmediately` (violated) |

`Implements` is the property the others serve: each step of the pipeline is a step of
the sequential machine or leaves its state alone. A stall or forwarding error gives a wrong
register; an imprecise exception a wrong EPC, a repeated or a lost store; a wrong BD bit a
wrong return address; an access that reaches a timer although flushed, a timer that differs;
an ignored instruction that comes back through a forwarding path, a write too many. The state
properties name the reasons: `MduIdle`, that no instruction reaches a busy multiply
unit, which would drop it; `BdExact` and `SlotBehindBranch`, that reading BD off stage M
and EPC off the oldest stage describes one instruction and that EPC then names its
branch. `Progress` says that no stall keeps itself alive.

`NoFalseAlarm` compares two programs that were written apart, in Verilog with assembly and in
Rust: the second one has no pipeline, no handler and no way back, and still must produce the
same log entry by entry, with pc, register or address, and value. For P5 and P6 it also says that
the fixed simulation time is enough. A correct P4 does fail tests; `AlarmOnlyKnown` says for which two
reasons and that there is no third.

`SameEffect` is why the emulator may execute a program while it is generated: going over the words
once, front to back, and skipping behind taken branches ends with the registers, the memory, HI and
LO that following the branches ends with.

`Exact` compares the comparator with a definition by rank: the k-th line of a kind has to
be the k-th entry of its log. `BlamesFirst` says that the line it prints is where
the subject went wrong first.

## Bounds

* `BITS = 8`, with bytes of 2 bits and half words of 4, so immediates are below 16. Every definition
  is parameterised by the width, field proportions are kept, and overflow, sign extension and
  lanes are all reachable. An opcode's semantics at width 32 differ in nothing but the constants.
  `encoding` uses the real field widths: a word is a tuple of six fields.
* `NREG = 4`: `$0`, two registers to conflict on and the link register. The forwarding
  network compares register numbers for equality only.
* Programs of 3 or 4 free words, over each alphabet. The pipeline holds four
  instructions behind F, so four words show every meeting of two, three or four of them; loops
  and handlers repeat them in other orders. In P7, memory reads as nop behind the free words up to
  `TEXT_MAX`, where the fetch raises ADEL and the handler is entered again: no run ends. P5 and
  P6 halt: P5's 4-word programs fill its memory (`TEXT_MAX5 = 80`), the 3-word ones leave the
  last word unknown, so both ways of leaving a program occur.
* `MULT_CYCLES = 2`, `DIV_CYCLES = 3` instead of 5 and 10: long enough to be seen
  busy by a dependent instruction in D, by the next one, and by a handler.
* `RAM_WORDS = 2`: two words show lanes and a wrong address; for P7 the third address is out of
  range, for P4 to P6 it is the first again.
* `Timers = {0}` in `soc` (one timer per bus access), none elsewhere. The proof about the timers is for both.
* `cosim` needs `BITS = 16` (Cause has the exception code in bits 2-6, the line in bit 12 and BD in
  the top bit), `NREG = 5` (the handler treats `$1` to `$4` and the rest differently) and
  `RAM_WORDS = 6` (its save area); instruction memory is from 64 to 204 with the handler at 96. The
  line stays up for the ten cycles of the bench. Four words hold a value, a branch, its slot and a
  word that it skips.
* `earlier_tests` uses the shortest times that are enough for the length of its programs
  (`CYCLES5 = 13` for 5 words of which each may wait for a load, `CYCLES6 = 32` for 4 that may wait for a division);
  `TEXT_WORDS4 = 8` leaves P4 time to start over.
* `generator`: five words hold a value, a branch, its slot, a word that is skipped and one that is not. The first
  word is one of five, the others any of twelve. `MEM_SIZE` is small enough that every
  address is within an offset of `$0`, as with the default of 3072 words (`OptionsServe`). The alphabet has no loads.
* `compare`: four lines are two of each kind and every order of them; nine lines have each reason not to
  parse. Theorems cover every length.
* `runner`: four tests with a limit of two or three show tests waiting, running and over at once.

Seq is checked for programs without a branch or eret in a delay slot
(`ProgramsAssumption`, `WellFormed`), which the architecture leaves undefined and
the generator never makes a program execute (`StaysInside` shows it; among words that a
branch skips two branches may meet), and without an `eret` in the last word of
instruction memory, where `mips.v:282` leaves a fetch exception behind. P5 is checked, and proved, for
aligned accesses; it ignores the low bits of an address, and the generator run for it
makes none that are misaligned. Every program of `earlier_cpus` keeps to that (`AlignedAccess`).

## Fairness

* Mips, EarlierCpus: `WF_vars(Next)`, the clock does not stop. Nothing is assumed of the external line.
* CoSim, GeneratedRun: weak fairness of the whole step: the generator, the simulation and the
  comparison go on. The simulator stops at `$finish` and Isa at the end of the program, so deadlock is not
  checked there.
* TestRunner: `WF_vars` of the main task, because the runtime polls a task that was woken, and weak
  fairness of what a test waits for: blocking work finishes, and so does a subject that is not
  in `hangs`. There is none on signals or panics. `Terminates` is for runs without a hanging subject,
  `FailFastEnds` for all.
* EarlierTests, LogCompare, Encoding: none, and no liveness. They end with the verdict, so deadlock is
  not checked.
* Deadlock is checked in the runs of Mips and EarlierCpus: a clock edge is always possible.

## Proofs

`MipsProofs` proves two kinds of results about P7. Its own state properties, for every program, width, memory size, latency, set of timers and behaviour of the lines:

| Theorem | Says | Inductive invariant |
|---|---|---|
| `SlotBehindBranchHolds` | `[]SlotBehindBranch` | `SlotInv`: the instruction in F/D is the one its pc names, the fetch address is one word ahead unless a branch or a slot changed it, and each stage's slot status sits behind a branch. The property alone is not inductive: it says nothing of the younger stages, whose statuses will be the oldest ones later |
| `BdExactHolds` | `[]BdExact` | `BdInv`: an empty stage is never followed by a delay slot, pair by pair |
| `MduIdleHolds` | `[]MduIdle` | `MduInv`: a busy counter implies that E holds no user of the unit; `AluBusy` also covers the cycle in which the counter is about to start |
| `TypeCorrect` | `[]TypeOK` | `TypeInv`: `ControlInv` (statuses, codes, the counter, CP0; every instruction in a stage writes to a register in `Reg`), `TimerInv` and `Data` (words, instructions with fields in range, timers). It rests on the lemmas of DatapathProofs on what the ALU, the lanes and the next address are, and on `LineBitsTyped`: the masks of the interrupt lines are distinct bits, so the status and cause words do not overflow |
| `IrqMeansExpiredHolds` | `[]IrqMeansExpired` | `TimerInv`, the property itself with the FSM states; the step rests on the lemma that a write enable never selects the count register |

And its refinement, for every program without a branch or eret in a delay slot and without an
`eret` in the last word of instruction memory (see Bounds), in the same generality:

| Theorem | Says | Inductive invariant |
|---|---|---|
| `MipsImplements` | `Spec` of Mips implies `Implements`, the specification of Seq under the mapping of MipsSeq | `SeqInv`: the four invariants above and `Pipeline` |

`Pipeline` says what each stage knows of the instruction it holds and of the one behind it. `Held`: D, E and M hold what the
program has at their addresses, with the exceptions it raises up to there. `Empties`, `Bubbles`: an empty stage has no
effect, and a bubble left by a stall stands for the instruction that waits behind it, with its pc, status and
exception. `BehindExecute`, `BehindMemory`: what follows the instruction in E and in M is the next word, the target of a branch in
front of its slot, or EPC after an `eret`; for M this is what EPC and BD have to describe when a trap is taken. `Latched`,
`OperandsReady`, `Linked`, `Computes`: operands, links and results, as for P6. The registers of the mapping include what W will
write (`Settled`), those of the next state what M will write (`Coming`).

From the invariant follows which step of Seq a clock is: `TrapStep` (a trap raises what Seq raises, is its interrupt, or is
`Unsaved`), `ExecuteStep`, `ReturnStep` and `WaitStep`. What they rest on: M raises exactly the exception of Seq, including
the one of a waiting instruction that shows through its bubble (`CodeAgrees`), the bridge refuses an access exactly where Seq finds neither a device
nor memory (`MemoryTraps`), the results are the emulator's (`Results`), HI and LO run ahead by the
instruction that leaves E and no other (`HiLoStep`), and what was behind M is the oldest after the clock
(`OldestStep`). The two liberties of Seq are needed in `HiLoStep` and in the `Unsaved` case of `TrapStep`, nowhere else.

`LogCompareProofs` proves, for any output of at most `MAX_LINES` lines and any logs:

| Theorem | Says | Inductive invariant |
|---|---|---|
| `ComparatorExact` | `[]Exact` | `CompareInv`: while the comparator reads, its two positions are the numbers of lines of each kind among those read, and all of these fit; once it has a verdict, the verdict's own reason. The lemmas about `Rank` say how reading one line changes these numbers, and rest on the library's facts about finite cardinalities |
| `ComparatorBlamesFirst` | `[]BlamesFirst` | the same |

`TestRunnerProofs` proves, for any number of tests, any limit, any options and any order of events:

| Theorem | Says | Inductive invariant |
|---|---|---|
| `RunnerTypeCorrect` | `[]TypeOK` | `RunnerInv`: the tests taken from the stream are the first `started` ones and have a verdict from their comparison on (`PlaceInv`); the counters are the sizes of the sets of tests that passed and failed (`CountInv`); `dirs` holds the failed tests and, until the program stops, those on their way (`DirsInv`); what is known when it exits (`ExitInv`) |
| `AccountedHolds` | `[]Accounted` | the same; that the third count, a difference, is the number of tests without a verdict is `CountsAddUp`, by cardinalities of disjoint sets |
| `EvidenceKeptHolds` | `[]EvidenceKept` | the same |
| `NoneSkippedHolds` | `[]NoneSkipped` | the same |

The properties speak of the end alone; the invariant relates the counters and directories to the tests at every
step in between.

`EarlierCpus`, `P6Proofs` and `P5Proofs` prove the refinement, for every width of a word, number of registers,
latency, size of the memories and program:

| Theorem | Says | Inductive invariant |
|---|---|---|
| `P6Implements` | `Spec` of P6 implies `Spec` of Isa | `IsaInv`, below |
| `P5Implements` | the same of P5, while its accesses are aligned (`[]Aligned`) | `IsaInv` of P5, of the same form |
| `EarlierImplements` | `Implements`, the property of `earlier_cpus`, while P5's accesses are aligned | both |

`IsaInv` says what each stage knows about the instruction it holds. `Fetched`: D and E hold what the program
has at their addresses. `SlotBehind`, `TargetBehind`: the next fetch is the delay slot of a branch in D, or what the branch
in E says. `Halting`: once nothing follows an instruction, the address behind it is not part of the program. `Linked`:
a link value is pc + 8. `Latched`: what D read of a register is still in it, unless an instruction in M or W is about to
write it. `OperandsReady`: what is on its way in M can be forwarded to an instruction that needs it in E; this is
what the stall conditions are for. `UnitIdle`: no user of HI and LO reaches a busy multiply unit. The invariant of P5
has no unit, and says more about the end of the program (`Halting`), because P5 looks at the next address when it fetches. Each part alone is not
inductive: operands are right only if the program order is, and the order only if the branch in D read the right
operands.

From the invariant, an instruction that leaves E reads the registers of the sequential machine (`Operands`),
and `DatapathProofs` says that the Verilog then computes what the emulator's Rust computes: `Completes` for
results, HI and LO, loads and stores (by lanes, as `stage_mem.v` does, and by shifting, as `machine.rs` does), `BranchTarget`
for the next address, `TrapsAgree` for what is ignored. It holds for every width because `Words` states what it uses of
powers of two (`PowerAssumption`) and proves the rest: sizes of bytes and half words, the range of the logical operations, wrapping,
sign extension, shifts and division. Where an induction is needed (`Induction`: powers, sums over bits), it is
by a least counterexample, over a set instead of a predicate.

`CoTesterProofs` proves what the co-tester rests on, for every instruction set, number of words, width, and size of the register file and
of both memories:

| Theorem | Says | Inductive invariant |
|---|---|---|
| `UnderstoodHolds` | `[]Understood` of Encoding, for every instruction the emulator has and all values of its fields | `EncodingInv`: the word is the machine code of what was made, the wires are the decoder's rows of the word |
| `OneRowHolds` | `[]OneRow`, for every word | the same |
| `NeverPanicsHolds` | `[]NeverPanics`, for all four combinations of delayed branches and exceptions, with interrupts | `Generating`: the emulator's record is well formed, with `$0` at 0 (`Steady`), and it is in front of a word of the program or behind the last (`AtWord`), whatever it skips |
| `SameEffectHolds` | `[]SameEffect` with delayed branches and without exceptions, the options of the tests of P5 and P6, while `[]BaseKept` | `Tracking`, below |
| `StaysInsideHolds` | `[]StaysInside` under the same premises | the same |

The fields are found again because each is a digit of the word in a mixed base (`DivDiv` and the lemmas behind it); that a word has one row is a comparison
of the two tables.

`NeverPanics` speaks of the choices in the state at hand: a type, a register to jump through, a base for a data address. A branch is never asked for in a
slot or in the last word, and a jump register only where a register holds an address further on (`candidate_types`); `$0` is a
base for every address (`NothingLacks`). The debug assertions of the emulator hold because a branch is never a candidate for a slot, and its target is never
behind it (`GoesForward`). That there is something to choose presupposes options that leave it: an instruction that
is no branch and, with loads or stores, data memory within an offset of `$0`. This is `OptionsServe`, a premise of that half of
`NeverPanics` and not an assumption, because the command line takes other options (`main.rs:141-153`); then the panic is real: `BranchesPanic`
proves it for the last word when there are branches only, `FarDataPanics` for the first word when data memory reaches beyond.

`StaysInside` holds for every address a jump may lead to, below the program as well as above: the next word is one of the program
or the end, and never behind the one at hand.

`SameEffect` compares a run that has jumps with a pass that has none, and no relation of the two states at one moment is
enough: when the machine runs, the emulator has already finished. `Tracking` therefore says that there is a
history `h`, the emulator's state in front of each word, each following from the one before by `Execute` (`Traced`), every word of it suited to
the state it was made in (`Fit`), and that the machine is where that history was (`Following`): in front of the word at
its `pc`, with the registers and the memory of `h` there, or in front of a slot that it is about to execute once
more. A branch of the machine then has to agree with a stretch of the history in which the emulator skipped: `Skips`, that nothing but the pc changes until the target is
reached, is by a least counterexample (`Induction`). The machine's memory repeats where the emulator's ends (`SeenAlike`, `SameStore`): the
generator chooses addresses inside (`GeneratedFits`). Two executions of one slot amount to one because the
instruction reads what it read (`MachineStep`), with one exception.

That exception is `BaseKept`, the premise of the last two theorems: a load whose base is also its target has another base
when it is executed again, and the generator sees to the first access only (`gen.rs:139-162`). Without the premise `SameEffect` is
false for some constants (see [findings](#findings)). It is a restriction of the behaviours, not of the constants; the run `generator` checks the
two properties without it, for an alphabet without loads, and `earlier_tests` compares the writes of programs with loads.

Assumptions: those named in the modules (`WordsAssumption`, `PowerAssumption`, `DecodeAssumption`, `CyclesAssumption`,
`MemoryAssumption`, `Cp0Assumption`, `BridgeAssumption`, `ForwardingAssumption`, `MipsAssumption`,
`ProgramsAssumption`, `TextAssumption`; for the refinement of P7 `SeqAssumption`, that programs lie in instruction memory, in one region
of `j`, and that the timers are above data memory, and `WellFormedAssumption`; `EarlierAssumption`, which says of the constants of both CPUs what `P5Assumption`
and `P6Assumption` say: word-aligned memories below the region of a jump, fields within their widths, no branch in a delay
slot; `LogsAssumption`, `LinesAssumption`; `RunnerAssumption`; `EncodingAssumption`, that the fields of an instruction have their widths; `GeneratorAssumption`, that data memory is
inside the address space and the program within one region of a jump, and that the instructions to choose from have registers and immediates in range). TLC evaluates each of
them on every run that uses the module. Each theorem follows the same path: `Init` establishes the invariant, each kind of
step (`CycleCases`; `CheckStatus`, `NextLine`, `End`; one lemma per action of the runner) preserves it, and it implies the property.

Only model-checked:

* `NoFalseAlarm` of CoSim: it needs an invariant of Seq across the handler, and that the simulation is long enough for it.
* `NoFalseAlarm` and `AlarmOnlyKnown` of EarlierTests: their refinements and `SameEffect` are proved, the logs in between and the
  fixed simulation times are not; for P5 and P6 it is false for some constants, like `SameEffect` without `BaseKept`.
* `SameEffect` and `StaysInside` without delay slots: P4 is compared in `earlier_tests`.
* Everything temporal beyond an invariant (`Progress`, `TimerExpires`, `Ends`, `Halts`, the runner's liveness), which
  the prover does not do.

## Findings

* `--fail-fast` says "Stop testing immediately if one test fails." (`main.rs:119`). The
  cancellation is seen only when the poll of `for_each_concurrent` is over, and that
  poll first fills the free place with the next test: `runner_immediate` shows the
  test that starts after the failure. It is dropped at its first await, so the
  summary is still right (`Accounted`).
* `--only-instr` is "A comma-separated list of instructions that will be generated." (`main.rs:76`).
  For the type `Sh` the generator builds an `SbInstr` (`gen.rs:382`), so `--only-instr sh` gives `sb` and no
  program ever contains `sh`: `generator_sh`.

Met while reading, without a violated run of their own:

* The emulator links pc + 8 also when delayed branching is off (`machine.rs:1370`); so a P4 that
  executes a `jal` fails its test. P4 also starts its program over when it ends before
  the 1024 cycles of the bench are up (`test_coordinator.v:33`, `im.v:17`), which any taken branch causes.
  `AlarmOnlyKnown` states both.
* The 8192 edges of P6's bench are enough for every program of the generator but one in which nearly all of 1024
  instructions wait for a division (`CoSim6Assumption` gives the bound).
* `eret` in the last word of text leaves a fetch exception behind (`mips.v:282`). The region of `j` is put into
  the low bits (`stage_decode.v:207`), which is unreachable. In mode 1 a timer's interrupt is a pulse of one
  cycle and is lost when it falls into a handler (`TC.v:81`).
* `--only-instr` with branches only, `--exclude-instr` of all others, or `--mem-size` above 8192 words with loads or stores are accepted, and make the generator
  choose from an empty slice (`gen.rs:75`), which panics the run (`BranchesPanic`, `FarDataPanics`). The second needs an address that no
  register is near and may not occur.
* A jump to its own slot executes the slot twice. When the slot is a load over its own base, as `lw $2,4($2)`, the second address is
  one the generator never looked at (`gen.rs:139-162`). Beyond data memory the emulator ignores the load
  under `--no-exc` (`machine.rs:167-193`, `:936`), while the memory of P5 and P6 repeats and loads another word: a correct
  CPU fails that test. The proof of `SameEffect` needed `BaseKept` for this, and TLC shows it with six words
  (`lui $1,5`, `ori $1,$1,4`, `sw $1,4($0)`, `nop`, `jr $1` and the load, `$1` being the address of the last).
* The emulator raises an exception for every address beyond data memory, also for a timer's register, which the bridge
  accepts (`machine.rs:936`, `bridge.v:35`).
* A buffered write of a file is not flushed before the subject is started or the program ends (`main.rs:206`,
  `:341`); a dropped test does not kill its subject (`main.rs:211`).

## What is not modelled

* The characters of log lines and messages, the assembly text of an instruction (its `Display`), the
  waveform, and the contents of the files that are written.
* The parsing of options; `--only-instr` and `--exclude-instr` are the constant `InstrSet`, the others constants too.
  The `gen` command, which generates as the `test` command does and writes two files. `build.rs`, which calls the
  assembler.
* The generator's probabilities and its preference for the register and the address written last: they change how often,
  not whether.
* Timers in the co-simulation: the emulator has none, and a generated program reaches one only by a random
  offset (`gen.rs:150`).
* Modes 2 and 3 of a timer, which the interrupt state treats as mode 1.
* Unknown values (X) before reset: every run starts after reset, which sets every register. A word of instruction
  memory that was never loaded is modelled, as a bubble.
* P4's separate testers of ALU, extender and register file, which its bench has commented out.
* P0 to P3: schematics, that is wires by coordinates, and scripts that run them. P1 and Pre: stand-alone exercises (recognisers
  of strings, counters, a Gray code) with no part in the computer and no test or statement of what they should
  do in the repository. P2: assembly exercises with console input.

## Plan

Done: the four Verilog CPUs with their contracts and refinements; the generator, the emulator with its machine code, the
comparator and the runner of the co-tester; the tests of each CPU; the theorems above, with the refinements of P5, P6 and P7
for every program, and of the co-tester what its prediction rests on. Next:

1. **NoFalseAlarm** of P7 from its refinement: what the generator's machine predicts is what Seq does under the handler. It
   needs an invariant of Seq across the handler, whose registers and save area the logs leave out.
2. **NoFalseAlarm** of P5 and P6 under `BaseKept`: from `EarlierImplements` and `SameEffectHolds`, with the entries of the logs in
   `Tracking` and a bound on the number of stalls.
