------------------------------ MODULE Generator ------------------------------
(***************************************************************************)
(* The generator of the co-tester (gen.rs): an iterator that chooses an     *)
(* instruction to suit the state of the emulator and executes it on the     *)
(* emulator at once.  Whatever a random source may yield is possible here;  *)
(* preferences, such as for the register written last, are left out.        *)
(***************************************************************************)
EXTENDS Machine

CONSTANTS INSTR_COUNT,   \* --instr-count
          InstrSet,      \* the types to choose from: --only-instr or all but --exclude-instr
          Shapes         \* the programs considered: for each word of one, a set of instructions

InstructionType == {"nop"} \cup (Known \ {"mfc0", "mtc0", "eret"})

\* What the generator takes for granted of its options: data memory inside the address space
\* with room for what the handler saves, and a program that an offset and an index reach
\* from end to end.
ASSUME GeneratorAssumption ==
  /\ InstrSet \subseteq InstructionType
  /\ NREG \in Nat \ {0} /\ MEM_SIZE \in Nat \ {0} /\ 4 * MEM_SIZE <= WORDS
  /\ DELAYED \in BOOLEAN /\ EXCEPTIONS \in BOOLEAN /\ (EXCEPTIONS => MEM_SIZE >= NREG + 1)
  /\ INSTR_COUNT \in Nat \ {0} /\ INSTR_COUNT <= HALF \div 2
  /\ TEXT_MIN \in Nat /\ TEXT_MIN % 4 = 0
  /\ TEXT_MIN + 4 * INSTR_COUNT < WORDS /\ TEXT_MIN + 4 * INSTR_COUNT < Region
  /\ RA \in 0 .. NREG - 1
  /\ \A s \in Shapes : /\ DOMAIN s = 1 .. INSTR_COUNT
                        /\ \A n \in DOMAIN s : \A i \in s[n] : {i.rs, i.rt, i.rd} \subseteq 0 .. NREG - 1 /\ i.imm \in Word

VARIABLE prog       \* the words generated so far
-----------------------------------------------------------------------------
jump_limit == TEXT_MIN + 4 * INSTR_COUNT
Generated == machine.pc >= jump_limit
InHalf(n) == n \in 0 - (HALF \div 2) .. (HALF \div 2) - 1
is_branch(t) == t \in Branch
instr_set_no_branch == {t \in InstrSet : ~is_branch(t)}
mem_addr == 0 .. 4 * MEM_SIZE - 1
gen_grf_read_addr(exclude) == (0 .. NREG - 1) \ exclude
Alignment(t) == CASE t \in {"lh", "lhu", "sh"} -> 2 [] t \in {"lw", "sw"} -> 4 [] OTHER -> 1

\* Registers that hold an address further on in the program.
jr_candidates_wide(k, unaligned) ==                      \* Fault: the end of the program is no limit
  {r \in DOMAIN k.grf : k.grf[r] > k.pc /\ (unaligned \/ k.grf[r] % 4 = 0)}
jr_candidates_low(k, unaligned) ==                       \* Fault: nor is the word at hand
  {r \in DOMAIN k.grf : k.grf[r] < jump_limit /\ (unaligned \/ k.grf[r] % 4 = 0)}
jr_candidates_back(k, unaligned) ==                      \* Fault: jumps may go back
  {r \in DOMAIN k.grf : k.grf[r] \in TEXT_MIN .. jump_limit - 1 /\ (unaligned \/ k.grf[r] % 4 = 0)}
jr_candidates(k, unaligned) ==
  {r \in DOMAIN k.grf : k.grf[r] \in k.pc + 1 .. jump_limit - 1 /\ (unaligned \/ k.grf[r] % 4 = 0)}

\* The types to choose from: no branch in a delay slot or in the last word, and no jump
\* through a register that has nowhere to go.
candidate_types_any(k, unaligned) ==                     \* Fault: a branch may follow a branch
  IF jr_candidates(k, unaligned) = {} THEN InstrSet \ JumpReg ELSE InstrSet
candidate_types_jr(k, unaligned) ==                      \* Fault: a jump register need not exist
  IF k.state.at = "InDelaySlot" \/ k.pc + 4 = jump_limit THEN instr_set_no_branch ELSE InstrSet
candidate_types(k, unaligned) ==
  IF k.state.at = "InDelaySlot" \/ k.pc + 4 = jump_limit THEN instr_set_no_branch
  ELSE IF jr_candidates(k, unaligned) = {} THEN InstrSet \ JumpReg ELSE InstrSet

\* The bases from which address a is within an offset.
base_candidates(k, a) == {r \in DOMAIN k.grf : InHalf(a - k.grf[r])}

\* A base register and an offset for some address of data memory; when an exception is
\* welcome the address may be misaligned, and a base that is too far away has any offset.
gen_base_and_offset(k, t, base, offset) ==
  \E a \in mem_addr, allow_exc \in {FALSE, EXCEPTIONS} :
    LET addr == IF allow_exc THEN a ELSE a - (a % Alignment(t))
    IN IF base \in base_candidates(k, addr) THEN offset = U(addr - k.grf[base]) ELSE allow_exc

\* Branches go forward, at most to the end of the program.
gen_branch_offset(k) ==
  {IF k.pc + 4 * (o + 1) < jump_limit THEN o ELSE (jump_limit - k.pc - 1) \div 4 :
     o \in (IF EXCEPTIONS THEN 0 ELSE 1) .. INSTR_COUNT}
gen_jump_addr(k) == {k.pc \div 4 + o + 1 : o \in gen_branch_offset(k)}

\* The instruction made for a type; for Sh it is the one of Sb.
Built(t) == CASE t = "nop" -> "sll" [] t = "sh" -> "sb" [] OTHER -> t

\* The operands an instruction of type t may be given.
Suits(k, t, unaligned, i) ==
  /\ i.op = Built(t)
  /\ t = "nop" => i = Nop
  /\ t \in Load \cup Store => gen_base_and_offset(k, t, i.rs, Simm(i))
  /\ t \in BranchRT \cup BranchZ => i.imm \in gen_branch_offset(k)
  /\ t \in {"j", "jal"} => i.imm \in gen_jump_addr(k)
  /\ t \in JumpReg => i.rs \in jr_candidates(k, unaligned)
  /\ t = "jalr" => i.rd \in gen_grf_read_addr({i.rs})

\* An interrupt comes first, if there is one.
Started(irq) == IF irq THEN Interrupt(machine) ELSE machine

\* The instructions considered here: those of the shapes the program has so far.
Considered(k) ==
  LET n == (k.pc - TEXT_MIN) \div 4
  IN UNION {s[n + 1] : s \in {s \in Shapes : \A j \in 1 .. n : prog[TEXT_MIN + 4 * (j - 1)] \in s[j]}}
Candidates(k) == {i \in Considered(k) : \E u \in {FALSE, EXCEPTIONS} : \E t \in candidate_types(k, u) : Suits(k, t, u, i)}

\* The program with instruction i at address a.
Written(p, a, i) == [b \in DOMAIN p \cup {a} |-> IF b = a THEN i ELSE p[b]]

GenInit == machine = New /\ prog = [a \in {} |-> Nop]

Generate ==
  /\ ~Generated
  /\ \E irq \in {FALSE, EXCEPTIONS} :
       LET k == Started(irq)
       IN \E i \in Candidates(k) : machine' = Execute(k, i) /\ prog' = Written(prog, k.pc, i)
-----------------------------------------------------------------------------
(* What makes the generator panic. *)

\* A choice from an empty slice (RngExt::rand_select): of a type, of the register of a jump,
\* of the base for a data address.
NothingToChoose(k) ==
  \E u \in {FALSE, EXCEPTIONS} :
    \/ candidate_types(k, u) = {}
    \/ candidate_types(k, u) \cap JumpReg # {} /\ jr_candidates(k, u) = {}
    \/ \E t \in candidate_types(k, u) \cap (Load \cup Store), a \in mem_addr :
         base_candidates(k, a - (a % Alignment(t))) = {}

\* A debug assertion of MipsMachine::execute or of an instruction: a branch that goes back
\* or sits in a slot, a jalr that links into the register it jumps through.
AssertionFails(k, i) ==
  CASE k.state.at = "Normal" -> \/ BranchResult(i, k) # <<>> /\ BranchResult(i, k)[1] <= k.pc
                                \/ i.op = "jalr" /\ i.rs = i.rd
    [] k.state.at = "InDelaySlot" -> ~DELAYED \/ i.op \in Branch
    [] OTHER -> FALSE
=============================================================================
