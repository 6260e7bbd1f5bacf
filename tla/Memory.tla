------------------------------- MODULE Memory -------------------------------
(***************************************************************************)
(* The data memory of the pipelined CPUs and its byte lanes                 *)
(* (P7/stage_mem.v), and the extension of a loaded value                    *)
(* (P7/stage_write.v).                                                      *)
(***************************************************************************)
EXTENDS Decode

CONSTANT RAM_WORDS      \* data memory, from address 0: 3072 words, 4096 in P6
ASSUME MemoryAssumption == RAM_WORDS \in Nat \ {0}

DATA_MAX == 4 * RAM_WORDS

InvalidAddr(i, a) == \/ MemType(i) = "HALF" /\ a % 2 # 0
                     \/ MemType(i) = "WORD" /\ a % 4 # 0
BridgeEnable(i, a) == ~InvalidAddr(i, a) /\ a >= DATA_MAX

\* The lane of a memory word an access reads, not yet extended ...
ReadLane(i, a, w) == CASE MemType(i) = "BYTE" -> Lane(w, BYTE, a % 4)
                       [] MemType(i) = "HALF" -> Lane(w, HALF, (a \div 2) % 2)
                       [] OTHER -> w
\* ... and the word a store of v leaves behind.
WriteLane(i, a, w, v) == CASE MemType(i) = "BYTE" -> SetLane(w, BYTE, a % 4, v)
                           [] MemType(i) = "HALF" -> SetLane(w, HALF, (a \div 2) % 2, v)
                           [] OTHER -> v

\* Data memory outside its range reads as no particular value; the access traps.
RamWord(ram, a) == IF a < DATA_MAX THEN ram[a \div 4] ELSE 0

RamNext(ram, i, a, v, intReq) ==
  IF MemMode(i) = "WRITE" /\ ~BridgeEnable(i, a) /\ ~intReq
  THEN [ram EXCEPT ![a \div 4] = WriteLane(i, a, RamWord(ram, a), v)] ELSE ram

\* Extension of the loaded lane, applied in the write-back stage.
WriteBack(ext, v) == CASE ext = "lb" -> ExtByte(v) [] ext = "lbu" -> v % BYTE
                       [] ext = "lh" -> ExtHalf(v) [] ext = "lhu" -> v % HALF
                       [] OTHER -> v
ExtType(i) == IF i.op \in Load \ {"lw"} THEN i.op ELSE "NONE"
=============================================================================
