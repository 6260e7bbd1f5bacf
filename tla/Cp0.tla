-------------------------------- MODULE Cp0 --------------------------------
(***************************************************************************)
(* Coprocessor 0 of the CPU (P7/cp0.v): the status, cause and EPC registers *)
(* and the decision to take an exception or an interrupt.  The registers    *)
(* are kept as their fields; a line is an index into the six hardware       *)
(* interrupt lines.                                                         *)
(***************************************************************************)
EXTENDS Decode

CONSTANTS Lines,       \* interrupt lines: 0 and 1 the timers, 2 the external one, 3 to 5 tied low
          IM_LOW,      \* bit of line 0 in status and cause: 10
          PRID         \* the processor identifier: 16rdeadbeaf

\* The masks of the lines lie above the other bits of status, and within the word.
ASSUME Cp0Assumption ==
  /\ Lines \in SUBSET (0 .. 5) /\ 2 \in Lines /\ PRID \in Nat
  /\ IM_LOW \in 2 .. BITS - 1 /\ \A l \in Lines : IM_LOW + l < BITS

\* Register numbers
STATUS == 12
CAUSE == 13
EPC == 14
PRID_REG == 15

\* Interrupts enabled, the external line unmasked.
Cp0Reset == [ie |-> 1, exl |-> 0, im |-> {2}, bd |-> 0, exc |-> 0, ip |-> {}, epc |-> 0]

LineBit(ls, l) == IF l \in ls THEN 2^(IM_LOW + l) ELSE 0
LineBits(ls) == LineBit(ls, 0) + LineBit(ls, 1) + LineBit(ls, 2) + LineBit(ls, 3) + LineBit(ls, 4) + LineBit(ls, 5)
StatusWord(c) == c.ie + 2 * c.exl + LineBits(c.im)
CauseWord(c)  == U(c.bd * 2^(BITS - 1) + LineBits(c.ip) + 4 * c.exc)

Cp0Read(c, r) == CASE r = STATUS -> StatusWord(c) [] r = CAUSE -> CauseWord(c)
                   [] r = EPC -> c.epc [] r = PRID_REG -> U(PRID) [] OTHER -> 0

\* hw_int_req and int_req, for the lines now high and the exception now in M.
HwIntReq(c, lines) == c.exl = 0 /\ c.ie = 1 /\ lines \cap c.im # {}
IntReq(c, exc, lines) == exc # 0 \/ HwIntReq(c, lines)

\* mtc0 reaches the fields of status, and EPC; writes elsewhere are ignored.
Cp0Write(c, r, v) ==
  CASE r = STATUS -> [c EXCEPT !.ie = Bit(v, 0), !.exl = Bit(v, 1),
                               !.im = {l \in Lines : Bit(v, IM_LOW + l) = 1}]
    [] r = EPC -> [c EXCEPT !.epc = Align(v)]
    [] OTHER -> c

Cp0Trap(c, bd, pc, exc, lines) ==
  [ie |-> c.ie, exl |-> 1, im |-> c.im, ip |-> c.ip, bd |-> Flag(bd),
   exc |-> IF HwIntReq(c, lines) THEN 0 ELSE exc,
   epc |-> IF bd THEN U(Align(pc) - 4) ELSE Align(pc)]

\* One clock.  An mtc0 or eret in M takes precedence over the trap being requested.
Cp0Next(c, i, v, bd, pc, exc, lines) ==
  LET d == CASE i.op = "mtc0" -> Cp0Write(c, i.rd, v)
             [] i.op = "eret" -> [c EXCEPT !.exl = 0]
             [] OTHER -> IF IntReq(c, exc, lines) THEN Cp0Trap(c, bd, pc, exc, lines) ELSE c
  IN  [d EXCEPT !.ip = lines]
=============================================================================
