------------------------------- MODULE Bridge -------------------------------
(***************************************************************************)
(* The bridge from data memory to the two timers (P7/bridge.v): the device  *)
(* an address selects, and the accesses that are refused.                   *)
(***************************************************************************)
EXTENDS Memory

CONSTANTS Timers,       \* the timers on the bridge: {0, 1}
          DEV_BASE      \* address of timer 0: 16r7f00; timer k is 16 k above it
ASSUME BridgeAssumption == Timers \subseteq {0, 1} /\ DEV_BASE \in Nat

\* The timer an address selects, as a set of at most one, and the register in it.
Selected(a) == {k \in Timers : a \in DEV_BASE + 16 * k .. DEV_BASE + 16 * k + 11}
DevReg(a) == ((a - DEV_BASE) % 16) \div 4

BridgeErrWritable(i, a) == a % 4 # 0 \/ MemType(i) # "WORD" \/ Selected(a) = {}   \* Fault: count is writable
\* The bridge refuses all but aligned word accesses to a timer, and writes to its count.
BridgeErr(i, a) == \/ a % 4 # 0 \/ MemType(i) # "WORD" \/ Selected(a) = {}
                   \/ MemMode(i) = "WRITE" /\ DevReg(a) = 2

MemExc(i, a) ==
  IF ~(IF BridgeEnable(i, a) THEN BridgeErr(i, a) ELSE InvalidAddr(i, a)) THEN 0
  ELSE CASE MemMode(i) = "READ" -> ADEL [] MemMode(i) = "WRITE" -> ADES [] OTHER -> 0
=============================================================================
