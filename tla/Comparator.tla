----------------------------- MODULE Comparator -----------------------------
(***************************************************************************)
(* The verdict of the co-tester on the output of a CPU (log.rs:97-113,      *)
(* main.rs:217-276).  A line is taken apart into its pieces:                *)
(*   lead  what precedes the '@': "time" (blanks, then digits) or "other";  *)
(*   pc, addr, data  numbers, or Unknown where a digit is x or z;           *)
(*   to    "$" for a register, "*" for memory;                              *)
(*   tail  what follows the data: "" or "other".                            *)
(* A log entry is <<pc, addr, data>>.  The emulator's two logs are those of *)
(* the record m.  The comparator's state is a record c: the entries matched *)
(* in each log and the verdict, "none" as long as it reads.                 *)
(***************************************************************************)
EXTENDS Integers, Sequences

Unknown == 0 - 1
Line(to, entry) == [lead |-> "time", pc |-> entry[1], to |-> to, addr |-> entry[2], data |-> entry[3], tail |-> ""]
Entry(l) == <<l.pc, l.addr, l.data>>

\* The line is one the expression matches and whose register number fits a byte.
Parses(l) == /\ l.lead = "time" /\ l.tail = ""
             /\ Unknown \notin {l.pc, l.addr, l.data}
             /\ l.to = "$" => l.addr <= 255

Start == [grf_id |-> 0, mem_id |-> 0, verdict |-> "none"]

\* Fault: the last entry of a log is taken for its end.
ExpectShort(log, id, e) == IF id + 1 >= Len(log) THEN "ended" ELSE IF log[id + 1] # e THEN "differs" ELSE "none"
\* What an entry read where `id' are matched is told.
Expect(log, id, e) == IF id >= Len(log) THEN "ended" ELSE IF log[id + 1] # e THEN "differs" ELSE "none"

ReadGrf(c, l, m) == LET v == Expect(m.grf_log, c.grf_id, Entry(l))
                    IN [c EXCEPT !.verdict = v, !.grf_id = IF v = "none" THEN @ + 1 ELSE @]
ReadMem(c, l, m) == LET v == Expect(m.mem_log, c.mem_id, Entry(l))
                    IN [c EXCEPT !.verdict = v, !.mem_id = IF v = "none" THEN @ + 1 ELSE @]

\* A line that does not parse is skipped, and so is a write to $0; the others must be the
\* next entry of their log.  The first that is not ends the comparison.
Read(c, l, m) == IF c.verdict # "none" \/ ~Parses(l) THEN c
                 ELSE IF l.to = "*" THEN ReadMem(c, l, m)
                 ELSE IF l.addr = 0 THEN c ELSE ReadGrf(c, l, m)

\* Fault: a CPU that stops early is not found out by its memory writes.
AtEndGrf(c, m) ==
  IF c.verdict # "none" THEN c
  ELSE [c EXCEPT !.verdict = IF c.grf_id < Len(m.grf_log) THEN "few_grf" ELSE "pass"]

\* What is left of the logs when the output has ended is missing.
AtEnd(c, m) ==
  IF c.verdict # "none" THEN c
  ELSE [c EXCEPT !.verdict = IF c.grf_id < Len(m.grf_log) THEN "few_grf"
                             ELSE IF c.mem_id < Len(m.mem_log) THEN "few_mem" ELSE "pass"]
=============================================================================
