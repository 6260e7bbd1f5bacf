----------------------------- MODULE LogCompare -----------------------------
(***************************************************************************)
(* The comparison of one test (main.rs:216-276): the output of the subject  *)
(* and the status it exited with are complete before it starts.             *)
(***************************************************************************)
EXTENDS Comparator, FiniteSets

CONSTANTS Lines,     \* the lines a subject may print
          MAX_LINES, \* and how many
          Logs       \* what the emulator expects: records with grf_log and mem_log

ASSUME LogsAssumption == /\ MAX_LINES \in Nat
                         /\ \A m \in Logs : m.grf_log \in Seq(Int \X Int \X Int) /\ m.mem_log \in Seq(Int \X Int \X Int)
ASSUME LinesAssumption ==
  Lines \subseteq [lead : {"time", "other"}, pc : Int, to : {"$", "*"}, addr : Int, data : Int, tail : {"", "other"}]

VARIABLES
  success,  \* the subject's exit status
  output,   \* its lines
  machine,  \* the emulator, of which only the logs are used
  i,        \* lines read
  cmp       \* the comparator

vars == <<success, output, machine, i, cmp>>

Init == /\ success \in BOOLEAN
        /\ output \in UNION {[1 .. n -> Lines] : n \in 0 .. MAX_LINES}
        /\ machine \in Logs
        /\ i = 0 /\ cmp = Start

\* A subject that failed is reported without looking at what it printed.
CheckStatus == /\ ~success /\ cmp.verdict = "none"
               /\ cmp' = [cmp EXCEPT !.verdict = "failed"]
               /\ UNCHANGED <<success, output, machine, i>>

NextLine == /\ cmp.verdict = "none" /\ success /\ i < Len(output)
            /\ i' = i + 1 /\ cmp' = Read(cmp, output[i + 1], machine)
            /\ UNCHANGED <<success, output, machine>>

End == /\ cmp.verdict = "none" /\ success /\ i = Len(output)
       /\ cmp' = AtEnd(cmp, machine)
       /\ UNCHANGED <<success, output, machine, i>>

Next == CheckStatus \/ NextLine \/ End
Spec == Init /\ [][Next]_vars
-----------------------------------------------------------------------------
(* Properties *)

GrfLines == {k \in 1 .. Len(output) : Parses(output[k]) /\ output[k].to = "$" /\ output[k].addr # 0}
MemLines == {k \in 1 .. Len(output) : Parses(output[k]) /\ output[k].to = "*"}
Rank(K, k) == Cardinality({j \in K : j <= k})

\* Line k is the entry of the log that its place among the lines K of its kind calls for.
Fits(K, log, k) == Rank(K, k) <= Len(log) /\ Entry(output[k]) = log[Rank(K, k)]
LineFits(k) == /\ k \in GrfLines => Fits(GrfLines, machine.grf_log, k)
               /\ k \in MemLines => Fits(MemLines, machine.mem_log, k)

\* The subject ran and wrote what the emulator wrote: its register writes, in their order,
\* are the ones of the log, and so are its memory writes.  Nothing is said about how the
\* two are interleaved, nor about lines with an unknown digit.
SameWrites == /\ success
              /\ \A k \in 1 .. Len(output) : LineFits(k)
              /\ Cardinality(GrfLines) = Len(machine.grf_log)
              /\ Cardinality(MemLines) = Len(machine.mem_log)

\* A test succeeds exactly if the subject wrote what the emulator wrote (main.rs:224-276).
Exact == cmp.verdict # "none" => (cmp.verdict = "pass" <=> SameWrites)

\* The line reported is the first that cannot be right: every line before it fits, and it
\* does not (main.rs:233, :252); nothing is reported as missing while a line is wrong.
BlamesFirst ==
  /\ cmp.verdict \in {"differs", "ended"} => (\A k \in 1 .. i - 1 : LineFits(k)) /\ ~LineFits(i)
  /\ cmp.verdict \in {"few_grf", "few_mem"} => \A k \in 1 .. Len(output) : LineFits(k)
=============================================================================
