-------------------------- MODULE LogCompareProofs --------------------------
(***************************************************************************)
(* The comparator's verdict is right for every output, however long, and    *)
(* for every pair of logs.                                                  *)
(***************************************************************************)
EXTENDS LogCompare, FiniteSetTheorems, TLAPS

Verdict == {"none", "pass", "failed", "differs", "ended", "few_grf", "few_mem"}

\* While the comparator reads, each of its counters is the number of lines of its kind
\* behind it, and every one of them fits.
Reading == /\ cmp.grf_id = Rank(GrfLines, i) /\ cmp.grf_id <= Len(machine.grf_log)
           /\ cmp.mem_id = Rank(MemLines, i) /\ cmp.mem_id <= Len(machine.mem_log)
           /\ \A k \in 1 .. i : LineFits(k)
Missing == \/ Cardinality(GrfLines) # Len(machine.grf_log)
           \/ Cardinality(MemLines) # Len(machine.mem_log)

TypeInv == /\ success \in BOOLEAN
           /\ output \in Seq(Lines) /\ i \in 0 .. Len(output)
           /\ machine.grf_log \in Seq(Int \X Int \X Int) /\ machine.mem_log \in Seq(Int \X Int \X Int)
           /\ cmp \in [grf_id : Nat, mem_id : Nat, verdict : Verdict]

VerdictInv ==
  /\ cmp.verdict = "none" => Reading
  /\ cmp.verdict = "failed" => ~success
  /\ cmp.verdict \in {"differs", "ended"} => i > 0 /\ (\A k \in 1 .. i - 1 : LineFits(k)) /\ ~LineFits(i)
  /\ cmp.verdict \in {"few_grf", "few_mem"} => (\A k \in 1 .. Len(output) : LineFits(k)) /\ Missing
  /\ cmp.verdict = "pass" => SameWrites

CompareInv == TypeInv /\ VerdictInv
-----------------------------------------------------------------------------
(* Places in a set of positions. *)

LEMMA RankType ==
  ASSUME NEW n \in Nat, NEW K \in SUBSET (1 .. n), NEW k
  PROVE  IsFiniteSet({j \in K : j <= k}) /\ Rank(K, k) \in Nat
<1>1. IsFiniteSet(1 .. n)
  BY FS_Interval
<1>2. IsFiniteSet({j \in K : j <= k})
  BY <1>1, FS_Subset
<1> QED BY <1>2, FS_CardinalityType DEF Rank

LEMMA RankZero ==
  ASSUME NEW n \in Nat, NEW K \in SUBSET (1 .. n)
  PROVE  Rank(K, 0) = 0
<1>1. \A j \in K : ~(j <= 0)
  OBVIOUS
<1>2. {j \in K : j <= 0} = {}
  BY <1>1
<1> QED BY <1>2, FS_EmptySet DEF Rank

LEMMA RankAll ==
  ASSUME NEW n \in Nat, NEW K \in SUBSET (1 .. n)
  PROVE  Rank(K, n) = Cardinality(K)
<1>1. \A j \in K : j <= n
  OBVIOUS
<1>2. {j \in K : j <= n} = K
  BY <1>1
<1> QED BY <1>2 DEF Rank

LEMMA RankStep ==
  ASSUME NEW n \in Nat, NEW K \in SUBSET (1 .. n), NEW k \in Nat
  PROVE  Rank(K, k + 1) = IF k + 1 \in K THEN Rank(K, k) + 1 ELSE Rank(K, k)
<1> DEFINE A == {j \in K : j <= k}
<1>0. \A j \in K : j \in Nat /\ (j <= k + 1 <=> j <= k \/ j = k + 1)
  OBVIOUS
<1>1. IsFiniteSet(A) /\ k + 1 \notin A
  BY RankType, <1>0
<1>2. CASE k + 1 \in K
  <2>1. {j \in K : j <= k + 1} = A \cup {k + 1}
    BY <1>0, <1>2
  <2>2. Cardinality(A \cup {k + 1}) = Cardinality(A) + 1
    BY <1>1, FS_AddElement
  <2> QED BY <1>2, <2>1, <2>2 DEF Rank
<1>3. CASE k + 1 \notin K
  <2>1. {j \in K : j <= k + 1} = A
    BY <1>0, <1>3
  <2> QED BY <1>3, <2>1 DEF Rank
<1> QED BY <1>2, <1>3
-----------------------------------------------------------------------------
(* One line, and the end of the output. *)

LEMMA Positions ==
  ASSUME TypeInv
  PROVE  /\ Len(output) \in Nat
         /\ GrfLines \in SUBSET (1 .. Len(output)) /\ MemLines \in SUBSET (1 .. Len(output))
         /\ Len(machine.grf_log) \in Nat /\ Len(machine.mem_log) \in Nat
         /\ i \in Nat
         /\ \A k \in 1 .. Len(output) : output[k].to \in {"$", "*"} /\ output[k].addr \in Int
<1>1. Len(output) \in Nat /\ Len(machine.grf_log) \in Nat /\ Len(machine.mem_log) \in Nat /\ i \in Nat
  BY DEF TypeInv
<1>2. \A k \in 1 .. Len(output) : output[k] \in Lines
  BY DEF TypeInv
<1>3. \A l \in Lines : l.to \in {"$", "*"} /\ l.addr \in Int
  BY LinesAssumption
<1>4. GrfLines \in SUBSET (1 .. Len(output)) /\ MemLines \in SUBSET (1 .. Len(output))
  BY DEF GrfLines, MemLines
<1> QED BY <1>1, <1>2, <1>3, <1>4

\* The properties speak of the output and of the logs, which no step changes.
LEMMA Unchanging ==
  ASSUME UNCHANGED <<output, machine, success>>
  PROVE  /\ GrfLines' = GrfLines /\ MemLines' = MemLines
         /\ \A k : LineFits(k)' <=> LineFits(k)
         /\ Missing' <=> Missing
         /\ SameWrites' <=> SameWrites
<1>1. GrfLines' = GrfLines /\ MemLines' = MemLines
  BY DEF GrfLines, MemLines
<1>2. \A k : LineFits(k)' <=> LineFits(k)
  BY <1>1 DEF LineFits, Fits
<1> QED BY <1>1, <1>2 DEF Missing, SameWrites

LEMMA Updates ==
  ASSUME NEW c \in [grf_id : Nat, mem_id : Nat, verdict : Verdict], NEW v \in Verdict, NEW n \in Nat
  PROVE  LET g == [c EXCEPT !.verdict = v, !.grf_id = n]
             h == [c EXCEPT !.verdict = v, !.mem_id = n]
         IN /\ g \in [grf_id : Nat, mem_id : Nat, verdict : Verdict]
            /\ g.verdict = v /\ g.grf_id = n /\ g.mem_id = c.mem_id
            /\ h \in [grf_id : Nat, mem_id : Nat, verdict : Verdict]
            /\ h.verdict = v /\ h.grf_id = c.grf_id /\ h.mem_id = n
OBVIOUS

LEMMA LineStep == CompareInv /\ NextLine => CompareInv'
<1> SUFFICES ASSUME CompareInv, NextLine PROVE CompareInv'
  OBVIOUS
<1> DEFINE l == output[i + 1]
           g == Expect(machine.grf_log, cmp.grf_id, Entry(l))
           h == Expect(machine.mem_log, cmp.mem_id, Entry(l))
<1>1. /\ TypeInv /\ Reading /\ cmp.verdict = "none"
      /\ i < Len(output) /\ i' = i + 1 /\ cmp' = Read(cmp, l, machine)
      /\ UNCHANGED <<output, machine, success>>
  BY DEF CompareInv, VerdictInv, NextLine
<1>2. /\ Len(output) \in Nat /\ i \in Nat /\ i + 1 \in 1 .. Len(output)
      /\ GrfLines \in SUBSET (1 .. Len(output)) /\ MemLines \in SUBSET (1 .. Len(output))
      /\ Len(machine.grf_log) \in Nat /\ Len(machine.mem_log) \in Nat
      /\ l.to \in {"$", "*"} /\ l.addr \in Int
  BY <1>1, Positions
<1>3. /\ Rank(GrfLines, i + 1) = IF i + 1 \in GrfLines THEN cmp.grf_id + 1 ELSE cmp.grf_id
      /\ Rank(MemLines, i + 1) = IF i + 1 \in MemLines THEN cmp.mem_id + 1 ELSE cmp.mem_id
  BY <1>1, <1>2, RankStep, ZenonT(60) DEF Reading
<1>4. /\ i + 1 \in GrfLines <=> Parses(l) /\ l.to = "$" /\ l.addr # 0
      /\ i + 1 \in MemLines <=> Parses(l) /\ l.to = "*"
  BY <1>2 DEF GrfLines, MemLines
<1>5. /\ GrfLines' = GrfLines /\ MemLines' = MemLines
      /\ \A k : LineFits(k)' <=> LineFits(k)
  BY <1>1, Unchanging
<1>6. /\ cmp \in [grf_id : Nat, mem_id : Nat, verdict : Verdict]
      /\ cmp.grf_id \in Nat /\ cmp.mem_id \in Nat
  BY <1>1 DEF TypeInv
<1>7. /\ g \in {"none", "ended", "differs"}
      /\ g = "none" <=> cmp.grf_id + 1 <= Len(machine.grf_log) /\ Entry(l) = machine.grf_log[cmp.grf_id + 1]
      /\ h \in {"none", "ended", "differs"}
      /\ h = "none" <=> cmp.mem_id + 1 <= Len(machine.mem_log) /\ Entry(l) = machine.mem_log[cmp.mem_id + 1]
  BY <1>2, <1>6 DEF Expect
<1> HIDE DEF g, h
<1>8. CASE i + 1 \in GrfLines
  <2>1. i + 1 \notin MemLines /\ l.to # "*" /\ Parses(l) /\ l.addr # 0
    BY <1>4, <1>8
  <2>2. cmp' = [cmp EXCEPT !.verdict = g, !.grf_id = IF g = "none" THEN cmp.grf_id + 1 ELSE cmp.grf_id]
    BY <1>1, <2>1 DEF Read, ReadGrf, g
  <2>3. /\ cmp'.verdict = g /\ cmp'.mem_id = cmp.mem_id
        /\ cmp'.grf_id = IF g = "none" THEN cmp.grf_id + 1 ELSE cmp.grf_id
        /\ cmp' \in [grf_id : Nat, mem_id : Nat, verdict : Verdict]
    <3>1. g \in Verdict /\ (IF g = "none" THEN cmp.grf_id + 1 ELSE cmp.grf_id) \in Nat
      BY <1>6, <1>7 DEF Verdict
    <3> QED BY <1>6, <2>2, <3>1, Updates
  <2>4. LineFits(i + 1) <=> g = "none"
    BY <1>2, <1>3, <1>7, <1>8, <2>1 DEF LineFits, Fits
  <2>5. TypeInv'
    BY <1>1, <1>2, <2>3 DEF TypeInv
  <2>6. CASE g = "none"
    <3>1. Reading'
      BY <1>1, <1>2, <1>3, <1>5, <1>7, <1>8, <2>1, <2>3, <2>4, <2>6 DEF Reading
    <3> QED BY <2>3, <2>5, <2>6, <3>1 DEF CompareInv, VerdictInv
  <2>7. CASE g # "none"
    <3>1. g \in {"ended", "differs"}
      BY <1>7, <2>7
    <3>2. (\A k \in 1 .. i : LineFits(k)) /\ ~LineFits(i + 1)
      BY <1>1, <2>4, <2>7 DEF Reading
    <3>3. i' > 0 /\ (\A k \in 1 .. i' - 1 : LineFits(k)')
      BY <1>1, <1>2, <1>5, <3>2
    <3>4. ~(LineFits(i)')
      BY <1>1, <1>2, <1>3, <1>5, <1>7, <1>8, <2>7 DEF LineFits, Fits
    <3> QED BY <2>3, <2>5, <3>1, <3>3, <3>4 DEF CompareInv, VerdictInv
  <2> QED BY <2>6, <2>7
<1>9. CASE i + 1 \in MemLines
  <2>1. i + 1 \notin GrfLines /\ l.to = "*" /\ Parses(l)
    BY <1>4, <1>9
  <2>2. cmp' = [cmp EXCEPT !.verdict = h, !.mem_id = IF h = "none" THEN cmp.mem_id + 1 ELSE cmp.mem_id]
    BY <1>1, <2>1 DEF Read, ReadMem, h
  <2>3. /\ cmp'.verdict = h /\ cmp'.grf_id = cmp.grf_id
        /\ cmp'.mem_id = IF h = "none" THEN cmp.mem_id + 1 ELSE cmp.mem_id
        /\ cmp' \in [grf_id : Nat, mem_id : Nat, verdict : Verdict]
    <3>1. h \in Verdict /\ (IF h = "none" THEN cmp.mem_id + 1 ELSE cmp.mem_id) \in Nat
      BY <1>6, <1>7 DEF Verdict
    <3> QED BY <1>6, <2>2, <3>1, Updates
  <2>4. LineFits(i + 1) <=> h = "none"
    BY <1>2, <1>3, <1>7, <1>9, <2>1 DEF LineFits, Fits
  <2>5. TypeInv'
    BY <1>1, <1>2, <2>3 DEF TypeInv
  <2>6. CASE h = "none"
    <3>1. Reading'
      BY <1>1, <1>2, <1>3, <1>5, <1>7, <1>9, <2>1, <2>3, <2>4, <2>6 DEF Reading
    <3> QED BY <2>3, <2>5, <2>6, <3>1 DEF CompareInv, VerdictInv
  <2>7. CASE h # "none"
    <3>1. h \in {"ended", "differs"}
      BY <1>7, <2>7
    <3>2. i' > 0 /\ (\A k \in 1 .. i' - 1 : LineFits(k)')
      BY <1>1, <1>2, <1>5 DEF Reading
    <3>3. ~(LineFits(i)')
      BY <1>1, <1>2, <1>3, <1>5, <1>7, <1>9, <2>7 DEF LineFits, Fits
    <3> QED BY <2>3, <2>5, <3>1, <3>2, <3>3 DEF CompareInv, VerdictInv
  <2> QED BY <2>6, <2>7
<1>10. CASE i + 1 \notin GrfLines /\ i + 1 \notin MemLines
  <2>1. cmp' = cmp
    BY <1>1, <1>2, <1>4, <1>10 DEF Read
  <2>2. LineFits(i + 1)
    BY <1>10 DEF LineFits
  <2>3. TypeInv'
    BY <1>1, <1>2, <2>1 DEF TypeInv
  <2>4. Reading'
    BY <1>1, <1>2, <1>3, <1>5, <1>10, <2>1, <2>2 DEF Reading
  <2> QED BY <1>1, <2>1, <2>3, <2>4 DEF CompareInv, VerdictInv
<1> QED BY <1>8, <1>9, <1>10

LEMMA EndStep == CompareInv /\ End => CompareInv'
<1> SUFFICES ASSUME CompareInv, End PROVE CompareInv'
  OBVIOUS
<1>1. /\ TypeInv /\ Reading /\ cmp.verdict = "none" /\ success
      /\ i = Len(output) /\ cmp' = AtEnd(cmp, machine)
      /\ UNCHANGED <<i, output, machine, success>>
  BY DEF CompareInv, VerdictInv, End
<1>2. /\ Len(output) \in Nat /\ Len(machine.grf_log) \in Nat /\ Len(machine.mem_log) \in Nat
      /\ GrfLines \in SUBSET (1 .. Len(output)) /\ MemLines \in SUBSET (1 .. Len(output))
  BY <1>1, Positions
<1>3. cmp.grf_id = Cardinality(GrfLines) /\ cmp.mem_id = Cardinality(MemLines)
  BY <1>1, <1>2, RankAll DEF Reading
<1>4. /\ cmp.grf_id \in Nat /\ cmp.mem_id \in Nat
      /\ cmp.grf_id <= Len(machine.grf_log) /\ cmp.mem_id <= Len(machine.mem_log)
      /\ \A k \in 1 .. Len(output) : LineFits(k)
  BY <1>1 DEF Reading, TypeInv
<1> DEFINE v == IF cmp.grf_id < Len(machine.grf_log) THEN "few_grf"
                ELSE IF cmp.mem_id < Len(machine.mem_log) THEN "few_mem" ELSE "pass"
<1>5. cmp' = [cmp EXCEPT !.verdict = v]
  BY <1>1 DEF AtEnd
<1>6. /\ cmp'.verdict = v /\ v \in {"few_grf", "few_mem", "pass"}
      /\ cmp' \in [grf_id : Nat, mem_id : Nat, verdict : Verdict]
  BY <1>1, <1>5 DEF TypeInv, Verdict
<1>7. TypeInv'
  BY <1>1, <1>6 DEF TypeInv
<1>8. v = "pass" => SameWrites
  BY <1>1, <1>2, <1>3, <1>4 DEF SameWrites
<1>9. v # "pass" => Missing
  BY <1>2, <1>3, <1>4 DEF Missing
<1>10. /\ (SameWrites' <=> SameWrites) /\ (Missing' <=> Missing)
       /\ \A k \in 1 .. Len(output') : LineFits(k)'
  BY <1>1, <1>4, Unchanging
<1> QED BY <1>6, <1>7, <1>8, <1>9, <1>10 DEF CompareInv, VerdictInv
-----------------------------------------------------------------------------
LEMMA CompareInit == Init => CompareInv
<1> SUFFICES ASSUME Init PROVE CompareInv
  OBVIOUS
<1>1. output \in Seq(Lines)
  BY DEF Init
<1>2. TypeInv
  BY <1>1, LogsAssumption DEF Init, TypeInv, Start, Verdict
<1>3. Rank(GrfLines, 0) = 0 /\ Rank(MemLines, 0) = 0
  BY <1>2, Positions, RankZero
<1>4. Reading
  BY <1>2, <1>3, Positions DEF Init, Reading, Start
<1> QED BY <1>2, <1>4 DEF CompareInv, VerdictInv, Init, Start

LEMMA CompareStep == CompareInv /\ [Next]_vars => CompareInv'
<1> SUFFICES ASSUME CompareInv, [Next]_vars PROVE CompareInv'
  OBVIOUS
<1>1. CASE UNCHANGED vars
  <2>1. UNCHANGED <<output, machine, success>> /\ i' = i /\ cmp' = cmp
    BY <1>1 DEF vars
  <2> QED BY <2>1, Unchanging DEF CompareInv, TypeInv, VerdictInv, Reading
<1>2. CASE CheckStatus
  <2>1. /\ cmp'.verdict = "failed" /\ ~success'
        /\ cmp' \in [grf_id : Nat, mem_id : Nat, verdict : Verdict]
    BY <1>2 DEF CheckStatus, CompareInv, TypeInv, Verdict
  <2> QED BY <1>2, <2>1 DEF CheckStatus, CompareInv, TypeInv, VerdictInv
<1> QED BY <1>1, <1>2, LineStep, EndStep DEF Next

LEMMA Invariant == Spec => []CompareInv
<1> QED BY CompareInit, CompareStep, PTL DEF Spec

\* A test succeeds exactly if the subject exited well and wrote what the emulator wrote
\* (main.rs:224-276), whatever else it printed.
THEOREM ComparatorExact == Spec => []Exact
<1>1. CompareInv => Exact
  <2> SUFFICES ASSUME CompareInv, cmp.verdict # "none" PROVE cmp.verdict = "pass" <=> SameWrites
    BY DEF Exact
  <2>1. cmp.verdict \in Verdict /\ i \in 0 .. Len(output) /\ Len(output) \in Nat
    BY DEF CompareInv, TypeInv
  <2>2. cmp.verdict \in {"differs", "ended"} => ~SameWrites
    BY <2>1 DEF CompareInv, VerdictInv, SameWrites
  <2>3. cmp.verdict \in {"few_grf", "few_mem"} => ~SameWrites
    BY DEF CompareInv, VerdictInv, SameWrites, Missing
  <2>4. cmp.verdict = "failed" => ~SameWrites
    BY DEF CompareInv, VerdictInv, SameWrites
  <2> QED BY <2>1, <2>2, <2>3, <2>4 DEF CompareInv, VerdictInv, Verdict
<1> QED BY Invariant, <1>1, PTL

\* The line a failed test reports is the first wrong one, and no write is reported missing
\* while there is a wrong one (main.rs:233-276).
THEOREM ComparatorBlamesFirst == Spec => []BlamesFirst
<1>1. CompareInv => BlamesFirst
  BY DEF CompareInv, VerdictInv, BlamesFirst
<1> QED BY Invariant, <1>1, PTL
=============================================================================
