---------------------------- MODULE MCLogCompare ----------------------------
(***************************************************************************)
(* Outputs of up to four lines drawn from nine, against logs of up to two   *)
(* register and two memory writes.  The lines include a write to $0, one    *)
(* with an unknown digit, one with text before it, one with text behind it  *)
(* and one to a register whose number is no byte.                           *)
(***************************************************************************)
EXTENDS LogCompare

Grf(pc, r) == <<pc, r, 7>>
Mem(pc, a) == <<pc, a, 7>>
MCLines == { Line("$", Grf(4, 1)), Line("$", Grf(8, 2)), Line("$", Grf(4, 0)), Line("$", Grf(4, 256)),
             Line("*", Mem(4, 0)), Line("*", Mem(8, 1)), Line("$", <<4, 1, Unknown>>),
             [Line("$", Grf(4, 1)) EXCEPT !.lead = "other"], [Line("*", Mem(4, 0)) EXCEPT !.tail = "other"] }

SeqOf(E) == {<<>>} \cup {<<e>> : e \in E} \cup (E \X E)
MCLogs == [grf_log : SeqOf({Grf(4, 1), Grf(8, 2)}), mem_log : {<<>>, <<Mem(4, 0)>>, <<Mem(4, 0), Mem(8, 1)>>}]
=============================================================================
