--------------------------------- MODULE TC ---------------------------------
(***************************************************************************)
(* The timer/counter of P7/TC.v as operators on a record: a down counter    *)
(* behind three words of device memory (ctrl, preset, count) and a          *)
(* four-state FSM that raises an interrupt line when the count runs out.    *)
(***************************************************************************)
EXTENDS Naturals

\* ctrl[0] enables the counter, ctrl[2:1] is the mode, ctrl[3] lets the IRQ out.
CtrlOf(v)  == [en |-> v % 2, mode |-> (v \div 2) % 4, im |-> (v \div 8) % 2]
CtrlWord(c) == c.en + 2 * c.mode + 8 * c.im

TimerReset == [state |-> "IDLE", ctrl |-> CtrlOf(0), preset |-> 0, count |-> 0, irq |-> FALSE]

\* The line the CPU sees: the latch _IRQ gated by ctrl[3].
IRQ(t) == t.ctrl.im = 1 /\ t.irq

\* Dout: the register selected by the address; there is none at 3.
ReadReg(t, r) == CASE r = 0 -> CtrlWord(t.ctrl) [] r = 1 -> t.preset [] OTHER -> t.count

\* Fault: a preset of 0 counts forever.
TickFromOne(t) ==
  CASE t.state = "IDLE" ->
         IF t.ctrl.en = 1 THEN [t EXCEPT !.state = "LOAD", !.irq = FALSE] ELSE t
    [] t.state = "LOAD" -> [t EXCEPT !.count = t.preset, !.state = "CNT"]
    [] t.state = "CNT" ->
         IF t.ctrl.en = 0 THEN [t EXCEPT !.state = "IDLE"]
         ELSE IF t.count # 1 THEN [t EXCEPT !.count = IF @ = 0 THEN 0 ELSE @ - 1]
         ELSE [t EXCEPT !.count = 0, !.state = "INT", !.irq = TRUE]
    [] OTHER ->
         IF t.ctrl.mode = 0 THEN [t EXCEPT !.ctrl.en = 0, !.state = "IDLE"]
         ELSE [t EXCEPT !.irq = FALSE, !.state = "IDLE"]

\* One clock of the FSM when no register is being written.
Tick(t) ==
  CASE t.state = "IDLE" ->
         IF t.ctrl.en = 1 THEN [t EXCEPT !.state = "LOAD", !.irq = FALSE] ELSE t
    [] t.state = "LOAD" -> [t EXCEPT !.count = t.preset, !.state = "CNT"]
    [] t.state = "CNT" ->
         IF t.ctrl.en = 0 THEN [t EXCEPT !.state = "IDLE"]
         ELSE IF t.count > 1 THEN [t EXCEPT !.count = @ - 1]
         ELSE [t EXCEPT !.count = 0, !.state = "INT", !.irq = TRUE]
    [] OTHER ->
         IF t.ctrl.mode = 0 THEN [t EXCEPT !.ctrl.en = 0, !.state = "IDLE"]
         ELSE [t EXCEPT !.irq = FALSE, !.state = "IDLE"]

\* One clock in which WE is high: the write takes the place of the FSM's step.
WriteReg(t, r, v) == CASE r = 0 -> [t EXCEPT !.ctrl = CtrlOf(v)]
                       [] r = 1 -> [t EXCEPT !.preset = v]
                       [] OTHER -> [t EXCEPT !.count = v]
=============================================================================
