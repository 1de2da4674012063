------------------------------- MODULE Timer -------------------------------
(***************************************************************************)
(* TIMER1 of the simulated SoC (simulate/timer.c) as pure operators on its  *)
(* register file.  Simulator uses them for every simulated step; TimerDev  *)
(* is the device on its own.                                               *)
(*                                                                         *)
(* The registers are WordSize-valued counters (WordSize = 2^32 in the      *)
(* code), so "cnt_reg--" below zero wraps.  Field pending is               *)
(* is_irq_pending; the two interrupt registers keep only what is read      *)
(* back: int_mask.                                                         *)
(***************************************************************************)
EXTENDS Integers

CONSTANTS WordSize,         \* number of values of a register: 2^32
          PrescalerReload   \* simulated steps per counter decrement: 2

ASSUME TimerAssumption ==
    /\ WordSize \in Nat \ {0, 1}
    /\ PrescalerReload \in Nat \ {0}

TimerWord == 0 .. WordSize - 1

TimerRegs == {"CNT", "RELOAD", "MATCH1", "CTRL", "INT_STATE", "INT_MASK"}

TimerState ==
    [cnt : TimerWord, reload : TimerWord, match1 : TimerWord, enabled : BOOLEAN,
     mask : TimerWord, prescaler : 1 .. PrescalerReload, pending : BOOLEAN]

\* The static initial values of timer.c.
TimerReset ==
    [cnt |-> 0, reload |-> 0, match1 |-> 0, enabled |-> FALSE, mask |-> 0,
     prescaler |-> PrescalerReload, pending |-> FALSE]

\* ctrl_reg & T1_ENABLE: bit 0 of the value the firmware wrote.
EnableBit(val) == val % 2 = 1

\* timer_write: only a zero written to INT_STATE acknowledges the interrupt.
TimerWrite(t, reg, val) ==
    CASE reg = "CNT"       -> [t EXCEPT !.cnt = val]
      [] reg = "RELOAD"    -> [t EXCEPT !.reload = val]
      [] reg = "MATCH1"    -> [t EXCEPT !.match1 = val]
      [] reg = "CTRL"      -> [t EXCEPT !.enabled = EnableBit(val)]
      [] reg = "INT_STATE" -> [t EXCEPT !.pending = @ /\ val # 0]
      [] reg = "INT_MASK"  -> [t EXCEPT !.mask = val]
      [] OTHER             -> t

\* timer_clear_irq, called by the interrupt controller.
TimerClearIrq(t) == [t EXCEPT !.pending = FALSE]

\* Variants of Decremented: the counter is not a 32-bit register, or stops at zero.
DecrementedWide(t) == t.cnt - 1
DecrementedSaturating(t) == IF t.cnt = 0 THEN 0 ELSE t.cnt - 1

Decremented(t) == (t.cnt - 1) % WordSize

\* The tick of this step decrements the counter onto the match value.
MatchDue(t) == t.enabled /\ t.prescaler = 1 /\ Decremented(t) = t.match1

\* Variant of TimerTick: the interval stands still while the request is up.
TimerTickWaits(t) ==
    IF ~t.enabled \/ t.pending THEN t
    ELSE IF t.prescaler > 1 THEN [t EXCEPT !.prescaler = @ - 1]
    ELSE IF MatchDue(t)  THEN [t EXCEPT !.prescaler = PrescalerReload,
                                        !.cnt = t.reload, !.pending = TRUE]
    ELSE [t EXCEPT !.prescaler = PrescalerReload, !.cnt = Decremented(t)]

\* timer_tick: called first in every simulated step, whatever comes of the step.
TimerTick(t) ==
    IF ~t.enabled        THEN t
    ELSE IF t.prescaler > 1 THEN [t EXCEPT !.prescaler = @ - 1]
    ELSE IF MatchDue(t)  THEN [t EXCEPT !.prescaler = PrescalerReload,
                                        !.cnt = t.reload, !.pending = TRUE]
    ELSE [t EXCEPT !.prescaler = PrescalerReload, !.cnt = Decremented(t)]
=============================================================================
