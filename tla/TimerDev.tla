------------------------------ MODULE TimerDev ------------------------------
(***************************************************************************)
(* TIMER1 as a device: the simulated steps tick it and the firmware writes *)
(* its registers in any order.  It implements PeriodicTimer.               *)
(***************************************************************************)
EXTENDS Timer

VARIABLES tmr,
          beat   \* a history variable: changes when timer_tick is called

timervars == <<tmr, beat>>

TimerInit == tmr = TimerReset /\ beat = FALSE

Tick == tmr' = TimerTick(tmr) /\ beat' = ~beat

WriteReg ==
    /\ \E reg \in TimerRegs, val \in TimerWord : tmr' = TimerWrite(tmr, reg, val)
    /\ UNCHANGED beat

ClearIrq == tmr' = TimerClearIrq(tmr) /\ UNCHANGED beat

TimerNext == Tick \/ WriteReg \/ ClearIrq

\* The main loop keeps stepping; the firmware owes nothing.
TimerFairness == WF_tmr(Tick)

----------------------------------------------------------------------------
\* Steps until the match: the decrements still needed, each PrescalerReload
\* steps long, the first one already begun.
StepsLeft ==
    PrescalerReload * ((tmr.cnt - tmr.match1 - 1) % WordSize) + tmr.prescaler

StepsPerPeriod ==
    PrescalerReload * ((tmr.reload - tmr.match1 - 1) % WordSize) + PrescalerReload

Promise == INSTANCE PeriodicTimer WITH on <- tmr.enabled, left <- StepsLeft,
                                       period <- StepsPerPeriod, pending <- tmr.pending,
                                       beat <- beat

(***************************************************************************)
(* The down counter with its prescaler, wrap-around and reload is a timer  *)
(* of exact period: no register value makes an interval longer or shorter  *)
(* than the distance from the counter to the match value modulo 2^32, and  *)
(* every call of timer_tick brings a running timer one step nearer.        *)
(***************************************************************************)
ImplementsPeriodicTimer == Promise!Spec

(***************************************************************************)
(* A running timer that is left alone always raises its interrupt, also    *)
(* when the counter starts below the match value and has to wrap through   *)
(* zero (or the firmware reprograms or stops it for ever).                 *)
(***************************************************************************)
EventuallyFires ==
    (<>[][Tick]_tmr) => ((tmr.enabled /\ ~tmr.pending) ~> (tmr.pending \/ ~tmr.enabled))
=============================================================================
