----------------------------- MODULE MCMachine -----------------------------
(***************************************************************************)
(* Parts of the simulated machine under every sequence of accesses of a     *)
(* firmware, one part per behaviour: TIMER1 ("timer"), the address space    *)
(* with its remap bit ("memory"), the GPIO ("gpio"), the I2C controller and *)
(* its driver ("i2c") and the tracer of the firmware's operating system     *)
(* ("os").  What is not chosen stays in its initial state.                  *)
(***************************************************************************)
EXTENDS TimerDev, MemoryMap, Gpio, I2cBus, OsCalls

VARIABLE part

machinevars == <<part, tmr, beat, mm, gpio, i2c, osvars>>

\* A flash with a byte the file did not have.
MCMemFiles == {[q \in 0..(MemPage - 1) |-> IF q = MemPage - 1 THEN MemUndef ELSE 1]}

Init ==
    /\ part \in {"timer", "memory", "gpio", "i2c", "os"}
    /\ TimerInit /\ MemInit /\ GpioInit /\ I2cInit /\ OsInit

Next ==
    /\ UNCHANGED part
    /\ \/ part = "timer" /\ TimerNext /\ UNCHANGED <<mm, gpio, i2c, osvars>>
       \/ part = "memory" /\ MemNext /\ UNCHANGED <<timervars, gpio, i2c, osvars>>
       \/ part = "gpio" /\ GpioNext /\ UNCHANGED <<timervars, mm, i2c, osvars>>
       \/ part = "i2c" /\ I2cNext /\ UNCHANGED <<timervars, mm, gpio, osvars>>
       \/ part = "os" /\ OsNext /\ UNCHANGED <<timervars, mm, gpio, i2c>>

\* The timer and the driver are fair in the behaviours that are about them.
Spec ==
    /\ Init /\ [][Next]_machinevars
    /\ part = "timer" => TimerFairness
    /\ part = "i2c" => I2cFairness
=============================================================================
