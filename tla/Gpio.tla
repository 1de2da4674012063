-------------------------------- MODULE Gpio --------------------------------
(***************************************************************************)
(* The GPIO of the simulated device (simulate/gpio.c) with the driver of    *)
(* the custom firmware (custom_firmware/connector2/gpio.c) and the LED view.*)
(* A register is the set of its pins that are 1.                            *)
(***************************************************************************)
EXTENDS Integers

VARIABLE gpio
\* gpio.data, gpio.pindir: the variables of gpio.c
\* gpio.driver  only the driver of the custom firmware stored so far
\* gpio.led     what the driver last asked of the LED after gpio_init, or "none"

GpioLed == 14
GpioButton == 16
GpioPins == {13, GpioLed, GpioButton}
GpioRegs == {"OUT", "INP", "DIR", "SET", "CLR"}

GpioInit == gpio = [data |-> {GpioButton}, pindir |-> {}, driver |-> TRUE, led |-> "none"]

\* gpio_write, of the pins in set val
GpioWrite(g, reg, val) ==
    CASE reg = "OUT" -> [g EXCEPT !.data = val]
      [] reg = "DIR" -> [g EXCEPT !.pindir = val]
      [] reg = "SET" -> [g EXCEPT !.data = @ \cup val]
      [] reg = "CLR" -> [g EXCEPT !.data = @ \ val]
      [] OTHER -> g

\* Variant of GpioRead: the set and clear registers read as the pins.
GpioReadPins(g, reg) == IF reg = "DIR" THEN g.pindir ELSE g.data

\* gpio_read
GpioRead(g, reg) ==
    CASE reg \in {"OUT", "INP"} -> g.data
      [] reg = "DIR" -> g.pindir
      [] OTHER -> {}

\* Any store of the original firmware.
GpioStore ==
    \E reg \in GpioRegs, val \in SUBSET GpioPins :
       gpio' = [GpioWrite(gpio, reg, val) EXCEPT !.driver = FALSE, !.led = "none"]

\* The functions of the driver are a load and a store: REG |= 1 << PIN.
GpioOr(g, reg, pin) == GpioWrite(g, reg, GpioRead(g, reg) \cup {pin})

gpio_init == gpio' = GpioOr(gpio, "DIR", GpioLed)

led_on_off ==
    \E onoff \in BOOLEAN :
       gpio' = [GpioOr(gpio, IF onoff THEN "CLR" ELSE "SET", GpioLed)
                   EXCEPT !.led = IF onoff THEN "on" ELSE "off"]

is_reset_button_pressed == GpioButton \notin GpioRead(gpio, "INP")

get_LED_state == GpioLed \in gpio.pindir /\ GpioLed \notin gpio.data

GpioNext == GpioStore \/ gpio_init \/ led_on_off

----------------------------------------------------------------------------
\* The pins share one variable with the outputs (gpio.c:33), and the driver
\* loads a set or clear register before it stores it. Firmware that only uses
\* the driver sees the LED it asked for once the pin is an output, and never the
\* reset button pressed: the firmware's main would then erase its own flash
\* sector.
GpioDriverIsRight ==
    /\ gpio.driver => ~is_reset_button_pressed
    /\ (gpio.led # "none" /\ GpioLed \in gpio.pindir) => (get_LED_state <=> gpio.led = "on")
=============================================================================
