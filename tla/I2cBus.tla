------------------------------- MODULE I2cBus -------------------------------
(***************************************************************************)
(* The I2C controller and the HDMI receiver behind it (simulate/i2c.c) with *)
(* the driver of the connector2 firmware (custom_firmware/connector2/       *)
(* i2c_ite.c).  A step is one register access of the driver; the user may   *)
(* give the command hdmi between any two of them.  Register numbers and     *)
(* values are those of the code, in decimal in the tables.                  *)
(***************************************************************************)
EXTENDS Integers, Sequences

CONSTANTS I2cWritable,  \* receiver registers the firmware writes and reads
          I2cValues,    \* values it writes
          I2cUserSteps  \* arguments the user gives to hdmi

VARIABLE i2c
\* i2c.todo     the accesses the current driver call still makes
\* i2c.op       that call: its kind, register and value;  i2c.got  what it read
\* i2c.state, i2c.tx, i2c.rx, i2c.status, i2c.addr, i2c.regs: the variables of
\* i2c.c (it_reg_addr, it_regs)
\* i2c.before, i2c.touched: it_regs when the call began, and the registers hdmi
\* has set since (for the properties)

\* The registers of the receiver that code or command of this model touches.
I2cRegs == I2cWritable \cup {16, 19, 20, 21, 22, 25, 60}

\* init_i2c_it, as far as I2cRegs goes.
I2cInitRegs == [r \in I2cRegs |-> CASE r = 22 -> 63 [] r = 25 -> 48 [] OTHER -> 0]

I2cInit ==
    i2c = [todo |-> <<>>, op |-> [kind |-> "none", reg |-> 0, val |-> 0],
           got |-> 0, state |-> "IDLE", tx |-> 0, rx |-> 0, status |-> 0, addr |-> 0,
           regs |-> I2cInitRegs, before |-> I2cInitRegs, touched |-> {}]

I2cIdle == i2c.todo = <<>>

----------------------------------------------------------------------------
(* The driver: what each call does to the registers of the controller.     *)

\* START, the address and one byte, each followed by a busy wait.
I2cSelect(reg) == <<<<"tx", 144>>, <<"ctrl", 144>>, <<"wait", 65>>,
                    <<"tx", reg>>, <<"ctrl", 16>>, <<"wait", 65>>>>

ite_write_register(reg, val) ==
    I2cSelect(reg) \o <<<<"tx", val>>, <<"ctrl", 16>>, <<"wait", 65>>, <<"ctrl", 64>>>>

ite_read_register(reg) ==
    I2cSelect(reg) \o <<<<"tx", 145>>, <<"ctrl", 144>>, <<"wait", 65>>,
                        <<"ctrl", 40>>, <<"wait", 193>>, <<"rx", 0>>, <<"ctrl", 64>>>>

I2cCall ==
    /\ I2cIdle
    /\ \E reg \in I2cWritable :
          \/ \E val \in I2cValues :
                i2c' = [i2c EXCEPT !.todo = ite_write_register(reg, val),
                                   !.op = [kind |-> "write", reg |-> reg, val |-> val],
                                   !.before = i2c.regs, !.touched = {}]
          \/ i2c' = [i2c EXCEPT !.todo = ite_read_register(reg),
                                !.op = [kind |-> "read", reg |-> reg, val |-> 0],
                                !.before = i2c.regs, !.touched = {}]

----------------------------------------------------------------------------
(* The controller: i2c_write by the register written, i2c_read.            *)

\* Variant of I2cSendByte: the register address may be sent twice.
I2cSendByteStuck(c) ==
    IF c.state = "WRITE1" THEN [c EXCEPT !.status = 65, !.addr = c.tx] ELSE c

\* CTRL = 0x10: the first byte is the register, the next ones its value.
\* Writing 0x31 to 0x19 clears the interrupt registers.
I2cSendByte(c) ==
    CASE c.state = "WRITE1" -> [c EXCEPT !.status = 65, !.addr = c.tx, !.state = "WRITE2"]
      [] c.state = "WRITE2" ->
            [c EXCEPT !.regs = [r \in I2cRegs |->
                IF r \in {19, 20, 21} /\ c.addr = 25 /\ c.tx = 49 THEN 0
                ELSE IF r = c.addr THEN c.tx ELSE c.regs[r]]]
      [] OTHER -> c

\* CTRL = 0x28: the answer is latched, STATUS is left alone.
I2cReadByte(c) == IF c.state = "READ" THEN [c EXCEPT !.rx = c.regs[c.addr]] ELSE c

I2cStop(c) == [c EXCEPT !.status = 129, !.state = "IDLE"]

\* Variant of I2cStart: a start does not change STATUS.
I2cStartQuiet(c) == [c EXCEPT !.state = IF c.tx % 2 = 1 THEN "READ" ELSE "WRITE1"]

I2cStart(c) == [c EXCEPT !.status = 65, !.state = IF c.tx % 2 = 1 THEN "READ" ELSE "WRITE1"]

I2cControl(c, val) ==
    CASE val = 16 -> I2cSendByte(c)
      [] val = 40 -> I2cReadByte(c)
      [] val = 64 -> I2cStop(c)
      [] val = 144 -> I2cStart(c)

\* One access of the driver; a wait is passed when STATUS has the value.
I2cAccess ==
    /\ ~I2cIdle
    /\ LET what == Head(i2c.todo)[1]
           val  == Head(i2c.todo)[2]
           next == [i2c EXCEPT !.todo = Tail(@)]
       IN \/ what = "tx" /\ i2c' = [next EXCEPT !.tx = val]
          \/ what = "ctrl" /\ i2c' = I2cControl(next, val)
          \/ what = "wait" /\ i2c.status = val /\ i2c' = next
          \/ what = "rx" /\ i2c' = [next EXCEPT !.got = i2c.rx]

\* hdmi: the registers each step sets.
I2cUserSets(step) ==
    CASE step = 1 -> [r \in {16, 19, 25} |-> IF r = 16 THEN 170 ELSE IF r = 19 THEN 12 ELSE 48]
      [] step = 2 -> [r \in {16, 19} |-> IF r = 16 THEN 174 ELSE 4]
      [] step = 3 -> [r \in {16, 19, 22, 60} |->
                        CASE r = 16 -> 175 [] r = 19 -> 33 [] r = 22 -> 63 [] OTHER -> 0]
      [] step = 99 -> [r \in {16, 19, 22, 25, 60} |->
                        CASE r = 16 -> 175 [] r = 19 -> 4 [] r = 22 -> 15 [] r = 25 -> 48
                          [] OTHER -> 0]
      [] OTHER -> [r \in {} |-> 0]

hdmi ==
    \E step \in I2cUserSteps :
       LET sets == I2cUserSets(step)
       IN i2c' = [i2c EXCEPT !.regs = [r \in I2cRegs |-> IF r \in DOMAIN sets THEN sets[r] ELSE @[r]],
                             !.touched = @ \cup DOMAIN sets]

I2cNext == I2cCall \/ I2cAccess \/ hdmi

\* The firmware runs on while the simulator does.
I2cFairness == WF_i2c(I2cAccess)

----------------------------------------------------------------------------
\* A write of the driver, over ten accesses and any commands of the user in
\* between, leaves the value in the register it names and every other register
\* as it was, those the user set aside; only 0x31 in register 0x19 clears the
\* interrupt registers (simulate/i2c.c:130-140).
I2cWriteArrives ==
    I2cIdle /\ i2c.op.kind = "write" =>
        \A r \in I2cRegs \ i2c.touched :
            i2c.regs[r] = IF r \in {19, 20, 21} /\ i2c.op.reg = 25 /\ i2c.op.val = 49 THEN 0
                          ELSE IF r = i2c.op.reg THEN i2c.op.val ELSE i2c.before[r]

\* A write never hangs in one of its three busy waits.
I2cWriteEnds == (i2c.op.kind = "write" /\ ~I2cIdle) ~> I2cIdle
=============================================================================
