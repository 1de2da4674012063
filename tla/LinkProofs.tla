----------------------------- MODULE LinkProofs -----------------------------
(***************************************************************************)
(* Proofs about the devices behind a bus or a link: the HDMI receiver      *)
(* behind the I2C controller, the flash behind the SSP controller, the     *)
(* real device behind the serial connector, and the host's network behind  *)
(* the pipes of the tap connector.  Each part has its inductive invariant, *)
(* one lemma for every action and the theorem they lead to.                *)
(***************************************************************************)
EXTENDS I2cBus, SspFlash, SerialLink, TapLink, FiniteSetTheorems, SequenceTheorems, TLAPS

----------------------------------------------------------------------------
(* The I2C controller                                                      *)

I2cWord == Int \cup I2cWritable \cup I2cValues

\* The access of a write when n are still to come.
I2cWriteStep(op, n, access) ==
    /\ n \in {9, 10} => access[2] = 144
    /\ n \in {1, 3, 6, 9} => access[1] = "ctrl"
    /\ n \in {2, 5, 8} => access[1] = "wait"
    /\ n \in {4, 7, 10} => access[1] = "tx"
    /\ n = 7 => access[2] = op.reg
    /\ n \in {3, 6} => access[2] = 16
    /\ n = 4 => access[2] = op.val
    /\ n = 1 => access[2] = 64

I2cType ==
    /\ i2c = [todo |-> i2c.todo, op |-> i2c.op, got |-> i2c.got, state |-> i2c.state,
              tx |-> i2c.tx, rx |-> i2c.rx, status |-> i2c.status, addr |-> i2c.addr,
              regs |-> i2c.regs, before |-> i2c.before, touched |-> i2c.touched]
    /\ i2c.op = [kind |-> i2c.op.kind, reg |-> i2c.op.reg, val |-> i2c.op.val]
    /\ i2c.todo \in Seq({"tx", "ctrl", "wait", "rx"} \X I2cWord)
    /\ \A j \in 1 .. Len(i2c.todo) :
          i2c.todo[j][1] = "ctrl" => i2c.todo[j][2] \in {16, 40, 64, 144}
    /\ i2c.regs = [r \in I2cRegs |-> i2c.regs[r]]

\* Where a write is: what the controller has heard of it so far.
I2cHeard(n) ==
    /\ n \in 0 .. 10
    /\ i2c.op.reg \in I2cRegs
    /\ \A j \in 1 .. n : I2cWriteStep(i2c.op, n - j + 1, i2c.todo[j])
    /\ n = 9 => i2c.tx = 144
    /\ n \in 6 .. 8 => i2c.state = "WRITE1"
    /\ n = 6 => i2c.tx = i2c.op.reg
    /\ n \in 3 .. 5 => i2c.state = "WRITE2" /\ i2c.addr = i2c.op.reg
    /\ n = 3 => i2c.tx = i2c.op.val
    /\ n \in 3 .. 10 => \A r \in I2cRegs \ i2c.touched : i2c.regs[r] = i2c.before[r]
    /\ n \in 0 .. 2 =>
          \A r \in I2cRegs \ i2c.touched :
             i2c.regs[r] = IF r \in {19, 20, 21} /\ i2c.op.reg = 25 /\ i2c.op.val = 49 THEN 0
                           ELSE IF r = i2c.op.reg THEN i2c.op.val ELSE i2c.before[r]

I2cInv == I2cType /\ (i2c.op.kind = "write" => I2cHeard(Len(i2c.todo)))

LEMMA I2cInitInv == I2cInit => I2cInv
BY DEF I2cInit, I2cInv, I2cType, I2cInitRegs

LEMMA Joined ==
    ASSUME NEW A, NEW s \in Seq(A), NEW t \in Seq(A)
    PROVE  /\ s \o t \in Seq(A) /\ Len(s \o t) = Len(s) + Len(t)
           /\ \A j \in 1 .. Len(s) + Len(t) :
                 \/ j \in 1 .. Len(s) /\ (s \o t)[j] = s[j]
                 \/ j - Len(s) \in 1 .. Len(t) /\ (s \o t)[j] = t[j - Len(s)]
<1>1. Len(s) \in Nat /\ Len(t) \in Nat
  OBVIOUS
<1> QED
  BY <1>1, ConcatProperties

LEMMA I2cSelects ==
    ASSUME NEW reg \in I2cWritable
    PROVE  /\ I2cSelect(reg) \in Seq({"tx", "ctrl", "wait", "rx"} \X I2cWord)
           /\ Len(I2cSelect(reg)) = 6
           /\ \A j \in 1 .. 6 :
                 /\ \A op : op.reg = reg => I2cWriteStep(op, 10 - j + 1, I2cSelect(reg)[j])
                 /\ I2cSelect(reg)[j][1] = "ctrl" => I2cSelect(reg)[j][2] \in {16, 144}
<1> DEFINE s == I2cSelect(reg)
<1>1. /\ s \in Seq({"tx", "ctrl", "wait", "rx"} \X I2cWord) /\ Len(s) = 6
      /\ s[1] = <<"tx", 144>> /\ s[2] = <<"ctrl", 144>> /\ s[3] = <<"wait", 65>>
      /\ s[4] = <<"tx", reg>> /\ s[5] = <<"ctrl", 16>> /\ s[6] = <<"wait", 65>>
  BY DEF I2cSelect, I2cWord
<1> HIDE DEF s
<1>2. ASSUME NEW j \in 1 .. 6, NEW op, op.reg = reg
      PROVE  I2cWriteStep(op, 10 - j + 1, s[j])
  <2>1. j = 1 \/ j = 2 \/ j = 3 \/ j = 4 \/ j = 5 \/ j = 6
    OBVIOUS
  <2> QED
    BY <1>1, <1>2, <2>1 DEF I2cWriteStep
<1>3. ASSUME NEW j \in 1 .. 6, s[j][1] = "ctrl"
      PROVE  s[j][2] \in {16, 144}
  <2>1. j = 1 \/ j = 2 \/ j = 3 \/ j = 4 \/ j = 5 \/ j = 6
    OBVIOUS
  <2> QED
    BY <1>1, <1>3, <2>1
<1> QED
  BY <1>1, <1>2, <1>3 DEF s

LEMMA I2cWrites ==
    ASSUME NEW reg \in I2cWritable, NEW val \in I2cValues
    PROVE  /\ ite_write_register(reg, val) \in Seq({"tx", "ctrl", "wait", "rx"} \X I2cWord)
           /\ Len(ite_write_register(reg, val)) = 10
           /\ \A op : op.reg = reg /\ op.val = val =>
                 \A j \in 1 .. 10 : I2cWriteStep(op, 10 - j + 1, ite_write_register(reg, val)[j])
<1> DEFINE A == {"tx", "ctrl", "wait", "rx"} \X I2cWord
           w == ite_write_register(reg, val)
           s == I2cSelect(reg)
           t == <<<<"tx", val>>, <<"ctrl", 16>>, <<"wait", 65>>, <<"ctrl", 64>>>>
<1>1. s \in Seq(A) /\ Len(s) = 6
  BY I2cSelects
<1>2. /\ t \in Seq(A) /\ Len(t) = 4
      /\ t[1] = <<"tx", val>> /\ t[2] = <<"ctrl", 16>> /\ t[3] = <<"wait", 65>>
      /\ t[4] = <<"ctrl", 64>>
  BY DEF I2cWord
<1>3. w = s \o t
  BY DEF ite_write_register
<1> HIDE DEF s, t, w, A
<1>4. /\ w \in Seq(A) /\ Len(w) = 10
      /\ \A j \in 1 .. 10 : \/ j \in 1 .. 6 /\ w[j] = s[j]
                            \/ j - 6 \in 1 .. 4 /\ w[j] = t[j - 6]
  <2>1. /\ s \o t \in Seq(A) /\ Len(s \o t) = Len(s) + Len(t)
        /\ \A j \in 1 .. Len(s) + Len(t) :
              \/ j \in 1 .. Len(s) /\ (s \o t)[j] = s[j]
              \/ j - Len(s) \in 1 .. Len(t) /\ (s \o t)[j] = t[j - Len(s)]
    BY <1>1, <1>2, Joined
  <2>2. Len(s) = 6 /\ Len(t) = 4 /\ Len(s) + Len(t) = 10
    BY <1>1, <1>2
  <2>3. w \in Seq(A) /\ Len(w) = 10
    BY <1>3, <2>1, <2>2
  <2>4. \A j \in 1 .. 10 :
           \/ j \in 1 .. 6 /\ w[j] = s[j]
           \/ j - 6 \in 1 .. 4 /\ w[j] = t[j - 6]
    BY <1>3, <2>1, <2>2
  <2> QED
    BY <2>3, <2>4
<1>5. ASSUME NEW op, op.reg = reg, op.val = val, NEW j \in 1 .. 10
      PROVE  I2cWriteStep(op, 10 - j + 1, w[j])
  <2>1. CASE j \in 1 .. 6 /\ w[j] = s[j]
    BY <1>5, <2>1, I2cSelects DEF s
  <2>2. CASE j - 6 \in 1 .. 4 /\ w[j] = t[j - 6]
    <3>1. j = 7 \/ j = 8 \/ j = 9 \/ j = 10
      BY <2>2
    <3> QED
      BY <1>2, <1>5, <2>2, <3>1 DEF I2cWriteStep
  <2> QED
    BY <1>4, <2>1, <2>2
<1> QED
  BY <1>4, <1>5 DEF w, A

LEMMA I2cReads ==
    ASSUME NEW reg \in I2cWritable
    PROVE  /\ ite_read_register(reg) \in Seq({"tx", "ctrl", "wait", "rx"} \X I2cWord)
           /\ \A j \in 1 .. Len(ite_read_register(reg)) :
                 ite_read_register(reg)[j][1] = "ctrl"
                    => ite_read_register(reg)[j][2] \in {16, 40, 64, 144}
<1> DEFINE A == {"tx", "ctrl", "wait", "rx"} \X I2cWord
           r == ite_read_register(reg)
           s == I2cSelect(reg)
           u == <<<<"tx", 145>>, <<"ctrl", 144>>, <<"wait", 65>>, <<"ctrl", 40>>,
                  <<"wait", 193>>, <<"rx", 0>>, <<"ctrl", 64>>>>
<1>1. s \in Seq(A) /\ Len(s) = 6
  BY I2cSelects
<1>2. u \in Seq(A) /\ Len(u) = 7
  BY DEF I2cWord
<1>3. \A j \in 1 .. 7 : u[j][1] = "ctrl" => u[j][2] \in {40, 64, 144}
  OBVIOUS
<1>4. r = s \o u
  BY DEF ite_read_register
<1> HIDE DEF s, u, r, A
<1>5. /\ r \in Seq(A) /\ Len(r) = 13
      /\ \A j \in 1 .. 13 : \/ j \in 1 .. 6 /\ r[j] = s[j]
                            \/ j - 6 \in 1 .. 7 /\ r[j] = u[j - 6]
  <2>1. /\ s \o u \in Seq(A) /\ Len(s \o u) = Len(s) + Len(u)
        /\ \A j \in 1 .. Len(s) + Len(u) :
              \/ j \in 1 .. Len(s) /\ (s \o u)[j] = s[j]
              \/ j - Len(s) \in 1 .. Len(u) /\ (s \o u)[j] = u[j - Len(s)]
    BY <1>1, <1>2, Joined
  <2>2. Len(s) + Len(u) = 13
    BY <1>1, <1>2
  <2>3. r \in Seq(A) /\ Len(r) = 13
    BY <1>4, <2>1, <2>2
  <2>4. \A j \in 1 .. 13 :
           \/ j \in 1 .. 6 /\ r[j] = s[j]
           \/ j - 6 \in 1 .. 7 /\ r[j] = u[j - 6]
    BY <1>1, <1>2, <1>4, <2>1, <2>2
  <2> QED
    BY <2>3, <2>4
<1>6. ASSUME NEW j \in 1 .. 13, r[j][1] = "ctrl"
      PROVE  r[j][2] \in {16, 40, 64, 144}
  <2>1. CASE j \in 1 .. 6 /\ r[j] = s[j]
    BY <1>6, <2>1, I2cSelects DEF s
  <2>2. CASE j - 6 \in 1 .. 7 /\ r[j] = u[j - 6]
    BY <1>3, <1>6, <2>2
  <2> QED
    BY <1>5, <2>1, <2>2
<1> QED
  BY <1>5, <1>6 DEF r, A

LEMMA I2cCallInv == I2cInv /\ I2cCall => I2cInv'
<1> SUFFICES ASSUME I2cInv, I2cCall
             PROVE  I2cInv'
  OBVIOUS
<1>1. PICK reg \in I2cWritable :
          \/ \E val \in I2cValues :
                i2c' = [i2c EXCEPT !.todo = ite_write_register(reg, val),
                                   !.op = [kind |-> "write", reg |-> reg, val |-> val],
                                   !.before = i2c.regs, !.touched = {}]
          \/ i2c' = [i2c EXCEPT !.todo = ite_read_register(reg),
                                !.op = [kind |-> "read", reg |-> reg, val |-> 0],
                                !.before = i2c.regs, !.touched = {}]
  BY DEF I2cCall
<1>2. reg \in I2cRegs
  BY DEF I2cRegs
<1>3. ASSUME NEW val \in I2cValues,
             i2c' = [i2c EXCEPT !.todo = ite_write_register(reg, val),
                                !.op = [kind |-> "write", reg |-> reg, val |-> val],
                                !.before = i2c.regs, !.touched = {}]
      PROVE  I2cInv'
  <2> DEFINE w == ite_write_register(reg, val)
             op == [kind |-> "write", reg |-> reg, val |-> val]
  <2>1. /\ w \in Seq({"tx", "ctrl", "wait", "rx"} \X I2cWord) /\ Len(w) = 10
        /\ \A j \in 1 .. 10 : I2cWriteStep(op, 10 - j + 1, w[j])
    BY I2cWrites
  <2> HIDE DEF w
  <2>2. \A j \in 1 .. 10 : w[j][1] = "ctrl" => w[j][2] \in {16, 40, 64, 144}
    BY <2>1 DEF I2cWriteStep
  <2>3. /\ i2c'.todo = w /\ i2c'.op = op /\ i2c'.before = i2c.regs /\ i2c'.touched = {}
        /\ i2c'.regs = i2c.regs
    BY <1>3 DEF I2cInv, I2cType, w
  <2>4. I2cType'
    BY <1>3, <2>1, <2>2, <2>3 DEF I2cInv, I2cType
  <2>5. I2cHeard(10)'
    BY <1>2, <2>1, <2>3 DEF I2cHeard
  <2> QED
    BY <2>1, <2>3, <2>4, <2>5 DEF I2cInv
<1>4. ASSUME i2c' = [i2c EXCEPT !.todo = ite_read_register(reg),
                                !.op = [kind |-> "read", reg |-> reg, val |-> 0],
                                !.before = i2c.regs, !.touched = {}]
      PROVE  I2cInv'
  <2> DEFINE w == ite_read_register(reg)
  <2>1. /\ w \in Seq({"tx", "ctrl", "wait", "rx"} \X I2cWord)
        /\ \A j \in 1 .. Len(w) : w[j][1] = "ctrl" => w[j][2] \in {16, 40, 64, 144}
    BY I2cReads
  <2> HIDE DEF w
  <2>2. /\ i2c'.todo = w /\ i2c'.op = [kind |-> "read", reg |-> reg, val |-> 0]
        /\ i2c'.regs = i2c.regs
    BY <1>4 DEF I2cInv, I2cType, w
  <2>3. I2cType'
    BY <1>4, <2>1, <2>2 DEF I2cInv, I2cType, w
  <2> QED
    BY <2>2, <2>3 DEF I2cInv
<1> QED
  BY <1>1, <1>3, <1>4

\* hdmi sets registers of the receiver, and says which.
LEMMA HdmiInv == I2cInv /\ hdmi => I2cInv'
<1> SUFFICES ASSUME I2cInv, hdmi
             PROVE  I2cInv'
  OBVIOUS
<1>1. PICK step :
          i2c' = [i2c EXCEPT !.regs = [r \in I2cRegs |-> IF r \in DOMAIN I2cUserSets(step)
                                                         THEN I2cUserSets(step)[r]
                                                         ELSE i2c.regs[r]],
                             !.touched = i2c.touched \cup DOMAIN I2cUserSets(step)]
  BY DEF hdmi, I2cInv, I2cType
<1> DEFINE u == I2cUserSets(step)
<1>2. DOMAIN u \subseteq I2cRegs
  BY DEF I2cUserSets, I2cRegs
<1> HIDE DEF u
<1>3. /\ i2c'.regs = [r \in I2cRegs |-> IF r \in DOMAIN u THEN u[r] ELSE i2c.regs[r]]
      /\ i2c'.touched = i2c.touched \cup DOMAIN u
  BY <1>1, <1>2 DEF I2cInv, I2cType, u
<1>4. I2cType' /\ i2c'.op = i2c.op /\ i2c'.todo = i2c.todo
  BY <1>1, <1>3 DEF I2cInv, I2cType
<1>5. \A r \in I2cRegs \ i2c'.touched : r \in I2cRegs \ i2c.touched /\ i2c'.regs[r] = i2c.regs[r]
  BY <1>3
<1>6. \A n : I2cHeard(n) => I2cHeard(n)'
  BY <1>1, <1>4, <1>5 DEF I2cHeard, I2cInv, I2cType
<1> QED
  BY <1>4, <1>6 DEF I2cInv

LEMMA I2cAccessInv == I2cInv /\ I2cAccess => I2cInv'
<1> SUFFICES ASSUME I2cInv, I2cAccess
             PROVE  I2cInv'
  OBVIOUS
<1> DEFINE todo == i2c.todo
           what == Head(todo)[1]
           val == Head(todo)[2]
           tail == Tail(todo)
           next == [i2c EXCEPT !.todo = tail]
           A == {"tx", "ctrl", "wait", "rx"} \X I2cWord
<1>0. PICK n : n = Len(todo)
  OBVIOUS
<1>1. /\ I2cType /\ todo \in Seq(A) /\ todo # <<>>
      /\ \A j \in 1 .. Len(todo) : todo[j][1] = "ctrl" => todo[j][2] \in {16, 40, 64, 144}
  BY DEF I2cInv, I2cType, I2cAccess, I2cIdle
<1>2. \/ what = "tx" /\ i2c' = [next EXCEPT !.tx = val]
      \/ what = "ctrl" /\ i2c' = I2cControl(next, val)
      \/ what = "wait" /\ i2c.status = val /\ i2c' = next
      \/ what = "rx" /\ i2c' = [next EXCEPT !.got = i2c.rx]
  BY DEF I2cAccess, I2cInv, I2cType
<1>3. /\ Tail(todo) \in Seq(A) /\ n \in Nat \ {0} /\ Len(Tail(todo)) = n - 1
      /\ \A j \in 1 .. n - 1 : Tail(todo)[j] = todo[j + 1]
      /\ Head(todo) = todo[1]
  <2> HIDE DEF todo, A
  <2> QED
    BY <1>0, <1>1, HeadTailProperties
<1>4. what = "ctrl" => val \in {16, 40, 64, 144}
  BY <1>0, <1>1, <1>3
<1>5. \A j \in 1 .. n - 1 : Tail(todo)[j][1] = "ctrl" => Tail(todo)[j][2] \in {16, 40, 64, 144}
  BY <1>0, <1>1, <1>3
<1> DEFINE typed(c) ==
        c = [todo |-> c.todo, op |-> c.op, got |-> c.got, state |-> c.state,
             tx |-> c.tx, rx |-> c.rx, status |-> c.status, addr |-> c.addr,
             regs |-> c.regs, before |-> c.before, touched |-> c.touched]
<1> HIDE DEF tail, what, val
<1>6. /\ typed(next) /\ next.todo = tail /\ next.op = i2c.op /\ next.state = i2c.state
      /\ next.tx = i2c.tx /\ next.addr = i2c.addr /\ next.regs = i2c.regs
      /\ next.before = i2c.before /\ next.touched = i2c.touched
  BY <1>1 DEF I2cType
<1> HIDE DEF next, todo
<1>7. /\ typed(i2c') /\ i2c'.todo = tail /\ i2c'.op = i2c.op
      /\ i2c'.before = i2c.before /\ i2c'.touched = i2c.touched
      /\ i2c'.regs = [r \in I2cRegs |-> i2c'.regs[r]]
      /\ i2c'.tx = IF what = "tx" THEN val ELSE i2c.tx
      /\ ~(what = "ctrl" /\ val \in {16, 64, 144}) => i2c'.state = i2c.state
      /\ ~(what = "ctrl" /\ val = 16) => i2c'.regs = i2c.regs /\ i2c'.addr = i2c.addr
      /\ what = "ctrl" /\ val = 144 => i2c'.state = IF i2c.tx % 2 = 1 THEN "READ" ELSE "WRITE1"
      /\ what = "ctrl" /\ val = 16 /\ i2c.state = "WRITE1" =>
            i2c'.state = "WRITE2" /\ i2c'.addr = i2c.tx /\ i2c'.regs = i2c.regs
      /\ what = "ctrl" /\ val = 16 /\ i2c.state = "WRITE2" =>
            i2c'.regs = [r \in I2cRegs |->
                            IF r \in {19, 20, 21} /\ i2c.addr = 25 /\ i2c.tx = 49 THEN 0
                            ELSE IF r = i2c.addr THEN i2c.tx ELSE i2c.regs[r]]
  <2>0. i2c.regs = [r \in I2cRegs |-> i2c.regs[r]]
    BY <1>1 DEF I2cType
  <2>1. CASE what = "tx" /\ i2c' = [next EXCEPT !.tx = val]
    BY <1>6, <2>0, <2>1
  <2>2. CASE what = "ctrl" /\ i2c' = I2cControl(next, val)
    <3>1. CASE val = 16
      <4>1. i2c' = I2cSendByte(next)
        BY <2>2, <3>1 DEF I2cControl
      <4>2. CASE i2c.state = "WRITE1"
        <5>1. i2c' = [next EXCEPT !.status = 65, !.addr = next.tx, !.state = "WRITE2"]
          BY <1>6, <4>1, <4>2 DEF I2cSendByte
        <5>2. /\ typed(i2c') /\ i2c'.todo = tail /\ i2c'.op = i2c.op /\ i2c'.regs = i2c.regs
              /\ i2c'.before = i2c.before /\ i2c'.touched = i2c.touched
              /\ i2c'.tx = i2c.tx /\ i2c'.state = "WRITE2" /\ i2c'.addr = i2c.tx
          BY <1>6, <5>1
        <5> QED
          BY <2>0, <2>2, <3>1, <4>2, <5>2
      <4>3. CASE i2c.state = "WRITE2"
        <5> DEFINE f == [r \in I2cRegs |->
                            IF r \in {19, 20, 21} /\ i2c.addr = 25 /\ i2c.tx = 49 THEN 0
                            ELSE IF r = i2c.addr THEN i2c.tx ELSE i2c.regs[r]]
        <5>1. i2c' = [next EXCEPT !.regs = f]
          BY <1>6, <4>1, <4>3 DEF I2cSendByte
        <5>2. f = [r \in I2cRegs |-> f[r]]
          OBVIOUS
        <5> HIDE DEF f
        <5>3. /\ typed(i2c') /\ i2c'.todo = tail /\ i2c'.op = i2c.op /\ i2c'.regs = f
              /\ i2c'.before = i2c.before /\ i2c'.touched = i2c.touched
              /\ i2c'.tx = i2c.tx /\ i2c'.state = i2c.state
          BY <1>6, <5>1
        <5> QED
          BY <2>2, <3>1, <4>3, <5>2, <5>3 DEF f
      <4>4. CASE i2c.state \notin {"WRITE1", "WRITE2"}
        BY <1>6, <2>0, <2>2, <3>1, <4>1, <4>4 DEF I2cSendByte
      <4> QED
        BY <4>2, <4>3, <4>4
    <3>2. CASE val = 40
      <4>1. i2c' = next \/ i2c' = [next EXCEPT !.rx = next.regs[next.addr]]
        BY <2>2, <3>2 DEF I2cControl, I2cReadByte
      <4> QED
        BY <1>6, <2>0, <2>2, <3>2, <4>1
    <3>3. CASE val = 64
      <4>1. i2c' = [next EXCEPT !.status = 129, !.state = "IDLE"]
        BY <2>2, <3>3 DEF I2cControl, I2cStop
      <4>2. /\ typed(i2c') /\ i2c'.todo = tail /\ i2c'.op = i2c.op /\ i2c'.regs = i2c.regs
            /\ i2c'.before = i2c.before /\ i2c'.touched = i2c.touched
            /\ i2c'.tx = i2c.tx /\ i2c'.addr = i2c.addr
        BY <1>6, <4>1
      <4> QED
        BY <2>0, <2>2, <3>3, <4>2
    <3>4. CASE val = 144
      <4>1. i2c' = [next EXCEPT !.status = 65,
                                !.state = IF next.tx % 2 = 1 THEN "READ" ELSE "WRITE1"]
        BY <2>2, <3>4 DEF I2cControl, I2cStart
      <4>2. /\ typed(i2c') /\ i2c'.todo = tail /\ i2c'.op = i2c.op /\ i2c'.regs = i2c.regs
            /\ i2c'.before = i2c.before /\ i2c'.touched = i2c.touched
            /\ i2c'.tx = i2c.tx /\ i2c'.addr = i2c.addr
            /\ i2c'.state = IF i2c.tx % 2 = 1 THEN "READ" ELSE "WRITE1"
        BY <1>6, <4>1
      <4> QED
        BY <2>0, <2>2, <3>4, <4>2
    <3> QED
      BY <1>4, <2>2, <3>1, <3>2, <3>3, <3>4
  <2>3. CASE what = "wait" /\ i2c.status = val /\ i2c' = next
    BY <1>6, <2>0, <2>3
  <2>4. CASE what = "rx" /\ i2c' = [next EXCEPT !.got = i2c.rx]
    BY <1>6, <2>0, <2>4
  <2> QED
    BY <1>2, <2>1, <2>2, <2>3, <2>4
<1>8. I2cType'
  BY <1>1, <1>3, <1>5, <1>7 DEF I2cType, tail
<1>9. ASSUME i2c.op.kind = "write"
      PROVE  I2cHeard(n - 1)'
  <2>0. n \in Nat /\ n - 1 + 1 = n /\ 1 \in 1 .. n
    BY <1>3
  <2>1. I2cHeard(n)
    BY <1>0, <1>9 DEF I2cInv, todo
  <2>2. I2cWriteStep(i2c.op, n, todo[1]) /\ todo[1] = Head(todo)
    BY <1>3, <2>1, <2>0 DEF I2cHeard, todo
  <2>3. n \in 1 .. 10 /\ n - 1 \in 0 .. 10 /\ i2c.op.reg \in I2cRegs
    BY <1>3, <2>1 DEF I2cHeard
  <2>4. \A j \in 1 .. n - 1 : I2cWriteStep(i2c.op, (n - 1) - j + 1, tail[j])
    <3> SUFFICES ASSUME NEW j \in 1 .. n - 1
                 PROVE  I2cWriteStep(i2c.op, (n - 1) - j + 1, tail[j])
      OBVIOUS
    <3>1. j + 1 \in 1 .. n /\ n - (j + 1) + 1 = (n - 1) - j + 1
      BY <1>3
    <3> QED
      BY <1>3, <2>1, <3>1 DEF I2cHeard, todo, tail
  <2>5. what = todo[1][1] /\ val = todo[1][2]
    BY <2>2 DEF what, val
  <2>6. n - 1 = 9 => i2c'.tx = 144
    BY <1>7, <2>2, <2>3, <2>5 DEF I2cWriteStep
  <2>7. n - 1 \in 6 .. 8 => i2c'.state = "WRITE1"
    BY <1>7, <2>1, <2>2, <2>3, <2>5 DEF I2cWriteStep, I2cHeard
  <2>8. n - 1 = 6 => i2c'.tx = i2c.op.reg
    BY <1>7, <2>2, <2>3, <2>5 DEF I2cWriteStep
  <2>9. n - 1 \in 3 .. 5 => i2c'.state = "WRITE2" /\ i2c'.addr = i2c.op.reg
    BY <1>7, <2>1, <2>2, <2>3, <2>5 DEF I2cWriteStep, I2cHeard
  <2>10. n - 1 = 3 => i2c'.tx = i2c.op.val
    BY <1>7, <2>2, <2>3, <2>5 DEF I2cWriteStep
  <2>11. n - 1 \in 3 .. 10 => \A r \in I2cRegs \ i2c.touched : i2c'.regs[r] = i2c.before[r]
    BY <1>7, <2>1, <2>2, <2>3, <2>5 DEF I2cWriteStep, I2cHeard
  <2>12. n - 1 \in 0 .. 2 =>
          \A r \in I2cRegs \ i2c.touched :
             i2c'.regs[r] = IF r \in {19, 20, 21} /\ i2c.op.reg = 25 /\ i2c.op.val = 49 THEN 0
                            ELSE IF r = i2c.op.reg THEN i2c.op.val ELSE i2c.before[r]
    BY <1>7, <2>1, <2>2, <2>3, <2>5 DEF I2cWriteStep, I2cHeard
  <2> QED
    BY <1>7, <2>3, <2>4, <2>6, <2>7, <2>8, <2>9, <2>10, <2>11, <2>12 DEF I2cHeard
<1> QED
  BY <1>3, <1>7, <1>8, <1>9 DEF I2cInv, tail

(***************************************************************************)
(* A write of the driver arrives, whatever the user's commands set between *)
(* its ten accesses.                                                       *)
(***************************************************************************)
THEOREM I2cWritesArrive == I2cInit /\ [][I2cNext]_i2c => []I2cWriteArrives
<1>1. I2cInv /\ [I2cNext]_i2c => I2cInv'
  <2>1. I2cInv /\ UNCHANGED i2c => I2cInv'
    BY DEF I2cInv, I2cType, I2cHeard
  <2> QED
    BY <2>1, I2cCallInv, I2cAccessInv, HdmiInv DEF I2cNext
<1>2. I2cInv => I2cWriteArrives
  <2> SUFFICES ASSUME I2cInv, i2c.todo = <<>>, i2c.op.kind = "write"
               PROVE  I2cWriteArrives
    BY DEF I2cWriteArrives, I2cIdle
  <2>1. I2cHeard(0)
    BY DEF I2cInv
  <2> QED
    BY <2>1 DEF I2cHeard, I2cWriteArrives
<1> QED
  BY <1>1, <1>2, I2cInitInv, PTL

----------------------------------------------------------------------------
(* The SSP controller and the flash                                        *)

SspCmd == {"address", "erase", "latch", "status", "word", "other"} \X Int

SspStates ==
    [running : BOOLEAN, todo : Seq(SspCmd), fifo : Seq(Int), addr : Int,
     latch : BOOLEAN, sent : Seq(SspCmd), taken : Nat, deep : BOOLEAN, base : Int]

\* The transfers of s before the k-th that gave the flash an address, the last of
\* them, and the words read behind one.
SspSets(s, k) == {j \in 1 .. k - 1 : s.sent[j][1] \in {"address", "erase"}}
SspIsLast(s, from, k) == from \in SspSets(s, k) /\ \A m \in SspSets(s, k) : m <= from
SspWords(s, from, k) == {j \in from + 1 .. k - 1 : s.sent[j][1] = "word"}

\* Where the flash is before the k-th transfer, said without a CHOOSE.
SspAt(s, k, a) ==
    \/ SspSets(s, k) = {} /\ a = s.base + Cardinality(SspWords(s, 0, k))
    \/ \E from : SspIsLast(s, from, k) /\ a = s.sent[from][2] + Cardinality(SspWords(s, from, k))

SspLatched(s, k) ==
    \E j \in 1 .. k - 1 : /\ s.sent[j][1] = "latch"
                          /\ \A m \in j + 1 .. k - 1 : s.sent[m][1] # "erase"

\* Whether a word is the answer to the k-th transfer.
SspGood(s, k, word) ==
    /\ s.sent[k][1] = "word" => SspAt(s, k, word)
    /\ s.sent[k][1] = "status" /\ SspLatched(s, k) => word = SspLatchSet
    /\ s.sent[k][1] \notin {"word", "status"} => word = SspZero

\* The answers in the FIFO are right, and the flash is where the transfers so far
\* have left it.
SspSound(s) ==
    /\ s \in SspStates
    /\ Len(s.fifo) <= Len(s.sent)
    /\ ~s.deep => Len(s.fifo) = Len(s.sent) - s.taken
    /\ \A i \in 1 .. Len(s.fifo) : SspGood(s, Len(s.sent) - Len(s.fifo) + i, s.fifo[i])
    /\ SspAt(s, Len(s.sent) + 1, s.addr)
    /\ SspLatched(s, Len(s.sent) + 1) => s.latch

LEMMA SspAnswerIs ==
    ASSUME NEW k \in Nat, NEW a, SspAt(ssp, k, a)
    PROVE  SspAnswer(k) = a
<1> DEFINE sets == SspSets(ssp, k)
           last == CHOOSE j \in sets : \A m \in sets : m <= j
           f == IF sets = {} THEN 0 ELSE last
           start == IF f = 0 THEN ssp.base ELSE ssp.sent[f][2]
<1>1. SspAnswer(k) = start + Cardinality(SspWords(ssp, f, k))
  BY DEF SspAnswer, SspSets, SspWords
<1>2. CASE sets = {} /\ a = ssp.base + Cardinality(SspWords(ssp, 0, k))
  BY <1>1, <1>2
<1>3. ASSUME NEW from, SspIsLast(ssp, from, k),
             a = ssp.sent[from][2] + Cardinality(SspWords(ssp, from, k))
      PROVE  SspAnswer(k) = a
  <2>1. from \in sets /\ from \in 1 .. k - 1 /\ (\A m \in sets : m <= from) /\ sets \subseteq Int
    BY <1>3 DEF SspIsLast, SspSets
  <2>2. last \in sets /\ \A m \in sets : m <= last
    BY <2>1
  <2>3. last = from
    BY <2>1, <2>2
  <2> HIDE DEF last, sets
  <2>4. f = from /\ from # 0
    BY <2>1, <2>3
  <2>5. start = ssp.sent[from][2]
    BY <2>4
  <2> HIDE DEF f
  <2> QED
    BY <1>1, <1>3, <2>4, <2>5
<1> QED
  BY <1>2, <1>3 DEF SspAt

LEMMA SspInitSound == SspInit => SspSound(ssp)
<1> SUFFICES ASSUME SspInit
             PROVE  SspSound(ssp)
  OBVIOUS
<1>1. /\ ssp \in SspStates /\ ssp.sent = <<>> /\ ssp.fifo = <<>> /\ ssp.base = 0
      /\ ssp.addr = 0 /\ ssp.taken = 0
  BY DEF SspInit, SspStates
<1>2. SspSets(ssp, 1) = {} /\ SspWords(ssp, 0, 1) = {} /\ ~SspLatched(ssp, 1)
  BY DEF SspSets, SspWords, SspLatched
<1>3. SspAt(ssp, 1, 0)
  <2>1. Cardinality({}) = 0
    BY FS_EmptySet
  <2>2. Cardinality(SspWords(ssp, 0, 1)) = 0
    BY <1>2, <2>1, Zenon
  <2> QED
    BY <1>1, <1>2, <2>2 DEF SspAt
<1> QED
  BY <1>1, <1>2, <1>3 DEF SspSound

\* Clearing the FIFO begins a new history where the flash stands.
LEMMA SspClearedSound ==
    ASSUME NEW s, SspSound(s)
    PROVE  SspSound(SspCleared(s))
<1> DEFINE c == SspCleared(s)
<1>1. /\ c \in SspStates /\ c.sent = <<>> /\ c.fifo = <<>> /\ c.base = c.addr
      /\ c.taken = 0 /\ c.addr \in Int
  <2> DEFINE e == <<>>
  <2>1. e \in Seq(SspCmd) /\ e \in Seq(Int)
    OBVIOUS
  <2>2. c = [s EXCEPT !.fifo = e, !.sent = e, !.taken = 0, !.deep = FALSE, !.base = s.addr]
    BY DEF SspCleared
  <2>3. s \in SspStates
    BY DEF SspSound
  <2> HIDE DEF e, c
  <2>4. /\ c \in SspStates /\ c.sent = e /\ c.fifo = e /\ c.base = s.addr /\ c.addr = s.addr
        /\ c.taken = 0 /\ s.addr \in Int
    BY <2>1, <2>2, <2>3 DEF SspStates
  <2> QED
    BY <2>4 DEF e
<1> HIDE DEF c
<1>2. SspSets(c, 1) = {} /\ SspWords(c, 0, 1) = {} /\ ~SspLatched(c, 1)
  BY DEF SspSets, SspWords, SspLatched
<1>3. SspAt(c, 1, c.addr)
  <2>1. Cardinality({}) = 0
    BY FS_EmptySet
  <2>2. Cardinality(SspWords(c, 0, 1)) = 0
    BY <1>2, <2>1, Zenon
  <2>3. c.addr = c.base + 0
    BY <1>1
  <2> QED
    BY <1>2, <2>2, <2>3 DEF SspAt
<1>4. SspSound(c)
  BY <1>1, <1>2, <1>3 DEF SspSound
<1> QED
  BY <1>4 DEF c

\* A transfer more leaves what came before as it was.
LEMMA SspPast ==
    ASSUME NEW s \in SspStates, NEW t \in SspStates, NEW cmd \in SspCmd,
           t.sent = Append(s.sent, cmd), t.base = s.base,
           NEW k \in 1 .. Len(s.sent) + 1
    PROVE  /\ SspSets(t, k) = SspSets(s, k)
           /\ \A from \in Nat : SspWords(t, from, k) = SspWords(s, from, k)
           /\ \A a : SspAt(s, k, a) => SspAt(t, k, a)
           /\ SspLatched(t, k) => SspLatched(s, k)
           /\ k <= Len(s.sent) => \A word : SspGood(s, k, word) => SspGood(t, k, word)
<1>1. s.sent \in Seq(SspCmd) /\ Len(s.sent) \in Nat
  BY DEF SspStates
<1>2. \A j \in 1 .. Len(s.sent) : t.sent[j] = s.sent[j]
  BY <1>1
<1>3. SspSets(t, k) = SspSets(s, k)
  BY <1>1, <1>2 DEF SspSets
<1>4. \A from \in Nat : SspWords(t, from, k) = SspWords(s, from, k)
  BY <1>1, <1>2 DEF SspWords
<1>5. ASSUME NEW a, SspAt(s, k, a)
      PROVE  SspAt(t, k, a)
  <2>1. CASE SspSets(s, k) = {} /\ a = s.base + Cardinality(SspWords(s, 0, k))
    BY <1>3, <1>4, <2>1 DEF SspAt
  <2>2. ASSUME NEW from, SspIsLast(s, from, k),
               a = s.sent[from][2] + Cardinality(SspWords(s, from, k))
        PROVE  SspAt(t, k, a)
    <3>1. from \in 1 .. k - 1 /\ t.sent[from] = s.sent[from]
      BY <1>1, <1>2, <2>2 DEF SspIsLast, SspSets
    <3>2. SspIsLast(t, from, k)
      BY <1>3, <2>2 DEF SspIsLast
    <3>3. SspWords(t, from, k) = SspWords(s, from, k)
      BY <1>4, <3>1
    <3> QED
      BY <2>2, <3>1, <3>2, <3>3 DEF SspAt
  <2> QED
    BY <1>5, <2>1, <2>2 DEF SspAt
<1>6. SspLatched(t, k) => SspLatched(s, k)
  BY <1>1, <1>2 DEF SspLatched
<1>7. k <= Len(s.sent) => \A word : SspGood(s, k, word) => SspGood(t, k, word)
  BY <1>1, <1>2, <1>5, <1>6 DEF SspGood
<1> QED
  BY <1>3, <1>4, <1>5, <1>6, <1>7

\* Where a transfer leaves the flash.
LEMMA SspNext1 ==
    ASSUME NEW s \in SspStates, NEW t \in SspStates, NEW cmd \in SspCmd,
           t.sent = Append(s.sent, cmd), t.base = s.base,
           SspAt(s, Len(s.sent) + 1, s.addr),
           t.addr = IF cmd[1] \in {"address", "erase"} THEN cmd[2]
                    ELSE IF cmd[1] = "word" THEN s.addr + 1 ELSE s.addr
    PROVE  SspAt(t, Len(t.sent) + 1, t.addr)
<1> DEFINE n == Len(s.sent)
<1>1. /\ s.sent \in Seq(SspCmd) /\ n \in Nat /\ Len(t.sent) = n + 1 /\ t.sent[n + 1] = cmd
      /\ \A j \in 1 .. n : t.sent[j] = s.sent[j]
  BY DEF SspStates
<1>2. /\ SspSets(t, n + 1) = SspSets(s, n + 1) /\ SspSets(s, n + 1) \subseteq 1 .. n
      /\ \A from \in Nat : SspWords(t, from, n + 1) = SspWords(s, from, n + 1)
  BY <1>1, SspPast DEF SspSets
<1> HIDE DEF n
<1>3. CASE cmd[1] \in {"address", "erase"}
  <2>1. n + 1 \in SspSets(t, n + 2) /\ \A m \in SspSets(t, n + 2) : m <= n + 1
    BY <1>1, <1>3 DEF SspSets
  <2>2. SspWords(t, n + 1, n + 2) = {}
    BY <1>1 DEF SspWords
  <2>3. t.sent[n + 1][2] = t.addr /\ t.addr \in Int
    BY <1>1, <1>3 DEF SspStates
  <2>4. t.addr = t.sent[n + 1][2] + Cardinality(SspWords(t, n + 1, n + 2))
    <3>1. Cardinality({}) = 0
      BY FS_EmptySet
    <3>2. Cardinality(SspWords(t, n + 1, n + 2)) = 0
      BY <2>2, <3>1, Zenon
    <3> QED
      BY <2>3, <3>2
  <2>5. SspAt(t, n + 2, t.addr)
    BY <2>1, <2>4 DEF SspAt, SspIsLast
  <2> QED
    BY <1>1, <2>5
<1>4. CASE cmd[1] \notin {"address", "erase"}
  <2>1. SspSets(t, n + 2) = SspSets(s, n + 1)
    <3>1. SspSets(t, n + 2) = SspSets(t, n + 1)
      BY <1>1, <1>4 DEF SspSets
    <3> QED
      BY <1>2, <3>1
  <2>2. ASSUME NEW from \in 0 .. n, NEW b \in Int, s.addr = b + Cardinality(SspWords(s, from, n + 1))
        PROVE  t.addr = b + Cardinality(SspWords(t, from, n + 2))
    <3> DEFINE w == SspWords(s, from, n + 1)
    <3>1. IsFiniteSet(w) /\ Cardinality(w) \in Nat /\ n + 1 \notin w
      <4>1. w \subseteq 1 .. n
        BY <1>1 DEF SspWords
      <4>2. IsFiniteSet(1 .. n)
        <5>1. 1 \in Int /\ n \in Int
          BY <1>1
        <5> QED
          BY <5>1, FS_Interval
      <4> QED
        BY <1>1, <4>1, <4>2, FS_Subset, FS_CardinalityType
    <3>2. w = SspWords(t, from, n + 1)
      BY <1>2
    <3>3. CASE cmd[1] = "word"
      <4>1. SspWords(t, from, n + 2) = w \cup {n + 1}
        BY <1>1, <3>2, <3>3 DEF SspWords
      <4> HIDE DEF w
      <4>2. Cardinality(w \cup {n + 1}) = Cardinality(w) + 1
        BY <3>1, FS_AddElement
      <4>3. t.addr = s.addr + 1
        BY <1>4, <3>3
      <4>4. s.addr = b + Cardinality(w)
        BY <2>2 DEF w
      <4>5. Cardinality(SspWords(t, from, n + 2)) = Cardinality(w) + 1
        BY <4>1, <4>2
      <4> DEFINE m == Cardinality(w)
      <4>6. m \in Nat
        BY <3>1
      <4> HIDE DEF m
      <4> QED
        BY <4>3, <4>4, <4>5, <4>6 DEF m
    <3>4. CASE cmd[1] # "word"
      <4>1. SspWords(t, from, n + 2) = w
        BY <1>1, <3>2, <3>4 DEF SspWords
      <4>2. t.addr = s.addr
        BY <1>4, <3>4
      <4>3. Cardinality(SspWords(t, from, n + 2)) = Cardinality(w)
        BY <4>1, Zenon
      <4>4. s.addr = b + Cardinality(w)
        BY <2>2
      <4> QED
        BY <4>2, <4>3, <4>4, Zenon
    <3> QED
      BY <3>3, <3>4
  <2>3. CASE SspSets(s, n + 1) = {} /\ s.addr = s.base + Cardinality(SspWords(s, 0, n + 1))
    <3>1. s.base \in Int
      BY DEF SspStates
    <3>2. t.addr = t.base + Cardinality(SspWords(t, 0, n + 2))
      BY <1>1, <2>2, <2>3, <3>1
    <3>3. SspAt(t, n + 2, t.addr)
      BY <2>1, <2>3, <3>2 DEF SspAt
    <3> QED
      BY <1>1, <3>3
  <2>4. ASSUME NEW from, SspIsLast(s, from, n + 1),
               s.addr = s.sent[from][2] + Cardinality(SspWords(s, from, n + 1))
        PROVE  SspAt(t, Len(t.sent) + 1, t.addr)
    <3>1. from \in 1 .. n /\ t.sent[from] = s.sent[from] /\ s.sent[from][2] \in Int
      <4>1. from \in 1 .. n
        BY <1>2, <2>4 DEF SspIsLast
      <4>2. s.sent[from] \in SspCmd
        BY <1>1, <4>1, ElementOfSeq DEF n
      <4> QED
        BY <1>1, <4>1, <4>2 DEF SspCmd
    <3>2. t.addr = t.sent[from][2] + Cardinality(SspWords(t, from, n + 2))
      BY <2>2, <2>4, <3>1
    <3>3. SspIsLast(t, from, n + 2)
      BY <2>1, <2>4 DEF SspIsLast
    <3>4. SspAt(t, n + 2, t.addr)
      BY <3>2, <3>3 DEF SspAt
    <3> QED
      BY <1>1, <3>4
  <2> QED
    BY <2>3, <2>4 DEF SspAt, n
<1> QED
  BY <1>3, <1>4

\* Two states that differ in what the bootloader call still does.
SspSame(s, t) ==
    /\ t \in SspStates /\ t.fifo = s.fifo /\ t.taken = s.taken /\ t.sent = s.sent
    /\ t.addr = s.addr /\ t.base = s.base /\ t.latch = s.latch /\ t.deep = s.deep

LEMMA SspSameSound ==
    ASSUME NEW s, NEW t, SspSound(s), SspSame(s, t)
    PROVE  SspSound(t)
<1>1. /\ \A k, w : SspGood(s, k, w) => SspGood(t, k, w)
      /\ \A k, w : SspAt(s, k, w) => SspAt(t, k, w)
      /\ \A k : SspLatched(t, k) => SspLatched(s, k)
  BY DEF SspSame, SspGood, SspAt, SspLatched, SspSets, SspWords, SspIsLast
<1> QED
  BY <1>1 DEF SspSound, SspSame

LEMMA SspPushed ==
    ASSUME NEW fifo \in Seq(Int), NEW word \in Int
    PROVE  LET q == SspPush(fifo, word)
               d == IF Len(fifo) >= SspFifoSize THEN 1 ELSE 0
           IN /\ q \in Seq(Int) /\ Len(q) = Len(fifo) + 1 - d /\ Len(q) >= 1
              /\ q[Len(q)] = word
              /\ \A i \in 1 .. Len(q) - 1 : i + d \in 1 .. Len(fifo) /\ q[i] = fifo[i + d]
<1>1. Len(fifo) \in Nat /\ SspFifoSize \in Nat \ {0}
  BY SspAssumption
<1>2. CASE Len(fifo) >= SspFifoSize
  <2> DEFINE tail == Tail(fifo)
  <2>1. fifo # <<>>
    BY <1>1, <1>2
  <2>2. /\ tail \in Seq(Int) /\ Len(tail) = Len(fifo) - 1
        /\ \A i \in 1 .. Len(tail) : tail[i] = fifo[i + 1]
    BY <2>1, HeadTailProperties
  <2>3. SspPush(fifo, word) = Append(tail, word)
    BY <1>2 DEF SspPush
  <2> HIDE DEF tail
  <2> QED
    BY <1>1, <1>2, <2>1, <2>2, <2>3, AppendProperties
<1>3. CASE ~(Len(fifo) >= SspFifoSize)
  <2>1. SspPush(fifo, word) = Append(fifo, word)
    BY <1>3 DEF SspPush
  <2> QED
    BY <1>1, <1>3, <2>1, AppendProperties
<1> QED
  BY <1>2, <1>3

\* A transfer: its answer is right, and so is what the flash is left with.
LEMMA SspTransferredSound ==
    ASSUME NEW s, SspSound(s), s.addr = ssp.addr, s.latch = ssp.latch,
           NEW cmd \in SspCmd
    PROVE  SspSound(SspTransferred(s, cmd))
<1> DEFINE a == flash_spi_transfer(cmd)
           t == SspTransferred(s, cmd)
           n == Len(s.sent)
           q == SspPush(s.fifo, a[1])
           d == IF Len(s.fifo) >= SspFifoSize THEN 1 ELSE 0
           sent == Append(s.sent, cmd)
           deep == s.deep \/ Len(s.fifo) >= SspFifoSize
           f == Len(s.fifo)
<1>1. /\ s \in SspStates /\ s.sent \in Seq(SspCmd) /\ s.fifo \in Seq(Int)
      /\ n \in Nat /\ f \in Nat /\ f <= n /\ d \in {0, 1} /\ s.taken \in Nat
  BY DEF SspSound, SspStates
<1>2. /\ a[1] \in Int
      /\ cmd[1] = "word" => a[1] = s.addr
      /\ cmd[1] = "status" /\ s.latch => a[1] = SspLatchSet
      /\ cmd[1] \notin {"word", "status"} => a[1] = SspZero
      /\ a[2] \in Int /\ a[3] \in BOOLEAN
      /\ a[2] = IF cmd[1] \in {"address", "erase"} THEN cmd[2]
                ELSE IF cmd[1] = "word" THEN s.addr + 1 ELSE s.addr
      /\ a[3] = IF cmd[1] = "latch" THEN TRUE ELSE IF cmd[1] = "erase" THEN FALSE ELSE s.latch
  <2>1. /\ s.addr \in Int /\ s.latch \in BOOLEAN /\ SspZero \in Int /\ SspLatchSet \in Int
        /\ cmd[2] \in Int
        /\ cmd[1] \in {"address", "erase", "latch", "status", "word", "other"}
    BY <1>1 DEF SspStates, SspZero, SspLatchSet, SspCmd
  <2>2. CASE cmd[1] = "address"
    BY <2>1, <2>2 DEF flash_spi_transfer
  <2>3. CASE cmd[1] = "erase"
    BY <2>1, <2>3 DEF flash_spi_transfer
  <2>4. CASE cmd[1] = "latch"
    BY <2>1, <2>4 DEF flash_spi_transfer
  <2>5. CASE cmd[1] = "status"
    <3>1. a = <<IF s.latch THEN SspLatchSet ELSE SspZero, s.addr, s.latch>>
      BY <2>5 DEF flash_spi_transfer
    <3> QED
      BY <2>1, <2>5, <3>1
  <2>6. CASE cmd[1] = "word"
    BY <2>1, <2>6 DEF flash_spi_transfer
  <2>7. CASE cmd[1] = "other"
    BY <2>1, <2>7 DEF flash_spi_transfer
  <2> QED
    BY <2>1, <2>2, <2>3, <2>4, <2>5, <2>6, <2>7
<1> HIDE DEF a
<1>3. /\ q \in Seq(Int) /\ Len(q) = Len(s.fifo) + 1 - d /\ Len(q) >= 1
      /\ q[Len(q)] = a[1]
      /\ \A i \in 1 .. Len(q) - 1 : i + d \in 1 .. Len(s.fifo) /\ q[i] = s.fifo[i + d]
  BY <1>1, <1>2, SspPushed
<1>4. /\ sent \in Seq(SspCmd) /\ Len(sent) = n + 1 /\ sent[n + 1] = cmd
      /\ \A j \in 1 .. n : sent[j] = s.sent[j]
  BY <1>1
<1>5. deep \in BOOLEAN
  BY <1>1 DEF SspStates
<1>6. t = [s EXCEPT !.fifo = q, !.addr = a[2], !.latch = a[3], !.sent = sent, !.deep = deep]
  BY <1>1 DEF SspTransferred, SspStates, a
<1>0. /\ ~s.deep => f = n - s.taken
      /\ \A i \in 1 .. f : SspGood(s, n - f + i, s.fifo[i])
      /\ SspAt(s, n + 1, s.addr)
      /\ SspLatched(s, n + 1) => s.latch
  BY DEF SspSound
<1>a. ~deep => ~s.deep /\ d = 0
  OBVIOUS
<1>b. sent = Append(s.sent, cmd)
  OBVIOUS
<1> DEFINE m == Len(q)
<1>c. /\ m = f + 1 - d /\ m >= 1 /\ q[m] = a[1] /\ m = Len(q) /\ m \in Nat
      /\ \A i \in 1 .. m - 1 : i + d \in 1 .. f /\ q[i] = s.fifo[i + d]
  BY <1>1, <1>3
<1> HIDE DEF q, sent, deep, t, d, m
<1>7. /\ t \in SspStates /\ t.fifo = q /\ t.addr = a[2] /\ t.latch = a[3] /\ t.sent = sent
      /\ t.deep = deep /\ t.base = s.base /\ t.taken = s.taken
  BY <1>1, <1>2, <1>3, <1>4, <1>5, <1>6 DEF SspStates
<1>d. \A k \in 1 .. n + 1 :
          /\ \A b : SspAt(s, k, b) => SspAt(t, k, b)
          /\ SspLatched(t, k) => SspLatched(s, k)
          /\ k <= n => \A word : SspGood(s, k, word) => SspGood(t, k, word)
  BY <1>1, <1>7, SspPast DEF sent
<1>8. SspAt(t, n + 2, t.addr)
  <2>1. SspAt(s, Len(s.sent) + 1, s.addr)
    BY DEF SspSound
  <2>2. SspAt(t, Len(t.sent) + 1, t.addr)
    BY <1>1, <1>2, <1>7, <2>1, SspNext1 DEF sent
  <2> QED
    BY <1>4, <1>7, <2>2
<1>e. n = Len(s.sent)
  OBVIOUS
<1> HIDE DEF n, f
<1>9. SspGood(t, n + 1, a[1])
  <2>1. SspAt(t, n + 1, s.addr) /\ (SspLatched(t, n + 1) => SspLatched(s, n + 1))
    <3>1. n + 1 \in 1 .. n + 1
      BY <1>1
    <3> QED
      BY <1>0, <1>d, <3>1
  <2> QED
    BY <1>0, <1>2, <1>4, <1>7, <2>1 DEF SspGood
<1>10. ASSUME NEW i \in 1 .. m
       PROVE  SspGood(t, n + 1 - m + i, q[i])
  <2>1. CASE i = m
    <3>1. n + 1 - m + i = n + 1
      <4>1. n \in Int /\ m \in Int
        BY <1>1, <1>c
      <4>2. n + 1 - m + m = n + 1
        BY <4>1
      <4> QED
        BY <2>1, <4>2
    <3>2. q[i] = a[1]
      BY <1>c, <2>1
    <3> QED
      BY <1>9, <3>1, <3>2, Zenon
  <2>2. CASE i \in 1 .. m - 1
    <3> DEFINE k == n - f + (i + d)
    <3>1. i \in Int /\ i + d \in 1 .. f /\ q[i] = s.fifo[i + d]
      BY <1>c, <2>2
    <3>a. PICK x, y, z \in Nat : x = n /\ y = f /\ z = d
      BY <1>1
    <3>b. m = y + 1 - z /\ i \in Int /\ y <= x /\ i + z \in 1 .. y
      BY <1>1, <1>c, <3>1, <3>a, Zenon
    <3>c. x - y + (i + z) \in 1 .. x /\ x + 1 - m + i = x - y + (i + z)
      BY <3>b
    <3>2. k \in 1 .. n /\ n + 1 - m + i = k
      BY <3>a, <3>c, Zenon
    <3>3. SspGood(s, k, q[i])
      BY <1>0, <3>1
    <3> HIDE DEF k
    <3>4. SspGood(t, k, q[i])
      BY <1>1, <1>d, <3>2, <3>3
    <3> QED
      BY <3>2, <3>4, Zenon
  <2> QED
    BY <1>1, <1>c, <2>1, <2>2
<1>11. SspLatched(t, n + 2) => t.latch
  <2>1. ASSUME SspLatched(t, n + 2), cmd[1] # "latch"
        PROVE  cmd[1] # "erase" /\ SspLatched(t, n + 1)
    <3>1. (n + 2) - 1 = n + 1 /\ (n + 1) - 1 = n
      BY <1>1
    <3>2. PICK j \in 1 .. n + 1 : /\ t.sent[j][1] = "latch"
                                  /\ \A l \in j + 1 .. n + 1 : t.sent[l][1] # "erase"
      <4>1. \E j \in 1 .. (n + 2) - 1 :
               /\ t.sent[j][1] = "latch"
               /\ \A l \in j + 1 .. (n + 2) - 1 : t.sent[l][1] # "erase"
        BY <2>1, Zenon DEF SspLatched
      <4> QED
        BY <3>1, <4>1
    <3>3. t.sent[n + 1] = cmd
      BY <1>4, <1>7
    <3>4. j # n + 1
      BY <2>1, <3>2, <3>3
    <3>5. j \in 1 .. n /\ n + 1 \in j + 1 .. n + 1 /\ j + 1 .. n \subseteq j + 1 .. n + 1
      BY <1>1, <3>2, <3>4
    <3>6. cmd[1] # "erase"
      BY <3>2, <3>3, <3>5, Zenon
    <3>7. \E l \in 1 .. (n + 1) - 1 :
             /\ t.sent[l][1] = "latch"
             /\ \A r \in l + 1 .. (n + 1) - 1 : t.sent[r][1] # "erase"
      BY <3>1, <3>2, <3>5
    <3> QED
      BY <3>6, <3>7, Zenon DEF SspLatched
  <2>2. n + 1 \in 1 .. n + 1
    BY <1>1
  <2> QED
    BY <1>0, <1>2, <1>7, <1>d, <2>1, <2>2
<1>12. ~deep => m = n + 1 - s.taken
  BY <1>0, <1>1, <1>a, <1>c
<1>13. m <= n + 1
  BY <1>1, <1>c
<1>14. SspSound(t)
  <2>1. Len(t.sent) = n + 1 /\ Len(t.fifo) = m /\ n + 1 + 1 = n + 2
    BY <1>1, <1>4, <1>7, <1>c
  <2>2. /\ SspAt(t, n + 1 + 1, t.addr)
        /\ SspLatched(t, n + 1 + 1) => t.latch
    BY <1>8, <1>11, <2>1
  <2>3. \A i \in 1 .. Len(t.fifo) : SspGood(t, Len(t.sent) - Len(t.fifo) + i, t.fifo[i])
    <3> SUFFICES ASSUME NEW i \in 1 .. m
                 PROVE  SspGood(t, Len(t.sent) - Len(t.fifo) + i, t.fifo[i])
      BY <2>1
    <3>0. \A x, y : x = n + 1 /\ y = m => x - y + i = n + 1 - m + i
      <4>1. n \in Int /\ m \in Int /\ i \in Int
        BY <1>1, <1>c
      <4> QED
        BY <4>1
    <3>1. Len(t.sent) - Len(t.fifo) + i = n + 1 - m + i
      BY <2>1, <3>0
    <3>2. t.fifo[i] = q[i]
      BY <1>7
    <3> QED
      BY <1>10, <3>1, <3>2, Zenon
  <2>4. /\ Len(t.fifo) <= Len(t.sent)
        /\ ~t.deep => Len(t.fifo) = Len(t.sent) - t.taken
    BY <1>1, <1>7, <1>c, <1>12, <1>13, <2>1
  <2>5. /\ SspAt(t, Len(t.sent) + 1, t.addr)
        /\ SspLatched(t, Len(t.sent) + 1) => t.latch
    BY <2>1, <2>2, Zenon
  <2> QED
    BY <1>7, <2>3, <2>4, <2>5, Zenon DEF SspSound
<1> QED
  BY <1>14 DEF t

LEMMA SspNextSound == SspSound(ssp) /\ [SspNext]_ssp => SspSound(ssp')
<1> SUFFICES ASSUME SspSound(ssp), [SspNext]_ssp
             PROVE  SspSound(ssp')
  OBVIOUS
<1>0. ssp \in SspStates
  BY DEF SspSound
<1>1. CASE SspClear
  BY <1>1, SspClearedSound DEF SspClear
<1>2. CASE SspWrite
  <2>1. PICK cmd \in SspCommands : ssp' = SspTransferred(ssp, cmd)
    BY <1>2 DEF SspWrite
  <2>2. cmd \in SspCmd
    BY SspAssumption DEF SspCommands, SspCmd
  <2> QED
    BY <2>1, <2>2, SspTransferredSound
<1>3. CASE SspRead
  <2> DEFINE tail == Tail(ssp.fifo)
             taken == ssp.taken + 1
  <2>1. /\ ssp.fifo \in Seq(Int) /\ ssp.fifo # <<>> /\ ssp.sent \in Seq(SspCmd)
        /\ ssp.taken \in Nat /\ Len(ssp.fifo) \in Nat /\ Len(ssp.sent) \in Nat
    BY <1>0, <1>3 DEF SspRead, SspStates
  <2>2. /\ tail \in Seq(Int) /\ Len(tail) = Len(ssp.fifo) - 1
        /\ \A i \in 1 .. Len(tail) : tail[i] = ssp.fifo[i + 1]
    BY <2>1, HeadTailProperties
  <2>3. ssp' = [ssp EXCEPT !.fifo = tail, !.taken = taken]
    BY <1>3 DEF SspRead
  <2>4. taken \in Nat
    BY <2>1
  <2>a. taken = ssp.taken + 1
    OBVIOUS
  <2> DEFINE f == Len(ssp.fifo)
             n == Len(ssp.sent)
             m == Len(tail)
             was == ssp.taken
  <2>b. /\ f \in Nat /\ n \in Nat /\ m \in Nat /\ was \in Nat /\ m = f - 1 /\ f <= n
        /\ ~ssp.deep => f = n - was
        /\ taken = was + 1
        /\ \A i \in 1 .. m : tail[i] = ssp.fifo[i + 1]
    BY <2>1, <2>2 DEF SspSound
  <2>c. \A i \in 1 .. f : SspGood(ssp, n - f + i, ssp.fifo[i])
    BY Zenon DEF SspSound
  <2> HIDE DEF tail, taken
  <2>5. /\ ssp' \in SspStates /\ ssp'.fifo = tail /\ ssp'.taken = taken /\ ssp'.sent = ssp.sent
        /\ ssp'.addr = ssp.addr /\ ssp'.base = ssp.base /\ ssp'.latch = ssp.latch
        /\ ssp'.deep = ssp.deep
    BY <1>0, <2>2, <2>3, <2>4 DEF SspStates
  <2> HIDE DEF f, n, m, was
  <2>6. ASSUME NEW i \in 1 .. m
        PROVE  SspGood(ssp, n - m + i, tail[i])
    <3>1. i + 1 \in 1 .. f /\ n - f + (i + 1) = n - m + i
      BY <2>b
    <3>2. SspGood(ssp, n - f + (i + 1), ssp.fifo[i + 1])
      BY <2>c, <3>1
    <3> QED
      BY <2>b, <3>1, <3>2, Zenon
  <2>7. /\ \A k, w : SspGood(ssp, k, w) => SspGood(ssp', k, w)
        /\ \A k, w : SspAt(ssp, k, w) => SspAt(ssp', k, w)
        /\ \A k : SspLatched(ssp', k) => SspLatched(ssp, k)
    BY <2>5 DEF SspGood, SspAt, SspLatched, SspSets, SspWords, SspIsLast
  <2>8. ~ssp.deep => m = n - taken
    BY <2>b
  <2>9. m <= n
    BY <2>b
  <2>10. SspAt(ssp, n + 1, ssp.addr) /\ (SspLatched(ssp, n + 1) => ssp.latch)
    BY DEF SspSound, n
  <2>11. Len(ssp'.sent) = n /\ Len(ssp'.fifo) = m
    BY <2>5 DEF n, m
  <2> QED
    BY <2>5, <2>6, <2>7, <2>8, <2>9, <2>10, <2>11, Zenon DEF SspSound
<1>4. CASE go_into_bootloader
  <2> DEFINE todo == <<<<"latch", 0>>, <<"status", 0>>, <<"erase", SspFlashWords - 1>>>>
  <2>1. ssp' = [ssp EXCEPT !.todo = todo] /\ todo \in Seq(SspCmd)
    BY <1>4, SspAssumption DEF go_into_bootloader, SspCmd
  <2> HIDE DEF todo
  <2>2. SspSame(ssp, ssp')
    BY <1>0, <2>1 DEF SspStates, SspSame
  <2> QED
    BY <2>2, SspSameSound
<1>5. CASE SspBootloaderStep
  <2> DEFINE c == SspCleared(ssp)
             t == SspTransferred(c, Head(ssp.todo))
             tail == Tail(ssp.todo)
             running == Len(ssp.todo) > 1
  <2>1. ssp.todo \in Seq(SspCmd) /\ ssp.todo # <<>>
    BY <1>0, <1>5 DEF SspBootloaderStep, SspStates
  <2>2. Head(ssp.todo) \in SspCmd /\ tail \in Seq(SspCmd) /\ running \in BOOLEAN
    BY <2>1, HeadTailProperties
  <2>3. SspSound(c) /\ c.addr = ssp.addr /\ c.latch = ssp.latch
    BY <1>0, SspClearedSound DEF SspCleared, SspStates
  <2>4. SspSound(t)
    BY <2>2, <2>3, SspTransferredSound
  <2>a. t.todo = ssp.todo
    BY <1>0 DEF SspTransferred, SspCleared, SspStates
  <2>b. ssp' = [t EXCEPT !.todo = Tail(t.todo), !.running = running]
    BY <1>5 DEF SspBootloaderStep
  <2>c. ssp' = [t EXCEPT !.todo = tail, !.running = running]
    BY <2>a, <2>b
  <2> HIDE DEF t, tail, running
  <2>5. t \in SspStates
    BY <2>4 DEF SspSound
  <2>6. SspSame(t, ssp')
    BY <2>2, <2>5, <2>c DEF SspStates, SspSame
  <2> QED
    BY <2>4, <2>6, SspSameSound
<1>6. CASE UNCHANGED ssp
  BY <1>6
<1> QED
  BY <1>1, <1>2, <1>3, <1>4, <1>5, <1>6 DEF SspNext

(***************************************************************************)
(* What the firmware reads are the words of the flash, for every sequence  *)
(* of transfers and every size of the FIFO and of the flash.               *)
(***************************************************************************)
THEOREM SspWordsAreRead == SspInit /\ [][SspNext]_ssp => []SspReadsTheFlash
<1>1. SspSound(ssp) => SspReadsTheFlash
  <2> SUFFICES ASSUME SspSound(ssp)
               PROVE  SspReadsTheFlash
    OBVIOUS
  <2>1. /\ ssp \in SspStates /\ Len(ssp.sent) \in Nat /\ Len(ssp.fifo) \in Nat
        /\ Len(ssp.fifo) <= Len(ssp.sent)
    BY DEF SspSound, SspStates
  <2>2. ASSUME NEW i \in 1 .. Len(ssp.fifo), NEW k, k = Len(ssp.sent) - Len(ssp.fifo) + i
        PROVE  CASE ssp.sent[k][1] = "word" -> ssp.fifo[i] = SspAnswer(k)
                 [] ssp.sent[k][1] = "status" -> SspLatchAt(k) => ssp.fifo[i] = SspLatchSet
                 [] OTHER -> ssp.fifo[i] = SspZero
    <3>0. k \in Nat
      <4> DEFINE f == Len(ssp.fifo)
                 n == Len(ssp.sent)
      <4>1. f \in Nat /\ n \in Nat /\ f <= n /\ i \in 1 .. f /\ k = n - f + i
        BY <2>1, <2>2
      <4> HIDE DEF f, n
      <4> QED
        BY <4>1
    <3>1. k \in Nat /\ SspGood(ssp, k, ssp.fifo[i])
      BY <2>2, <3>0 DEF SspSound
    <3>2. CASE ssp.sent[k][1] = "word"
      <4>1. ssp.fifo[i] = SspAnswer(k)
        BY <3>1, <3>2, SspAnswerIs DEF SspGood
      <4> QED
        BY <3>2, <4>1
    <3>3. CASE ssp.sent[k][1] = "status"
      <4>1. SspLatchAt(k) => SspLatched(ssp, k)
        BY DEF SspLatchAt, SspLatched
      <4>2. SspLatchAt(k) => ssp.fifo[i] = SspLatchSet
        BY <3>1, <3>3, <4>1 DEF SspGood
      <4> QED
        BY <3>3, <4>2
    <3>4. CASE ssp.sent[k][1] \notin {"word", "status"}
      <4>1. ssp.fifo[i] = SspZero
        BY <3>1, <3>4 DEF SspGood
      <4> QED
        BY <3>4, <4>1
    <3> QED
      BY <3>2, <3>3, <3>4
  <2>3. ~ssp.deep => Len(ssp.fifo) = Len(ssp.sent) - ssp.taken
    BY DEF SspSound
  <2> QED
    BY <2>2, <2>3 DEF SspReadsTheFlash
<1>2. SspSound(ssp) /\ [SspNext]_ssp => SspSound(ssp)'
  BY SspNextSound
<1> QED
  BY <1>1, <1>2, SspInitSound, PTL

----------------------------------------------------------------------------
(* The connector to the real device                                        *)

SlUnit == SlVal \cup SlPlaces \cup {SlSet, SlGet, SlOk, SlFiller, SlGarbage}

SlStates ==
    [host : {"idle", "get", "set", "exited"}, asked : SlPlaces \X SlUnit,
     saved : SlUnit, answer : SlUnit, down : Seq(SlUnit), up : Seq(SlUnit), tty : Seq(SlUnit),
     buf : Seq(SlUnit), mem : [SlPlaces -> SlUnit], view : [SlPlaces -> SlUnit],
     began : SlUnit, wrote : BOOLEAN, lost : Nat, runs : Nat, torn : BOOLEAN, dirty : BOOLEAN]

\* What the simulator has still to read, and the request it waits for.
SlLine(l) == l.tty \o l.up
SlRequest(l) ==
    IF l.host = "set" THEN <<SlSet, l.asked[1], l.asked[2]>>
    ELSE <<SlGet, l.asked[1], SlFiller>>

SlFillers(s) == \A i \in 1 .. Len(s) : s[i] = SlFiller

\* No access is under way.
SlIdle(l) ==
    /\ l.down = <<>> /\ l.buf = <<>> /\ l.mem = SlOwed(l)
    /\ SlFillers(SlLine(l))

\* The device has not done the request yet; when a unit of it is lost it never will.
SlWaiting(l) ==
    /\ SlFillers(SlLine(l))
    /\ l.buf \o l.down = SlRequest(l) \/ Len(l.buf) + Len(l.down) < 3
    /\ \A a \in SlPlaces : (l.host = "set" /\ a = l.asked[1]) \/ l.mem[a] = SlOwed(l)[a]
    /\ l.host = "set" => SlOwed(l)[l.asked[1]] = l.asked[2]

\* The device has done it; the reply is behind the fillers of earlier replies.
SlReplied(l) ==
    LET s == SlLine(l)
    IN /\ l.down = <<>> /\ l.buf = <<>> /\ l.mem = SlOwed(l)
       /\ l.host = "set" => \E n \in Nat : \A i \in 1 .. Len(s) : i # n => s[i] = SlFiller
       /\ l.host = "get" =>
             \E n \in 0 .. Len(s) :
                /\ \A i \in 1 .. n : s[i] = SlFiller
                /\ Len(s) <= n + 3
                /\ Len(s) = n + 3 =>
                      /\ s[n + 2] = SlOwed(l)[l.asked[1]]
                      /\ s[n + 3] = SlOwed(l)[l.asked[1]]

SlAnswered(l) ==
    l.answer # SlGarbage =>
        l.answer = IF l.asked[1] = SlSaved THEN SlKept(l) ELSE SlOwed(l)[l.asked[1]]

\* Between a start on a quiet line and a reply read before its end.
SlClean(l) ==
    /\ l.saved = SlKept(l)
    /\ l.host = "idle" => SlIdle(l) /\ SlAnswered(l)
    /\ l.host \in {"get", "set"} =>
          /\ l.host = "get" => l.asked[1] # SlSaved
          /\ l.answer = SlGarbage
          /\ SlWaiting(l) \/ SlReplied(l)

SlSound(l) ==
    /\ l \in SlStates
    /\ l.host = "exited" => l.tty = <<>>
    /\ l.host # "exited" /\ ~l.dirty /\ ~l.torn => SlClean(l)

LEMMA SlUnitFacts ==
    /\ SlVal \subseteq SlUnit /\ SlPlaces \subseteq SlUnit
    /\ SlSet \in SlUnit /\ SlGet \in SlUnit /\ SlOk \in SlUnit /\ SlFiller \in SlUnit
    /\ SlGarbage \in SlUnit /\ 0 \in SlUnit
    /\ SlShadowed \in SlPlaces /\ SlSaved \in SlPlaces /\ SlSkipped \in SlPlaces
    /\ SlShadowed # SlSkipped /\ SlSaved # SlSkipped
    /\ SlSet # SlGet /\ SlOk # SlFiller
<1>1. SlShadowed # SlSkipped /\ SlSaved # SlSkipped
  BY DEF SlShadowed, SlSaved, SlSkipped
<1>2. SlSet # SlGet /\ SlOk # SlFiller
  BY DEF SlSet, SlGet, SlOk, SlFiller
<1>3. SlShadowed = 0
  BY DEF SlShadowed
<1> QED
  BY <1>1, <1>2, <1>3, Zenon DEF SlUnit, SlPlaces

\* What the device owes depends on nothing else.
LEMMA SlOwedSame ==
    ASSUME link'.view = link.view, link'.began = link.began, link'.wrote = link.wrote
    PROVE  SlOwed(link') = SlOwed(link) /\ SlKept(link') = SlKept(link)
BY DEF SlOwed, SlKept

LEMMA SlOwedIs ==
    ASSUME NEW l \in SlStates
    PROVE  /\ SlOwed(l) \in [SlPlaces -> SlUnit]
           /\ \A a \in SlPlaces : SlOwed(l)[a] = IF a = SlSkipped THEN l.began ELSE l.view[a]
           /\ SlKept(l) = IF l.wrote THEN SlOwed(l)[SlShadowed] ELSE 0
<1>1. l.view \in [SlPlaces -> SlUnit] /\ l.began \in SlUnit
  BY DEF SlStates
<1> QED
  BY <1>1, SlUnitFacts DEF SlOwed, SlKept

\* Two sequences end to end, and the same without the head of the second.
LEMMA SlEnds ==
    ASSUME NEW A, NEW t \in Seq(A), NEW u \in Seq(A)
    PROVE  /\ t \o u \in Seq(A) /\ Len(t \o u) = Len(t) + Len(u)
           /\ \A i \in 1 .. Len(t) : (t \o u)[i] = t[i]
           /\ \A i \in 1 .. Len(u) : (t \o u)[Len(t) + i] = u[i]
<1>1. Len(t) \in Nat /\ Len(u) \in Nat
  OBVIOUS
<1>2. /\ t \o u \in Seq(A) /\ Len(t \o u) = Len(t) + Len(u)
      /\ \A i \in 1 .. Len(t) + Len(u) :
            (t \o u)[i] = IF i <= Len(t) THEN t[i] ELSE u[i - Len(t)]
  BY ConcatProperties
<1> DEFINE n == Len(t)
           m == Len(u)
           s == t \o u
<1> HIDE DEF s
<1>3. ASSUME NEW i \in 1 .. m
      PROVE  s[n + i] = u[i]
  <2>1. n + i \in 1 .. n + m /\ ~(n + i <= n) /\ n + i - n = i
    BY <1>1
  <2> QED
    BY <1>2, <2>1 DEF s
<1>4. ASSUME NEW i \in 1 .. n
      PROVE  s[i] = t[i]
  <2>1. i \in 1 .. n + m /\ i <= n
    BY <1>1
  <2> QED
    BY <1>2, <2>1 DEF s
<1> QED
  BY <1>2, <1>3, <1>4 DEF s

LEMMA SlMoved ==
    ASSUME NEW A, NEW t \in Seq(A), NEW u \in Seq(A), u # <<>>
    PROVE  Append(t, Head(u)) \o Tail(u) = t \o u
<1>1. Head(u) \in A /\ Tail(u) \in Seq(A) /\ <<Head(u)>> \in Seq(A)
  BY HeadTailProperties
<1>2. Append(t, Head(u)) = t \o <<Head(u)>>
  BY <1>1, AppendIsConcat
<1>3. u = <<Head(u)>> \o Tail(u)
  <2>1. Append(<<>>, Head(u)) = <<Head(u)>>
    OBVIOUS
  <2> QED
    BY HeadTailAppend, <1>1
<1>4. (t \o <<Head(u)>>) \o Tail(u) = t \o (<<Head(u)>> \o Tail(u))
  BY <1>1, ConcatAssociative
<1> QED
  BY <1>2, <1>3, <1>4

LEMMA SlShorter ==
    ASSUME NEW A, NEW t \in Seq(A), NEW u \in Seq(A), u # <<>>
    PROVE  LET s == t \o u
               r == t \o Tail(u)
           IN /\ r \in Seq(A) /\ Len(r) = Len(s) - 1 /\ Len(s) = Len(t) + Len(u) /\ Len(u) >= 1
              /\ \A i \in 1 .. Len(r) :
                    \/ i <= Len(t) /\ r[i] = s[i]
                    \/ i > Len(t) /\ r[i] = s[i + 1]
<1> DEFINE v == Tail(u)
           s == t \o u
           r == t \o v
           n == Len(t)
           m == Len(u)
<1>1. /\ n \in Nat /\ m \in Nat /\ m >= 1 /\ v \in Seq(A) /\ Len(v) = m - 1
      /\ \A i \in 1 .. m - 1 : v[i] = u[i + 1]
  BY HeadTailProperties
<1>a. PICK w \in Seq(A) : w = v
  BY <1>1
<1>b. /\ t \o w \in Seq(A) /\ Len(t \o w) = Len(t) + Len(w)
      /\ \A i \in 1 .. Len(t) : (t \o w)[i] = t[i]
      /\ \A i \in 1 .. Len(w) : (t \o w)[Len(t) + i] = w[i]
  BY <1>a, SlEnds
<1>c. w = v
  BY <1>a
<1> HIDE DEF v
<1>2. /\ s \in Seq(A) /\ Len(s) = n + m
      /\ \A i \in 1 .. n : s[i] = t[i]
      /\ \A i \in 1 .. m : s[n + i] = u[i]
  BY SlEnds
<1>3. /\ r \in Seq(A) /\ Len(r) = n + (m - 1)
      /\ \A i \in 1 .. n : r[i] = t[i]
      /\ \A i \in 1 .. m - 1 : r[n + i] = v[i]
  <2>1. /\ r \in Seq(A) /\ Len(r) = n + Len(v)
        /\ \A i \in 1 .. n : r[i] = t[i]
        /\ \A i \in 1 .. Len(v) : r[n + i] = v[i]
    <3>1. r = t \o w
      BY <1>c
    <3> QED
      BY <1>b, <1>c, <3>1
  <2> QED
    BY <1>1, <2>1
<1> HIDE DEF s, r, n, m
<1>4. ASSUME NEW i \in 1 .. n + (m - 1)
      PROVE  \/ i <= n /\ r[i] = s[i]
             \/ i > n /\ r[i] = s[i + 1]
  <2>1. CASE i <= n
    BY <1>1, <1>2, <1>3, <2>1
  <2>2. CASE i > n
    <3> DEFINE j == i - n
    <3>1. j \in 1 .. m - 1 /\ j + 1 \in 1 .. m /\ i = n + j /\ i + 1 = n + (j + 1)
      BY <1>1, <2>2
    <3> HIDE DEF j
    <3>2. r[n + j] = v[j] /\ v[j] = u[j + 1] /\ s[n + (j + 1)] = u[j + 1]
      BY <1>1, <1>2, <1>3, <3>1
    <3> QED
      BY <2>2, <3>1, <3>2
  <2> QED
    BY <1>1, <2>1, <2>2
<1>5. Len(r) = Len(s) - 1
  BY <1>1, <1>2, <1>3
<1> QED
  BY <1>1, <1>2, <1>3, <1>4, <1>5 DEF r, s, n, m, v

LEMMA SlInitSound == SlInit => SlSound(link)
<1> SUFFICES ASSUME SlInit
             PROVE  SlSound(link)
  OBVIOUS
<1> DEFINE e == <<>>
<1>1. PICK mem \in [SlPlaces -> SlVal] :
         link = [host |-> "idle", asked |-> <<SlShadowed, 0>>, saved |-> 0, answer |-> SlGarbage,
                 down |-> e, up |-> e, tty |-> e, buf |-> e, mem |-> mem, view |-> mem,
                 began |-> mem[SlSkipped], wrote |-> FALSE, lost |-> 0, runs |-> 1, torn |-> FALSE, dirty |-> FALSE]
  BY DEF SlInit
<1>2. mem \in [SlPlaces -> SlUnit] /\ mem[SlSkipped] \in SlUnit
  BY <1>1, SlUnitFacts
<1>3. e \in Seq(SlUnit)
  OBVIOUS
<1> HIDE DEF e
<1>4. /\ link \in SlStates /\ link.host = "idle" /\ link.answer = SlGarbage /\ link.saved = 0
      /\ link.down = e /\ link.buf = e /\ link.tty = e /\ link.up = e /\ link.wrote = FALSE
      /\ link.mem = mem /\ link.view = mem /\ link.began = mem[SlSkipped]
  BY <1>1, <1>2, <1>3, SlUnitFacts DEF SlStates
<1>5. SlLine(link) = <<>>
  BY <1>4 DEF SlLine, e
<1>6. link.mem = SlOwed(link) /\ SlKept(link) = 0
  BY <1>2, <1>4, SlOwedIs DEF SlKept
<1> QED
  BY <1>4, <1>5, <1>6 DEF SlSound, SlClean, SlIdle, SlAnswered, SlFillers, e

\* A request goes out.
SlAsking(first, a, v, host, asked, down, view, saved, wrote) ==
    /\ first \in {SlSet, SlGet} /\ a \in SlPlaces /\ v \in SlUnit
    /\ host \in {"get", "set"} /\ (host = "set" <=> first = SlSet)
    /\ asked \in SlPlaces \X SlUnit /\ asked[1] = a
    /\ first = SlSet => asked[2] = v /\ a # SlSkipped
    /\ first = SlGet => v = SlFiller /\ a # SlSaved
    /\ down = link.down \o <<first, a, v>>
    /\ view \in [SlPlaces -> SlUnit] /\ (first = SlSet => view[a] = v)
    /\ \A b \in SlPlaces \ {a} : view[b] = link.view[b]
    /\ saved \in SlUnit /\ wrote \in BOOLEAN
    /\ first = SlSet /\ a = SlShadowed => saved = v /\ wrote = TRUE
    /\ first = SlSet /\ a # SlShadowed => saved = link.saved /\ wrote = link.wrote
    /\ first = SlGet => view = link.view /\ saved = link.saved /\ wrote = link.wrote
    /\ link' = [link EXCEPT !.host = host, !.asked = asked, !.answer = SlGarbage,
                   !.down = down, !.view = view, !.saved = saved, !.wrote = wrote]

LEMMA SlAsks ==
    ASSUME SlSound(link), link.host = "idle",
           NEW first, NEW a, NEW v, NEW host, NEW asked, NEW down, NEW view, NEW saved, NEW wrote,
           SlAsking(first, a, v, host, asked, down, view, saved, wrote)
    PROVE  SlSound(link')
<1> USE DEF SlAsking
<1>0. link \in SlStates /\ link.view \in [SlPlaces -> SlUnit] /\ link.down \in Seq(SlUnit)
  BY DEF SlSound, SlStates
<1>1. down \in Seq(SlUnit)
  <2>1. <<first, a, v>> \in Seq(SlUnit)
    BY SlUnitFacts
  <2> QED
    BY <1>0, <2>1, ConcatProperties
<1>2. first = SlGet \/ first = SlSet
  OBVIOUS
<1>3. link' = [link EXCEPT !.host = host, !.asked = asked, !.answer = SlGarbage,
                   !.down = down, !.view = view, !.saved = saved, !.wrote = wrote]
  OBVIOUS
<1>a. down = link.down \o <<first, a, v>> /\ (host = "set" <=> first = SlSet)
  OBVIOUS
<1>4. /\ link' \in SlStates /\ link'.host = host /\ link'.asked = asked
      /\ link'.answer = SlGarbage /\ link'.down = down /\ link'.view = view
      /\ link'.began = link.began /\ link'.wrote = wrote
      /\ link'.saved = saved /\ link'.up = link.up /\ link'.tty = link.tty
      /\ link'.buf = link.buf /\ link'.mem = link.mem /\ link'.torn = link.torn
      /\ link'.dirty = link.dirty
  <2>1. /\ host \in {"idle", "get", "set", "exited"} /\ asked \in SlPlaces \X SlUnit
        /\ view \in [SlPlaces -> SlUnit] /\ saved \in SlUnit /\ wrote \in BOOLEAN
        /\ SlGarbage \in SlUnit
    BY <1>0, SlUnitFacts
  <2> HIDE DEF SlAsking
  <2> QED
    BY <1>0, <1>1, <1>3, <2>1 DEF SlStates
<1>5. SUFFICES ASSUME ~link.dirty, ~link.torn
               PROVE  SlClean(link')
  BY <1>2, <1>4 DEF SlSound
<1>6. SlIdle(link) /\ link.saved = SlKept(link)
  BY <1>5 DEF SlSound, SlClean
<1>7. SlFillers(SlLine(link'))
  <2>1. SlLine(link') = SlLine(link)
    BY <1>4 DEF SlLine
  <2> QED
    BY <1>6, <2>1 DEF SlIdle
<1>8. link'.buf \o link'.down = SlRequest(link')
  <2> DEFINE r == <<first, a, v>>
  <2>1. r \in Seq(SlUnit)
    BY SlUnitFacts
  <2>2. link.buf = <<>> /\ link.down = <<>>
    BY <1>6 DEF SlIdle
  <2>3. r = SlRequest(link')
    <3>1. CASE first = SlSet
      BY <1>4, <1>a, <3>1 DEF SlRequest
    <3>2. CASE first = SlGet
      <4>1. host # "set" /\ v = SlFiller
        BY <1>a, <3>2, SlUnitFacts
      <4> QED
        BY <1>4, <3>2, <4>1 DEF SlRequest
    <3> QED
      BY <3>1, <3>2
  <2>4. down = link.down \o r
    BY <1>a
  <2> HIDE DEF r
  <2>5. down = r
    BY <2>1, <2>2, <2>4, ConcatEmptySeq
  <2>6. <<>> \o r = r
    BY <2>1, ConcatEmptySeq
  <2> QED
    BY <1>4, <2>2, <2>3, <2>5, <2>6
<1>b. /\ \A b \in SlPlaces : (host = "set" /\ b = a) \/ SlOwed(link')[b] = SlOwed(link)[b]
      /\ host = "set" => SlOwed(link')[a] = asked[2]
  <2>1. \A b \in SlPlaces :
           /\ SlOwed(link)[b] = IF b = SlSkipped THEN link.began ELSE link.view[b]
           /\ SlOwed(link')[b] = IF b = SlSkipped THEN link.began ELSE view[b]
    <3>1. link' \in SlStates /\ link'.began = link.began /\ link'.view = view
      BY <1>4
    <3>2. \A l \in SlStates : \A b \in SlPlaces :
             SlOwed(l)[b] = IF b = SlSkipped THEN l.began ELSE l.view[b]
      BY SlOwedIs
    <3> HIDE DEF SlAsking
    <3> QED
      BY <1>0, <3>1, <3>2
  <2>2. CASE first = SlSet
    BY <1>a, <2>1, <2>2
  <2>3. CASE first = SlGet
    BY <1>a, <2>1, <2>3, SlUnitFacts
  <2> QED
    BY <2>2, <2>3
<1>9. /\ \A b \in SlPlaces : (host = "set" /\ b = a) \/ link.mem[b] = SlOwed(link')[b]
      /\ saved = SlKept(link')
  <2>1. link.mem = SlOwed(link)
    BY <1>6 DEF SlIdle
  <2>2. link'.wrote = wrote /\ wrote \in BOOLEAN /\ link.wrote \in BOOLEAN
    BY <1>0, <1>4 DEF SlStates
  <2>3. SlKept(link') = IF wrote THEN SlOwed(link')[SlShadowed] ELSE 0
    <3>1. link' \in SlStates
      BY <1>4
    <3> HIDE DEF SlAsking
    <3> QED
      BY <2>2, <3>1, SlOwedIs
  <2>4. link.saved = IF link.wrote THEN SlOwed(link)[SlShadowed] ELSE 0
    BY <1>0, <1>6, SlOwedIs
  <2>5. ASSUME first = SlSet /\ a = SlShadowed
        PROVE  saved = SlKept(link')
    <3>1. wrote = TRUE /\ saved = v /\ SlOwed(link')[SlShadowed] = v
      BY <1>a, <1>b, <2>5
    <3>2. SlKept(link') = SlOwed(link')[SlShadowed]
      BY <2>3, <3>1
    <3> QED
      BY <3>1, <3>2
  <2>6. ASSUME ~(first = SlSet /\ a = SlShadowed)
        PROVE  saved = SlKept(link')
    <3>1. wrote = link.wrote /\ saved = link.saved
      BY <1>2, <2>6
    <3>2. SlOwed(link')[SlShadowed] = SlOwed(link)[SlShadowed]
      BY <1>2, <1>a, <1>b, <2>6, SlUnitFacts
    <3> HIDE DEF SlAsking
    <3> QED
      BY <2>3, <2>4, <3>1, <3>2
  <2>7. saved = SlKept(link')
    BY <2>5, <2>6
  <2>8. \A b \in SlPlaces : (host = "set" /\ b = a) \/ link.mem[b] = SlOwed(link')[b]
    BY <1>b, <2>1
  <2> QED
    BY <2>7, <2>8
<1>10. SlWaiting(link')
  BY <1>4, <1>7, <1>8, <1>9, <1>b DEF SlWaiting
<1> QED
  BY <1>2, <1>4, <1>9, <1>10, <1>a, SlUnitFacts DEF SlClean

\* A write that con_setval drops.
LEMMA SlSkipsSound == SlSound(link) /\ SlSkips => SlSound(link')
<1> SUFFICES ASSUME SlSound(link), SlSkips
             PROVE  SlSound(link')
  OBVIOUS
<1>1. PICK v \in SlVal : link' = [link EXCEPT !.view[SlSkipped] = v]
  BY DEF SlSkips
<1>2. link \in SlStates /\ link.view \in [SlPlaces -> SlUnit] /\ v \in SlUnit
  BY SlUnitFacts DEF SlSound, SlStates
<1>3. PICK view \in [SlPlaces -> SlUnit] : view = [link.view EXCEPT ![SlSkipped] = v]
  BY <1>2
<1>4. link' = [link EXCEPT !.view = view]
  BY <1>1, <1>3
<1>5. /\ link' \in SlStates /\ link'.asked = link.asked /\ link'.answer = link.answer
      /\ link'.host = link.host /\ link'.down = link.down /\ link'.buf = link.buf
      /\ link'.mem = link.mem /\ link'.view = view /\ link'.tty = link.tty
      /\ link'.began = link.began /\ link'.wrote = link.wrote
      /\ link'.up = link.up /\ link'.saved = link.saved /\ link'.torn = link.torn
      /\ link'.dirty = link.dirty
  BY <1>2, <1>4 DEF SlStates
<1>6. \A a \in SlPlaces : a # SlSkipped => view[a] = link.view[a]
  BY <1>2, <1>3
<1>7. SlOwed(link') = SlOwed(link)
  <2> DEFINE new == SlOwed(link')
             old == SlOwed(link)
  <2>1. /\ new \in [SlPlaces -> SlUnit] /\ old \in [SlPlaces -> SlUnit]
        /\ \A a \in SlPlaces : new[a] = old[a]
    BY <1>2, <1>5, <1>6, SlOwedIs
  <2> HIDE DEF new, old
  <2> QED
    BY <2>1 DEF new, old
<1>8. SlKept(link') = SlKept(link)
  BY <1>2, <1>5, <1>7, SlOwedIs
<1>9. link.host = "idle"
  BY DEF SlSkips
<1> QED
  BY <1>5, <1>7, <1>8, <1>9 DEF SlSound, SlClean, SlIdle, SlLine, SlAnswered

LEMMA SlGetSavedSound == SlSound(link) /\ SlGetSaved => SlSound(link')
<1> SUFFICES ASSUME SlSound(link), SlGetSaved
             PROVE  SlSound(link')
  OBVIOUS
<1> DEFINE asked == <<SlSaved, 0>>
<1>1. link \in SlStates /\ link.host = "idle" /\ link.saved \in SlUnit
  BY DEF SlSound, SlStates, SlGetSaved
<1>2. asked \in SlPlaces \X SlUnit /\ asked[1] = SlSaved
  BY SlUnitFacts
<1>3. link' = [link EXCEPT !.asked = asked, !.answer = link.saved]
  BY DEF SlGetSaved
<1> HIDE DEF asked
<1>4. /\ link' \in SlStates /\ link'.asked = asked /\ link'.answer = link.saved
      /\ link'.host = "idle" /\ link'.down = link.down /\ link'.buf = link.buf
      /\ link'.mem = link.mem /\ link'.view = link.view /\ link'.tty = link.tty
      /\ link'.up = link.up /\ link'.saved = link.saved /\ link'.torn = link.torn
      /\ link'.began = link.began /\ link'.wrote = link.wrote /\ link'.dirty = link.dirty
  BY <1>1, <1>2, <1>3 DEF SlStates
<1>5. SlOwed(link') = SlOwed(link) /\ SlKept(link') = SlKept(link)
  BY <1>4, SlOwedSame
<1> QED
  BY <1>1, <1>2, <1>4, <1>5 DEF SlSound, SlClean, SlIdle, SlLine, SlAnswered

\* Units move on.
LEMMA SlArrivesSound == SlSound(link) /\ SlArrives => SlSound(link')
<1> SUFFICES ASSUME SlSound(link), SlArrives
             PROVE  SlSound(link')
  OBVIOUS
<1> DEFINE head == Head(link.up)
           up == Tail(link.up)
           tty == IF link.host = "exited" THEN <<>> ELSE Append(link.tty, head)
<1>1. /\ link \in SlStates /\ link.up \in Seq(SlUnit) /\ link.up # <<>>
      /\ link.tty \in Seq(SlUnit)
  BY DEF SlSound, SlStates, SlArrives
<1>2. head \in SlUnit /\ up \in Seq(SlUnit)
  BY <1>1, HeadTailProperties
<1>3. tty \in Seq(SlUnit)
  BY <1>1, <1>2
<1>4. link' = [link EXCEPT !.up = up, !.tty = tty]
  BY DEF SlArrives
<1>5. link.host # "exited" => tty \o up = link.tty \o link.up
  BY <1>1, SlMoved
<1>6. link.host = "exited" => tty = <<>>
  OBVIOUS
<1> HIDE DEF up, tty
<1>7. /\ link' \in SlStates /\ link'.up = up /\ link'.tty = tty /\ link'.asked = link.asked
      /\ link'.answer = link.answer /\ link'.host = link.host /\ link'.down = link.down
      /\ link'.buf = link.buf /\ link'.mem = link.mem /\ link'.view = link.view
      /\ link'.saved = link.saved /\ link'.torn = link.torn /\ link'.dirty = link.dirty
      /\ link'.began = link.began /\ link'.wrote = link.wrote
  BY <1>1, <1>2, <1>3, <1>4 DEF SlStates
<1>9. SlOwed(link') = SlOwed(link) /\ SlKept(link') = SlKept(link)
  BY <1>7, SlOwedSame
<1>8. link.host # "exited" => SlLine(link') = SlLine(link)
  BY <1>5, <1>7 DEF SlLine
<1> QED
  BY <1>6, <1>7, <1>8, <1>9
     DEF SlSound, SlClean, SlIdle, SlAnswered, SlWaiting, SlReplied, SlRequest

LEMMA SlLosesReply ==
    ASSUME SlSound(link), link.up # <<>>,
           link' = [link EXCEPT !.up = Tail(link.up), !.lost = link.lost + 1]
    PROVE  SlSound(link')
<1> DEFINE up == Tail(link.up)
           lost == link.lost + 1
           s == SlLine(link)
           r == SlLine(link')
           n == Len(link.tty)
           m == Len(s)
<1>1. link \in SlStates /\ link.up \in Seq(SlUnit) /\ link.tty \in Seq(SlUnit) /\ lost \in Nat
  BY DEF SlSound, SlStates
<1>2. up \in Seq(SlUnit)
  BY <1>1, HeadTailProperties
<1>a. link' = [link EXCEPT !.up = up, !.lost = lost]
  OBVIOUS
<1>b. up = Tail(link.up)
  OBVIOUS
<1> HIDE DEF up, lost
<1>3. /\ link' \in SlStates /\ link'.up = up /\ link'.tty = link.tty /\ link'.asked = link.asked
      /\ link'.answer = link.answer /\ link'.host = link.host /\ link'.down = link.down
      /\ link'.buf = link.buf /\ link'.mem = link.mem /\ link'.view = link.view
      /\ link'.saved = link.saved /\ link'.torn = link.torn /\ link'.dirty = link.dirty
      /\ link'.began = link.began /\ link'.wrote = link.wrote
  BY <1>1, <1>2, <1>a DEF SlStates
<1>d. SlOwed(link') = SlOwed(link) /\ SlKept(link') = SlKept(link)
  BY <1>3, SlOwedSame
<1>4. /\ Len(r) = m - 1 /\ m \in Nat /\ n \in Nat /\ m > n
      /\ \A i \in 1 .. m - 1 :
            \/ i <= n /\ r[i] = s[i]
            \/ i > n /\ r[i] = s[i + 1]
  <2>1. r = link.tty \o Tail(link.up)
    BY <1>3, <1>b DEF SlLine
  <2> DEFINE w == link.tty \o link.up
             v == link.tty \o Tail(link.up)
             lu == Len(link.up)
  <2>2. /\ v \in Seq(SlUnit) /\ Len(v) = Len(w) - 1 /\ Len(w) = n + lu /\ lu >= 1
        /\ \A i \in 1 .. Len(v) :
              \/ i <= n /\ v[i] = w[i]
              \/ i > n /\ v[i] = w[i + 1]
    BY <1>1, SlShorter
  <2>3. n \in Nat /\ lu \in Nat
    BY <1>1
  <2>4. s = w /\ r = v
    BY <2>1 DEF SlLine
  <2> HIDE DEF s, r, w, v, n, lu
  <2>5. m = n + lu
    BY <2>2, <2>4
  <2> HIDE DEF m
  <2>6. Len(r) = m - 1 /\ m \in Nat /\ m > n
    <3>1. Len(r) = Len(s) - 1
      BY <2>2, <2>4
    <3> QED
      BY <2>2, <2>3, <2>5, <3>1 DEF m
  <2> QED
    BY <2>2, <2>3, <2>4, <2>6
<1>5. SUFFICES ASSUME ~link.dirty, ~link.torn, link.host # "exited"
               PROVE  SlClean(link')
  BY <1>3 DEF SlSound
<1>6. SlClean(link)
  BY <1>5 DEF SlSound
<1>c. m = Len(s)
  OBVIOUS
<1> HIDE DEF s, r, m, n
<1>7. SlFillers(s) => SlFillers(r)
  <2> SUFFICES ASSUME SlFillers(s), NEW i \in 1 .. m - 1
               PROVE  r[i] = SlFiller
    BY <1>4 DEF SlFillers
  <2>1. i \in 1 .. m /\ i + 1 \in 1 .. m
    BY <1>4
  <2> QED
    BY <1>4, <1>c, <2>1 DEF SlFillers
<1>8. CASE link.host = "idle"
  BY <1>3, <1>d, <1>6, <1>7, <1>8 DEF SlClean, SlIdle, SlAnswered, s, r
<1>9. CASE link.host \in {"get", "set"} /\ SlWaiting(link)
  <2>1. SlWaiting(link')
    BY <1>3, <1>d, <1>7, <1>9 DEF SlWaiting, SlRequest, s, r
  <2> QED
    BY <1>3, <1>d, <1>6, <1>9, <2>1 DEF SlClean
<1>10. CASE link.host = "set" /\ SlReplied(link)
  <2>1. PICK k \in Nat : \A i \in 1 .. m : i # k => s[i] = SlFiller
    BY <1>10, <1>c DEF SlReplied, s
  <2>2. CASE k <= n
    <3>1. ASSUME NEW i \in 1 .. m - 1, i # k
          PROVE  r[i] = SlFiller
      <4>1. i \in 1 .. m /\ i + 1 \in 1 .. m
        BY <1>4
      <4> QED
        BY <1>4, <2>1, <2>2, <3>1, <4>1
    <3> QED
      BY <1>3, <1>d, <1>4, <1>6, <1>10, <3>1 DEF SlReplied, SlClean, r
  <2>3. CASE k > n
    <3>1. k - 1 \in Nat
      BY <1>4, <2>3
    <3>2. ASSUME NEW i \in 1 .. m - 1, i # k - 1
          PROVE  r[i] = SlFiller
      <4>1. i \in 1 .. m /\ i + 1 \in 1 .. m /\ i + 1 # k
        BY <1>4, <3>2
      <4> QED
        BY <1>4, <2>1, <2>3, <4>1
    <3> QED
      BY <1>3, <1>d, <1>4, <1>6, <1>10, <3>1, <3>2 DEF SlReplied, SlClean, r
  <2> QED
    BY <1>4, <2>2, <2>3
<1>11. CASE link.host = "get" /\ SlReplied(link)
  <2> DEFINE w == SlOwed(link)[link.asked[1]]
  <2>1. PICK k \in 0 .. m : /\ \A i \in 1 .. k : s[i] = SlFiller
                            /\ m <= k + 3
                            /\ m = k + 3 => s[k + 2] = w /\ s[k + 3] = w
    BY <1>11, <1>c DEF SlReplied, s
  <2> HIDE DEF w
  <2>2. CASE k <= n
    <3>1. k \in 0 .. m - 1 /\ m - 1 <= k + 3 /\ m - 1 # k + 3
      BY <1>4, <2>1, <2>2
    <3>2. ASSUME NEW i \in 1 .. k
          PROVE  r[i] = SlFiller
      <4>1. i \in 1 .. m - 1 /\ i <= n
        BY <1>4, <2>2
      <4> QED
        BY <1>4, <2>1, <4>1
    <3> QED
      BY <1>3, <1>d, <1>4, <1>6, <1>11, <3>1, <3>2 DEF SlReplied, SlClean, r
  <2>3. CASE k > n
    <3>1. k - 1 \in 0 .. m - 1 /\ m - 1 <= k - 1 + 3
      BY <1>4, <2>1, <2>3
    <3>2. ASSUME NEW i \in 1 .. k - 1
          PROVE  r[i] = SlFiller
      <4>1. i \in 1 .. m - 1 /\ i \in 1 .. k /\ i + 1 \in 1 .. k
        BY <1>4
      <4> QED
        BY <1>4, <2>1, <4>1
    <3>3. ASSUME m - 1 = k - 1 + 3
          PROVE  r[k - 1 + 2] = w /\ r[k - 1 + 3] = w
      <4> DEFINE x == k - 1 + 2
                 y == k - 1 + 3
      <4>1. x \in 1 .. m - 1 /\ y \in 1 .. m - 1 /\ x > n /\ y > n /\ x + 1 = k + 2 /\ y + 1 = k + 3
            /\ m = k + 3
        BY <1>4, <2>3, <3>3
      <4> HIDE DEF x, y
      <4>2. r[x] = s[x + 1] /\ r[y] = s[y + 1]
        BY <1>4, <4>1
      <4> QED
        BY <2>1, <4>1, <4>2 DEF x, y
    <3> QED
      BY <1>3, <1>d, <1>4, <1>6, <1>11, <3>1, <3>2, <3>3 DEF SlReplied, SlClean, r, w
  <2> QED
    BY <1>4, <2>2, <2>3
<1> QED
  BY <1>1, <1>5, <1>6, <1>8, <1>9, <1>10, <1>11 DEF SlClean, SlStates

LEMMA SlRequestIs ==
    ASSUME NEW l \in SlStates, l.host \in {"get", "set"}
    PROVE  LET q == SlRequest(l)
           IN /\ q \in Seq(SlUnit) /\ Len(q) = 3
              /\ q[1] = (IF l.host = "set" THEN SlSet ELSE SlGet)
              /\ q[2] = l.asked[1]
              /\ l.host = "set" => q[3] = l.asked[2]
<1> DEFINE x == l.asked[1]
           y == l.asked[2]
           T == SlUnit
           q == SlRequest(l)
<1>1. x \in T /\ y \in T /\ SlSet \in T /\ SlGet \in T /\ SlFiller \in T
  BY SlUnitFacts DEF SlStates
<1>2. CASE l.host = "set"
  <2>1. q = <<SlSet, x, y>>
    BY <1>2 DEF SlRequest
  <2> HIDE DEF q, x, y, T
  <2> QED
    BY <1>1, <1>2, <2>1 DEF q, x, y, T
<1>3. CASE l.host # "set"
  <2>1. q = <<SlGet, x, SlFiller>>
    BY <1>3 DEF SlRequest
  <2> HIDE DEF q, x, y, T
  <2> QED
    BY <1>1, <1>3, <2>1 DEF q, x, y, T
<1> QED
  BY <1>2, <1>3

\* Only a request under way can lose a unit of it, or be read further.
LEMMA SlOnlyWaiting ==
    ASSUME SlSound(link), ~link.dirty, ~link.torn, link.host # "exited",
           link.down # <<>> \/ link.buf # <<>>
    PROVE  link.host \in {"get", "set"} /\ SlWaiting(link)
<1>1. SlClean(link) /\ link.host \in {"idle", "get", "set"}
  BY DEF SlSound, SlStates
<1> QED
  BY <1>1 DEF SlClean, SlIdle, SlReplied

LEMMA SlLosesRequest ==
    ASSUME SlSound(link), link.down # <<>>,
           link' = [link EXCEPT !.down = Tail(link.down), !.lost = link.lost + 1]
    PROVE  SlSound(link')
<1> DEFINE down == Tail(link.down)
           lost == link.lost + 1
           n == Len(link.buf)
           m == Len(link.down)
<1>1. /\ link \in SlStates /\ link.down \in Seq(SlUnit) /\ link.buf \in Seq(SlUnit)
      /\ lost \in Nat /\ n \in Nat /\ m \in Nat
  BY DEF SlSound, SlStates
<1>2. down \in Seq(SlUnit) /\ Len(down) = m - 1
  BY <1>1, HeadTailProperties
<1>3. link' = [link EXCEPT !.down = down, !.lost = lost]
  OBVIOUS
<1> HIDE DEF down, lost
<1>4. /\ link' \in SlStates /\ link'.up = link.up /\ link'.tty = link.tty
      /\ link'.asked = link.asked /\ link'.down = down
      /\ link'.answer = link.answer /\ link'.host = link.host
      /\ link'.buf = link.buf /\ link'.mem = link.mem /\ link'.view = link.view
      /\ link'.saved = link.saved /\ link'.torn = link.torn /\ link'.dirty = link.dirty
      /\ link'.began = link.began /\ link'.wrote = link.wrote
  BY <1>1, <1>2, <1>3 DEF SlStates
<1>e. SlOwed(link') = SlOwed(link) /\ SlKept(link') = SlKept(link)
  BY <1>4, SlOwedSame
<1>5. SUFFICES ASSUME ~link.dirty, ~link.torn, link.host # "exited"
               PROVE  SlClean(link')
  BY <1>4 DEF SlSound
<1>6. SlClean(link) /\ link.host \in {"get", "set"} /\ SlWaiting(link)
  BY <1>5, SlOnlyWaiting DEF SlSound
<1>7. n + m <= 3
  <2>1. CASE link.buf \o link.down = SlRequest(link)
    <3>1. Len(link.buf \o link.down) = n + m
      BY <1>1, ConcatProperties
    <3>2. Len(link.buf \o link.down) = 3
      BY <1>1, <1>6, <2>1, SlRequestIs
    <3>3. n + m = 3
      BY <3>1, <3>2
    <3> HIDE DEF n, m
    <3> QED
      BY <1>1, <3>3
  <2>2. CASE Len(link.buf) + Len(link.down) < 3
    <3>1. n + m < 3
      BY <2>2
    <3> HIDE DEF n, m
    <3> QED
      BY <1>1, <3>1
  <2> QED
    BY <1>6, <2>1, <2>2, Zenon DEF SlWaiting
<1>8. Len(link'.buf) + Len(link'.down) < 3
  <2> HIDE DEF n, m
  <2>1. n + (m - 1) < 3
    BY <1>1, <1>7
  <2> QED
    BY <1>2, <1>4, <2>1 DEF n
<1> QED
  BY <1>e, <1>4, <1>6, <1>8 DEF SlClean, SlWaiting, SlLine

LEMMA SlInbyteSound == SlSound(link) /\ SlInbyte => SlSound(link')
<1> SUFFICES ASSUME SlSound(link), SlInbyte
             PROVE  SlSound(link')
  OBVIOUS
<1> DEFINE down == Tail(link.down)
           head == Head(link.down)
           buf == IF link.buf = <<>> /\ head \notin {SlSet, SlGet} THEN <<>>
                  ELSE Append(link.buf, head)
           n == Len(link.buf)
           m == Len(link.down)
<1>1. /\ link \in SlStates /\ link.down \in Seq(SlUnit) /\ link.buf \in Seq(SlUnit)
      /\ n \in Nat /\ m \in Nat /\ link.down # <<>>
  BY DEF SlSound, SlStates, SlInbyte
<1>2. /\ down \in Seq(SlUnit) /\ Len(down) = m - 1 /\ head \in SlUnit
      /\ buf \in Seq(SlUnit)
  BY <1>1, HeadTailProperties
<1>3. link' = [link EXCEPT !.down = down, !.buf = buf]
  BY DEF SlInbyte
<1>a. \/ link.buf = <<>> /\ head \notin {SlSet, SlGet} /\ buf = <<>>
      \/ buf = Append(link.buf, head)
  OBVIOUS
<1>b. Append(link.buf, head) \o down = link.buf \o link.down
  BY <1>1, SlMoved
<1>c. Len(Append(link.buf, head)) = n + 1
  BY <1>1, <1>2, AppendProperties
<1>d. head = link.down[1]
  BY <1>1
<1> HIDE DEF down, buf, head
<1>4. /\ link' \in SlStates /\ link'.up = link.up /\ link'.tty = link.tty
      /\ link'.asked = link.asked /\ link'.down = down
      /\ link'.answer = link.answer /\ link'.host = link.host
      /\ link'.buf = buf /\ link'.mem = link.mem /\ link'.view = link.view
      /\ link'.saved = link.saved /\ link'.torn = link.torn /\ link'.dirty = link.dirty
      /\ link'.began = link.began /\ link'.wrote = link.wrote
  BY <1>1, <1>2, <1>3 DEF SlStates
<1>e. SlOwed(link') = SlOwed(link) /\ SlKept(link') = SlKept(link)
  BY <1>4, SlOwedSame
<1>5. SUFFICES ASSUME ~link.dirty, ~link.torn, link.host # "exited"
               PROVE  SlClean(link')
  BY <1>4 DEF SlSound
<1>6. SlClean(link) /\ link.host \in {"get", "set"} /\ SlWaiting(link)
  BY <1>1, <1>5, SlOnlyWaiting DEF SlSound
<1>7. buf \o down = SlRequest(link) \/ Len(buf) + Len(down) < 3
  <2>1. CASE buf = Append(link.buf, head)
    <3>1. buf \o down = link.buf \o link.down
      BY <1>b, <2>1
    <3>2. CASE n + m < 3
      <4> HIDE DEF n, m
      <4>1. (n + 1) + (m - 1) < 3
        BY <1>1, <3>2
      <4>2. Len(buf) = n + 1
        BY <1>c, <2>1
      <4> QED
        BY <1>2, <4>1, <4>2
    <3> QED
      BY <1>6, <3>1, <3>2 DEF SlWaiting
  <2>2. CASE link.buf = <<>> /\ head \notin {SlSet, SlGet} /\ buf = <<>>
    <3>1. link.buf \o link.down = link.down /\ n = 0
      BY <1>1, <2>2, ConcatEmptySeq
    <3>2. link.down # SlRequest(link)
      BY <1>1, <1>6, <1>d, <2>2, SlRequestIs
    <3>3. n + m < 3
      BY <1>6, <3>1, <3>2 DEF SlWaiting
    <3>4. Len(buf) = 0
      BY <2>2
    <3> HIDE DEF n, m
    <3>5. 0 + (m - 1) < 3
      BY <1>1, <3>1, <3>3
    <3> QED
      BY <1>2, <3>4, <3>5
  <2> QED
    BY <1>a, <2>1, <2>2
<1>8. SlRequest(link') = SlRequest(link)
  BY <1>4 DEF SlRequest
<1> QED
  BY <1>e, <1>4, <1>6, <1>7, <1>8 DEF SlClean, SlWaiting, SlLine

\* The device does a request and replies.
LEMMA SlParseSound == SlSound(link) /\ SlParse => SlSound(link')
<1> SUFFICES ASSUME SlSound(link), SlParse
             PROVE  SlSound(link')
  OBVIOUS
<1> DEFINE set == link.buf[1] = SlSet
           a == link.buf[2]
           mem == IF set THEN [b \in SlPlaces |-> IF b = a THEN link.buf[3] ELSE link.mem[b]]
                  ELSE link.mem
           w == IF set THEN SlFiller ELSE SlMem(a)
           reply == <<SlOk, w, w>>
           up == link.up \o reply
           e == <<>>
<1>1. /\ link \in SlStates /\ link.down \in Seq(SlUnit) /\ link.buf \in Seq(SlUnit)
      /\ link.up \in Seq(SlUnit) /\ link.tty \in Seq(SlUnit) /\ Len(link.buf) = 3
      /\ link.mem \in [SlPlaces -> SlUnit] /\ link.view \in [SlPlaces -> SlUnit]
      /\ link.buf # <<>> /\ link.buf[3] \in SlUnit /\ DOMAIN link.mem = SlPlaces
  BY DEF SlSound, SlStates, SlParse
<1>2. mem \in [SlPlaces -> SlUnit] /\ w \in SlUnit /\ e \in Seq(SlUnit)
  BY <1>1, SlUnitFacts DEF SlMem
<1>3. reply \in Seq(SlUnit) /\ Len(reply) = 3 /\ reply[2] = w /\ reply[3] = w
  BY <1>2, SlUnitFacts
<1>4. up \in Seq(SlUnit)
  BY <1>1, <1>3, ConcatProperties
<1>5. link' = [link EXCEPT !.buf = e, !.up = up, !.mem = mem]
  <2>1. CASE set
    <3>1. link' = [link EXCEPT !.buf = <<>>, !.up = @ \o <<SlOk, SlFiller, SlFiller>>,
             !.mem = [b \in DOMAIN @ |-> IF b = link.buf[2] THEN link.buf[3] ELSE @[b]]]
      BY <2>1 DEF SlParse
    <3> QED
      BY <1>1, <2>1, <3>1
  <2>2. CASE ~set
    <3>1. link' = [link EXCEPT !.buf = <<>>,
                      !.up = @ \o <<SlOk, SlMem(link.buf[2]), SlMem(link.buf[2])>>]
      BY <2>2 DEF SlParse
    <3>2. mem = link.mem /\ w = SlMem(a)
      BY <2>2
    <3> QED
      BY <1>1, <3>1, <3>2 DEF SlStates
  <2> QED
    BY <2>1, <2>2
<1>a. up = link.up \o reply /\ e = <<>>
  OBVIOUS
<1>b. /\ set => mem = [b \in SlPlaces |-> IF b = a THEN link.buf[3] ELSE link.mem[b]]
      /\ ~set => mem = link.mem
      /\ ~set /\ a \in SlPlaces => w = link.mem[a]
      /\ set => w = SlFiller
  BY <1>1 DEF SlMem
<1>c. set <=> link.buf[1] = SlSet
  OBVIOUS
<1> HIDE DEF e, up, reply, w, mem, set
<1>6. /\ link' \in SlStates /\ link'.up = up /\ link'.tty = link.tty
      /\ link'.asked = link.asked /\ link'.down = link.down
      /\ link'.answer = link.answer /\ link'.host = link.host
      /\ link'.buf = e /\ link'.mem = mem /\ link'.view = link.view
      /\ link'.saved = link.saved /\ link'.torn = link.torn /\ link'.dirty = link.dirty
      /\ link'.began = link.began /\ link'.wrote = link.wrote
  BY <1>1, <1>2, <1>4, <1>5 DEF SlStates
<1>e. SlOwed(link') = SlOwed(link) /\ SlKept(link') = SlKept(link)
  BY <1>6, SlOwedSame
<1>7. SUFFICES ASSUME ~link.dirty, ~link.torn, link.host # "exited"
               PROVE  SlClean(link')
  BY <1>6 DEF SlSound
<1>8. SlClean(link) /\ link.host \in {"get", "set"} /\ SlWaiting(link)
  BY <1>1, <1>7, SlOnlyWaiting DEF SlSound
<1>9. link.down = <<>> /\ link.buf = SlRequest(link)
  <2> DEFINE m == Len(link.down)
  <2>1. m \in Nat
    BY <1>1
  <2>2. Len(link.buf \o link.down) = 3 + m
    <3>1. Len(link.buf \o link.down) = Len(link.buf) + m
      BY <1>1, ConcatProperties
    <3> QED
      BY <1>1, <3>1, Zenon
  <2>3. link.buf \o link.down = SlRequest(link)
    <3>1. Len(link.buf) + m = 3 + m
      BY <1>1
    <3> HIDE DEF m
    <3>2. ~(3 + m < 3)
      BY <2>1
    <3> QED
      BY <1>8, <3>1, <3>2 DEF SlWaiting, m
  <2>4. 3 + m = 3
    BY <1>1, <1>8, <2>2, <2>3, SlRequestIs
  <2>5. link.down = <<>>
    BY <1>1, <2>1, <2>4
  <2> QED
    BY <1>1, <2>3, <2>5, ConcatEmptySeq
<1>10. /\ a = link.asked[1] /\ a \in SlPlaces
       /\ set <=> link.host = "set"
       /\ set => link.buf[3] = link.asked[2]
  <2>1. SlSet # SlGet
    BY SlUnitFacts
  <2> QED
    BY <1>1, <1>8, <1>9, <1>c, <2>1, SlRequestIs DEF SlClean, SlStates
<1>11. mem = SlOwed(link)
  <2> SUFFICES ASSUME NEW b \in SlPlaces
               PROVE  mem[b] = SlOwed(link)[b]
    BY <1>1, <1>2, SlOwedIs
  <2>1. (link.host = "set" /\ b = a) \/ link.mem[b] = SlOwed(link)[b]
    BY <1>8, <1>10 DEF SlWaiting
  <2>2. link.host = "set" => SlOwed(link)[a] = link.asked[2]
    BY <1>8, <1>10 DEF SlWaiting
  <2>3. CASE link.host = "set"
    BY <1>b, <1>10, <2>1, <2>2, <2>3
  <2>4. CASE link.host # "set"
    BY <1>b, <1>10, <2>1, <2>4
  <2> QED
    BY <2>3, <2>4
<1> DEFINE s == SlLine(link)
           r == SlLine(link')
           n == Len(s)
<1>12. /\ s \in Seq(SlUnit) /\ n \in Nat /\ Len(r) = n + 3
       /\ \A i \in 1 .. n : r[i] = s[i]
       /\ r[n + 2] = w /\ r[n + 3] = w
  <2>1. s \in Seq(SlUnit)
    BY <1>1, ConcatProperties DEF SlLine
  <2>b. PICK q \in Seq(SlUnit) : q = reply
    BY <1>3
  <2>2. r = s \o q
    <3>1. \A t, u \in Seq(SlUnit) : (t \o u) \o q = t \o (u \o q)
      BY ConcatAssociative
    <3>2. link'.tty = link.tty /\ link'.up = link.up \o q
      BY <1>6, <1>a, <2>b
    <3>3. r = link'.tty \o link'.up
      BY DEF SlLine
    <3>4. r = link.tty \o (link.up \o q)
      BY <3>2, <3>3, Zenon
    <3>5. s = link.tty \o link.up
      BY DEF SlLine
    <3> HIDE DEF s, r
    <3> QED
      BY <1>1, <3>1, <3>4, <3>5, Zenon
  <2>a. n = Len(s)
    OBVIOUS
  <2> HIDE DEF s, r, n
  <2>3. /\ Len(s \o q) = n + Len(q)
        /\ \A i \in 1 .. n : (s \o q)[i] = s[i]
        /\ \A i \in 1 .. Len(q) : (s \o q)[n + i] = q[i]
    BY <2>1, <2>a, SlEnds
  <2>4. Len(q) = 3 /\ q[2] = w /\ q[3] = w /\ 2 \in 1 .. Len(q) /\ 3 \in 1 .. Len(q)
    BY <1>3, <2>b
  <2>5. n \in Nat
    BY <2>1, <2>a
  <2> QED
    BY <2>1, <2>2, <2>3, <2>4, <2>5
<1>13. \A i \in 1 .. n : s[i] = SlFiller
  BY <1>8 DEF SlWaiting, SlFillers
<1>14. link'.down = <<>> /\ link'.buf = <<>> /\ link'.mem = SlOwed(link')
  BY <1>e, <1>6, <1>9, <1>11, <1>a
<1>d. r = SlLine(link')
  OBVIOUS
<1> HIDE DEF s, r, n
<1>15. CASE link.host = "set"
  <2>1. ASSUME NEW i \in 1 .. n + 3, i # n + 1
        PROVE  r[i] = SlFiller
    <3>1. w = SlFiller
      BY <1>b, <1>10, <1>15
    <3>2. i \in 1 .. n \/ i = n + 2 \/ i = n + 3
      BY <1>12, <2>1
    <3> QED
      BY <1>12, <1>13, <3>1, <3>2
  <2>2. n + 1 \in Nat
    BY <1>12
  <2>3. SlReplied(link')
    BY <1>e, <1>6, <1>12, <1>14, <1>15, <1>d, <2>1, <2>2 DEF SlReplied
  <2> QED
    BY <1>e, <1>6, <1>8, <2>3 DEF SlClean
<1>16. CASE link.host = "get"
  <2>1. w = SlOwed(link)[link.asked[1]]
    BY <1>b, <1>10, <1>11, <1>16
  <2>2. n \in 0 .. n + 3 /\ n + 3 <= n + 3
    BY <1>12
  <2>3. SlReplied(link')
    BY <1>e, <1>6, <1>12, <1>13, <1>14, <1>16, <1>d, <2>1, <2>2 DEF SlReplied
  <2> QED
    BY <1>e, <1>6, <1>8, <2>3 DEF SlClean
<1> QED
  BY <1>8, <1>15, <1>16

\* What is left on the line when the first k units are taken off the port.
LEMMA SlBehind ==
    ASSUME NEW A, NEW t \in Seq(A), NEW u \in Seq(A), NEW k \in 0 .. Len(t)
    PROVE  LET s == t \o u
               v == SubSeq(t, k + 1, Len(t))
               r == v \o u
           IN /\ v \in Seq(A) /\ Len(s) = Len(t) + Len(u)
              /\ Len(r) = Len(s) - k
              /\ \A i \in 1 .. Len(r) : r[i] = s[k + i]
<1> DEFINE n == Len(t)
           m == Len(u)
           s == t \o u
           v == SubSeq(t, k + 1, n)
<1>1. n \in Nat /\ m \in Nat /\ k \in Nat /\ k <= n
  OBVIOUS
<1>2. v \in Seq(A) /\ Len(v) = n - k /\ \A i \in 1 .. n - k : v[i] = t[k + i]
  <2>1. k + 1 \in Int /\ n \in Int /\ \A i \in k + 1 .. n : t[i] \in A
    BY <1>1
  <2>2. /\ v \in Seq(A) /\ Len(v) = IF k + 1 <= n THEN n - (k + 1) + 1 ELSE 0
        /\ \A i \in 1 .. n - (k + 1) + 1 : v[i] = t[(k + 1) + i - 1]
    BY <2>1, SubSeqProperties
  <2> HIDE DEF v, n
  <2>3. n - (k + 1) + 1 = n - k /\ (k + 1 <= n \/ n - k = 0)
    BY <1>1
  <2>4. ASSUME NEW i \in 1 .. n - k
        PROVE  v[i] = t[k + i]
    <3>1. (k + 1) + i - 1 = k + i /\ i \in 1 .. n - (k + 1) + 1
      BY <1>1
    <3> QED
      BY <2>2, <3>1
  <2> QED
    BY <2>2, <2>3, <2>4
<1>3. PICK w \in Seq(A) : w = v
  BY <1>2
<1>4. /\ Len(w \o u) = Len(w) + m
      /\ \A i \in 1 .. Len(w) : (w \o u)[i] = w[i]
      /\ \A i \in 1 .. m : (w \o u)[Len(w) + i] = u[i]
  BY SlEnds
<1>5. /\ Len(s) = n + m
      /\ \A i \in 1 .. n : s[i] = t[i]
      /\ \A i \in 1 .. m : s[n + i] = u[i]
  BY SlEnds
<1>6. w = v
  BY <1>3
<1> DEFINE r == w \o u
<1>7. r = v \o u
  BY <1>6
<1> HIDE DEF s, v, r, n, m
<1>8. Len(w) = n - k /\ \A i \in 1 .. n - k : w[i] = t[k + i]
  BY <1>2, <1>6
<1>9. Len(r) = (n - k) + m /\ Len(r) = Len(s) - k
  <2>1. Len(r) = (n - k) + m
    BY <1>4, <1>8 DEF r
  <2>2. (n - k) + m = (n + m) - k
    BY <1>1
  <2> QED
    BY <1>5, <2>1, <2>2
<1>10. ASSUME NEW i \in 1 .. (n - k) + m
       PROVE  r[i] = s[k + i]
  <2>1. CASE i <= n - k
    <3>1. i \in 1 .. n - k /\ k + i \in 1 .. n
      BY <1>1, <2>1
    <3> QED
      BY <1>4, <1>5, <1>8, <3>1 DEF r
  <2>2. CASE i > n - k
    <3> DEFINE j == i - (n - k)
    <3>1. j \in 1 .. m /\ i = (n - k) + j /\ k + i = n + j
      BY <1>1, <2>2
    <3> HIDE DEF j
    <3>2. r[(n - k) + j] = u[j] /\ s[n + j] = u[j]
      BY <1>4, <1>5, <1>8, <3>1 DEF r
    <3> QED
      BY <3>1, <3>2
  <2> QED
    BY <1>1, <2>1, <2>2
<1> QED
  BY <1>2, <1>5, <1>7, <1>9, <1>10 DEF n, m, s, v

LEMMA SlExits == SlSound(link) /\ link' = SlExit => SlSound(link')
<1> SUFFICES ASSUME SlSound(link), link' = SlExit
             PROVE  SlSound(link')
  OBVIOUS
<1> DEFINE e == <<>>
<1>1. link \in SlStates /\ e \in Seq(SlUnit) /\ link' = [link EXCEPT !.host = "exited", !.tty = e]
  BY DEF SlSound, SlExit
<1>a. e = <<>>
  OBVIOUS
<1> HIDE DEF e
<1>2. link' \in SlStates /\ link'.host = "exited" /\ link'.tty = e
  BY <1>1 DEF SlStates
<1> QED
  BY <1>2, <1>a DEF SlSound

\* A reply is read, whole or not.
LEMMA SlTakes ==
    ASSUME SlSound(link), link.host \in {"get", "set"}, SlIsOk(SlUnits), SlTaken(SlUnits)
    PROVE  SlSound(link')
<1>p. PICK t \in Seq(SlUnit), u \in Seq(SlUnit) : t = link.tty /\ u = link.up
  BY DEF SlSound, SlStates
<1> DEFINE k == Len(SlUnits)
           s == SlLine(link)
           n == Len(s)
           get == link.host = "get"
<1>1. /\ link \in SlStates /\ SlVal \subseteq SlUnit
      /\ SlGarbage \in SlUnit /\ link.answer \in SlUnit
  BY SlUnitFacts DEF SlSound, SlStates
<1>2. /\ k \in 1 .. Len(t) /\ k <= 5 /\ (k < 3 => k = Len(t)) /\ Len(t) \in Nat
      /\ \A i \in 1 .. k : SlUnits[i] = t[i]
      /\ SlUnits \in Seq(SlUnit)
      /\ t[1] = SlOk
  <2> DEFINE c == IF Len(t) < 5 THEN Len(t) ELSE 5
             v == SubSeq(t, 1, c)
  <2>1. Len(t) \in Nat /\ c \in 0 .. Len(t) /\ c <= 5 /\ (c < 5 => c = Len(t))
    BY <1>1
  <2>a. SlUnits = v
    BY <1>p DEF SlUnits
  <2> HIDE DEF c
  <2>2. v \in Seq(SlUnit) /\ Len(v) = c /\ \A i \in 1 .. c : v[i] = t[i]
    <3>1. 1 \in Int /\ c \in Int /\ \A i \in 1 .. c : t[i] \in SlUnit
      BY <1>1, <2>1
    <3>2. /\ v \in Seq(SlUnit) /\ Len(v) = IF 1 <= c THEN c - 1 + 1 ELSE 0
          /\ \A i \in 1 .. c - 1 + 1 : v[i] = t[1 + i - 1]
      BY <3>1, SubSeqProperties
    <3> HIDE DEF v
    <3>3. c - 1 + 1 = c /\ (1 <= c \/ c = 0) /\ \A i \in 1 .. c : 1 + i - 1 = i
      BY <2>1
    <3> QED
      BY <3>2, <3>3
  <2> HIDE DEF v
  <2>3. v # <<>> /\ Head(v) = SlOk
    BY <2>a DEF SlIsOk
  <2>4. c >= 1 /\ v[1] = SlOk
    BY <2>1, <2>2, <2>3
  <2>5. k = c
    BY <2>2, <2>a
  <2> HIDE DEF k
  <2> QED
    BY <2>1, <2>2, <2>4, <2>5, <2>a
<1>3. PICK w \in SlWords(SlUnits) :
         link' = [link EXCEPT !.host = "idle", !.tty = SubSeq(@, Len(SlUnits) + 1, Len(@)),
                     !.answer = IF link.host = "get" THEN w ELSE @,
                     !.torn = @ \/ (link.host = "get" /\ Len(SlUnits) < 3)]
  BY DEF SlTaken
<1>4. w \in SlUnit /\ (k >= 3 /\ SlUnits[2] = SlUnits[3] => w = SlUnits[2])
  BY <1>1, <1>2, <1>3 DEF SlWords
<1> DEFINE tty == SubSeq(t, k + 1, Len(t))
           answer == IF get THEN w ELSE link.answer
           torn == link.torn \/ (get /\ k < 3)
           r == tty \o u
<1>5. /\ tty \in Seq(SlUnit) /\ Len(s) = Len(t) + Len(u) /\ Len(r) = Len(s) - k
      /\ \A i \in 1 .. Len(r) : r[i] = s[k + i]
      /\ \A i \in 1 .. Len(t) : s[i] = t[i]
      /\ n \in Nat
  <2>1. k \in 0 .. Len(t)
    BY <1>2
  <2>a. PICK c \in 0 .. Len(t) : c = k
    BY <2>1
  <2> DEFINE v == SubSeq(t, c + 1, Len(t))
             x == t \o u
  <2>2. /\ v \in Seq(SlUnit) /\ Len(x) = Len(t) + Len(u)
        /\ Len(v \o u) = Len(x) - c
        /\ \A i \in 1 .. Len(v \o u) : (v \o u)[i] = x[c + i]
    BY SlBehind
  <2>3. \A i \in 1 .. Len(t) : x[i] = t[i]
    BY SlEnds
  <2>4. x = s /\ v = tty /\ v \o u = r
    BY <1>p, <2>a DEF SlLine
  <2>5. x \in Seq(SlUnit)
    BY SlEnds
  <2>6. n \in Nat
    BY <2>4, <2>5
  <2> DEFINE y == v \o u
  <2>7. y = r
    BY <2>4
  <2>8. Len(y) = Len(x) - c /\ \A i \in 1 .. Len(y) : y[i] = x[c + i]
    BY <2>2
  <2> HIDE DEF y, x, v, s, tty, k, r, n
  <2> QED
    BY <2>a, <2>2, <2>3, <2>4, <2>6, <2>7, <2>8
<1>6. link' = [link EXCEPT !.host = "idle", !.tty = tty, !.answer = answer, !.torn = torn]
  BY <1>1, <1>3, <1>p DEF SlStates
<1>7. answer \in SlUnit /\ torn \in BOOLEAN
  BY <1>1, <1>4 DEF SlStates
<1>a. /\ get => answer = w
      /\ ~get => answer = link.answer
      /\ ~torn => ~link.torn /\ (get => ~(k < 3))
  OBVIOUS
<1>b. r = tty \o u /\ s = SlLine(link)
  OBVIOUS
<1> HIDE DEF tty, answer, torn, r, s, k
<1>8. /\ link' \in SlStates /\ link'.host = "idle" /\ link'.tty = tty /\ link'.answer = answer
      /\ link'.torn = torn /\ link'.up = link.up /\ link'.asked = link.asked
      /\ link'.down = link.down /\ link'.buf = link.buf /\ link'.mem = link.mem
      /\ link'.view = link.view /\ link'.saved = link.saved /\ link'.dirty = link.dirty
      /\ link'.began = link.began /\ link'.wrote = link.wrote
  BY <1>1, <1>5, <1>6, <1>7 DEF SlStates
<1>d. SlOwed(link') = SlOwed(link) /\ SlKept(link') = SlKept(link)
  BY <1>8, SlOwedSame
<1>9. SUFFICES ASSUME ~link.dirty, ~torn
               PROVE  SlClean(link')
  BY <1>8 DEF SlSound
<1>10. SlClean(link) /\ SlOk # SlFiller
  BY <1>9, <1>a, SlUnitFacts DEF SlSound
<1>11. 1 \in 1 .. n /\ s[1] = SlOk
  <2> DEFINE lt == Len(t)
             lu == Len(u)
  <2>1. lt \in Nat /\ lu \in Nat /\ k \in 1 .. lt /\ n = lt + lu
    BY <1>2, <1>5
  <2> HIDE DEF lt, lu, n
  <2>2. 1 \in 1 .. lt /\ 1 \in 1 .. n
    BY <2>1
  <2> QED
    BY <1>2, <1>5, <2>2 DEF lt
<1>12. SlReplied(link)
  <2>1. ~SlWaiting(link)
    BY <1>10, <1>11, <1>b DEF SlWaiting, SlFillers
  <2> QED
    BY <1>10, <2>1 DEF SlClean
<1>13. SlLine(link') = r
  BY <1>8, <1>b, <1>p DEF SlLine
<1> DEFINE lt == Len(t)
<1>c. k \in Nat /\ k >= 1 /\ Len(r) = n - k /\ n = Len(s) /\ lt \in Nat /\ k <= lt
      /\ lt <= n /\ n \in Nat /\ lt = Len(t) /\ (k < 3 => k = lt)
  <2> DEFINE lu == Len(u)
  <2>1. lt \in Nat /\ lu \in Nat /\ k \in 1 .. lt /\ n = lt + lu /\ Len(r) = n - k
        /\ (k < 3 => k = lt) /\ n = Len(s) /\ lt = Len(t)
    BY <1>2, <1>5
  <2> HIDE DEF lt, lu, n
  <2> QED
    BY <2>1
<1> HIDE DEF n, lt
<1>14. CASE link.host = "set"
  <2>1. PICK m \in Nat : \A i \in 1 .. n : i # m => s[i] = SlFiller
    BY <1>12, <1>14, <1>b, <1>c DEF SlReplied
  <2>2. m = 1
    BY <1>10, <1>11, <2>1
  <2>3. ASSUME NEW i \in 1 .. n - k
        PROVE  r[i] = SlFiller
    <3>1. k + i \in 1 .. n /\ k + i # 1
      BY <1>c
    <3> QED
      BY <1>5, <1>c, <2>1, <2>2, <3>1
  <2>4. answer = SlGarbage
    BY <1>10, <1>14, <1>a DEF SlClean
  <2> QED
    BY <1>8, <1>d, <1>10, <1>12, <1>13, <1>c, <2>3, <2>4
       DEF SlClean, SlIdle, SlAnswered, SlReplied, SlFillers
<1>15. CASE link.host = "get"
  <2> DEFINE word == SlOwed(link)[link.asked[1]]
  <2>1. PICK m \in 0 .. n : /\ \A i \in 1 .. m : s[i] = SlFiller
                            /\ n <= m + 3
                            /\ n = m + 3 => s[m + 2] = word /\ s[m + 3] = word
    BY <1>12, <1>15, <1>b, <1>c DEF SlReplied
  <2> HIDE DEF word
  <2>2. m = 0
    <3>1. ~(1 \in 1 .. m)
      BY <1>10, <1>11, <2>1
    <3> QED
      BY <1>c, <3>1
  <2>3. k = 3 /\ n = 3 /\ lt = 3
    <3>1. ~(k < 3)
      BY <1>9, <1>15, <1>a
    <3> QED
      BY <1>c, <2>1, <2>2, <3>1
  <2>4. s[2] = word /\ s[3] = word
    BY <2>1, <2>2, <2>3
  <2>5. SlUnits[2] = word /\ SlUnits[3] = word
    <3>1. 2 \in 1 .. k /\ 3 \in 1 .. k /\ 2 \in 1 .. Len(t) /\ 3 \in 1 .. Len(t)
      BY <1>c, <2>3
    <3> QED
      BY <1>2, <1>5, <2>4, <3>1
  <2>6. answer = word
    BY <1>4, <1>15, <1>a, <2>3, <2>5
  <2>7. Len(r) = 0
    BY <1>c, <2>3
  <2>8. link.asked[1] # SlSaved
    BY <1>10, <1>15, SlUnitFacts DEF SlClean
  <2> QED
    BY <1>8, <1>d, <1>10, <1>12, <1>13, <2>6, <2>7, <2>8
       DEF SlClean, SlIdle, SlAnswered, SlReplied, SlFillers, word
<1> QED
  BY <1>14, <1>15

\* A new run on a quiet line begins clean.
LEMMA SlStarts == SlSound(link) /\ init_connector => SlSound(link')
<1> SUFFICES ASSUME SlSound(link), init_connector
             PROVE  SlSound(link')
  OBVIOUS
<1> DEFINE runs == link.runs + 1
           dirty == link.down # <<>> \/ link.up # <<>> \/ link.buf # <<>>
<1>1. link \in SlStates /\ link.host = "exited" /\ link.tty = <<>> /\ runs \in Nat /\ dirty \in BOOLEAN
  BY DEF SlSound, SlStates, init_connector
<1>2. link' = [link EXCEPT !.host = "idle", !.saved = 0, !.answer = SlGarbage, !.runs = runs,
                   !.view = link.mem, !.began = link.mem[SlSkipped], !.wrote = FALSE,
                   !.torn = FALSE, !.dirty = dirty]
  BY DEF init_connector
<1>a. ~dirty => link.down = <<>> /\ link.up = <<>> /\ link.buf = <<>>
  OBVIOUS
<1> HIDE DEF runs, dirty
<1>3. /\ link' \in SlStates /\ link'.host = "idle" /\ link'.saved = 0 /\ link'.answer = SlGarbage
      /\ link'.view = link.mem /\ link'.torn = FALSE /\ link'.dirty = dirty
      /\ link'.tty = link.tty /\ link'.up = link.up /\ link'.down = link.down
      /\ link'.buf = link.buf /\ link'.mem = link.mem
      /\ link'.began = link.mem[SlSkipped] /\ link'.wrote = FALSE
      /\ link.mem \in [SlPlaces -> SlUnit]
  BY <1>1, <1>2, SlUnitFacts DEF SlStates
<1>b. link'.mem = SlOwed(link') /\ SlKept(link') = 0
  <2> DEFINE owed == SlOwed(link')
  <2>1. /\ owed \in [SlPlaces -> SlUnit]
        /\ \A a \in SlPlaces : owed[a] = link.mem[a]
    BY <1>3, SlOwedIs
  <2> HIDE DEF owed
  <2>2. link.mem = owed
    BY <1>3, <2>1
  <2>3. SlKept(link') = 0
    BY <1>3 DEF SlKept
  <2> QED
    BY <1>3, <2>2, <2>3 DEF owed
<1>4. ~dirty => SlLine(link') = <<>>
  BY <1>1, <1>3, <1>a DEF SlLine
<1> QED
  BY <1>3, <1>4, <1>a, <1>b DEF SlSound, SlClean, SlIdle, SlAnswered, SlFillers

LEMMA SlSetsSound ==
    ASSUME SlSound(link), link.host = "idle",
           NEW a \in SlPlaces \ {SlSkipped}, NEW v \in SlVal, SlAsksToSet(a, v)
    PROVE  SlSound(link')
<1>1. link' = [link EXCEPT !.host = "set", !.asked = <<a, v>>, !.answer = SlGarbage,
                  !.down = @ \o <<SlSet, a, v>>, !.view[a] = v,
                  !.saved = IF a = SlShadowed THEN v ELSE @,
                  !.wrote = @ \/ a = SlShadowed]
  BY DEF SlAsksToSet
<1>2. /\ v \in SlUnit /\ link.saved \in SlUnit /\ link.wrote \in BOOLEAN
      /\ link.view \in [SlPlaces -> SlUnit] /\ a \in SlPlaces /\ a # SlSkipped
  BY SlUnitFacts DEF SlSound, SlStates
<1>3. PICK asked \in SlPlaces \X SlUnit : asked = <<a, v>>
  BY <1>2
<1>4. PICK view \in [SlPlaces -> SlUnit] : view = [link.view EXCEPT ![a] = v]
  BY <1>2
<1>5. PICK saved \in SlUnit : saved = (IF a = SlShadowed THEN v ELSE link.saved)
  BY <1>2
<1>6. PICK wrote \in BOOLEAN : wrote = (link.wrote \/ a = SlShadowed)
  BY <1>2
<1>7. PICK first \in {SlSet, SlGet} : first = SlSet /\ first # SlGet
  BY SlUnitFacts
<1>8. PICK host \in {"get", "set"} : host = "set"
  OBVIOUS
<1>9. PICK down : down = link.down \o <<first, a, v>>
  OBVIOUS
<1>10. link' = [link EXCEPT !.host = host, !.asked = asked, !.answer = SlGarbage,
                   !.down = down, !.view = view, !.saved = saved, !.wrote = wrote]
  BY <1>1, <1>3, <1>4, <1>5, <1>6, <1>7, <1>8, <1>9
<1>11. asked[1] = a /\ asked[2] = v
  BY <1>3
<1>12. /\ view[a] = v
       /\ \A b \in SlPlaces \ {a} : view[b] = link.view[b]
       /\ a = SlShadowed => saved = v /\ wrote = TRUE
       /\ a # SlShadowed => saved = link.saved /\ wrote = link.wrote
  BY <1>2, <1>4, <1>5, <1>6
<1>13. SlAsking(first, a, v, host, asked, down, view, saved, wrote)
  BY <1>2, <1>7, <1>8, <1>9, <1>10, <1>11, <1>12 DEF SlAsking
<1> QED
  BY <1>13, SlAsks

LEMMA SlNextSound == SlSound(link) /\ [SlNext]_link => SlSound(link')
<1> SUFFICES ASSUME SlSound(link), [SlNext]_link
             PROVE  SlSound(link')
  OBVIOUS
<1>1. CASE con_setval
  <2>1. CASE SlSkips
    BY <2>1, SlSkipsSound
  <2>2. CASE link.host = "idle" /\ \E a \in SlPlaces \ {SlSkipped}, v \in SlVal : SlAsksToSet(a, v)
    BY <2>2, SlSetsSound
  <2> QED
    BY <1>1, <2>1, <2>2 DEF con_setval
<1>2. CASE con_getval
  <2>1. PICK a \in SlPlaces \ {SlSaved} :
           link' = [link EXCEPT !.host = "get", !.asked = <<a, 0>>, !.answer = SlGarbage,
                      !.down = @ \o <<SlGet, a, SlFiller>>]
    BY <1>2 DEF con_getval
  <2>2. /\ a \in SlPlaces /\ link.host = "idle" /\ SlFiller \in SlUnit /\ 0 \in SlUnit
        /\ link.view \in [SlPlaces -> SlUnit] /\ link.saved \in SlUnit
        /\ SlGet # SlSet /\ link \in SlStates /\ a # SlSaved /\ link.wrote \in BOOLEAN
    BY <1>2, <2>1, SlUnitFacts DEF con_getval, SlSound, SlStates
  <2>3. PICK asked \in SlPlaces \X SlUnit : asked = <<a, 0>>
    BY <2>2
  <2>4. PICK first \in {SlSet, SlGet} : first = SlGet /\ first # SlSet
    BY <2>2
  <2>5. PICK host \in {"get", "set"} : host = "get"
    OBVIOUS
  <2>6. PICK v \in SlUnit : v = SlFiller
    BY <2>2
  <2>7. PICK down : down = link.down \o <<first, a, v>>
    OBVIOUS
  <2>8. link' = [link EXCEPT !.host = host, !.asked = asked, !.answer = SlGarbage,
                    !.down = down, !.view = link.view, !.saved = link.saved, !.wrote = link.wrote]
    BY <2>1, <2>2, <2>3, <2>4, <2>5, <2>6, <2>7 DEF SlStates
  <2>9. asked[1] = a
    BY <2>3
  <2>10. SlAsking(first, a, v, host, asked, down, link.view, link.saved, link.wrote)
    BY <2>2, <2>4, <2>5, <2>6, <2>7, <2>8, <2>9 DEF SlAsking
  <2> QED
    BY <2>2, <2>10, SlAsks
<1>3. CASE SlGetSaved
  BY <1>3, SlGetSavedSound
<1>4. CASE SlRead
  <2>1. link.host \in {"get", "set"}
    BY <1>4 DEF SlRead
  <2>2. link' = SlExit \/ (SlIsOk(SlUnits) /\ SlTaken(SlUnits))
    BY <1>4 DEF SlRead
  <2> QED
    BY <2>1, <2>2, SlExits, SlTakes
<1>5. CASE init_connector
  BY <1>5, SlStarts
<1>6. CASE SlArrives
  BY <1>6, SlArrivesSound
<1>7. CASE SlLoses
  <2>1. CASE link.down # <<>> /\ link' = [link EXCEPT !.down = Tail(@), !.lost = @ + 1]
    BY <2>1, SlLosesRequest
  <2>2. CASE link.up # <<>> /\ link' = [link EXCEPT !.up = Tail(@), !.lost = @ + 1]
    BY <2>2, SlLosesReply
  <2> QED
    BY <1>7, <2>1, <2>2 DEF SlLoses
<1>8. CASE SlInbyte
  BY <1>8, SlInbyteSound
<1>9. CASE SlParse
  BY <1>9, SlParseSound
<1>10. CASE UNCHANGED link
  BY <1>10
<1> QED
  BY <1>1, <1>2, <1>3, <1>4, <1>5, <1>6, <1>7, <1>8, <1>9, <1>10 DEF SlNext

(***************************************************************************)
(* The device behaves as the memory of the simulated firmware, whatever    *)
(* the line loses or delays: for every set of addresses and values, any    *)
(* number of units lost and of runs.                                       *)
(***************************************************************************)
THEOREM SlMemoryIsRemote == SlInit /\ [][SlNext]_link => []SlRemoteMemory
<1>1. SlSound(link) => SlRemoteMemory
  BY DEF SlSound, SlClean, SlIdle, SlAnswered, SlRemoteMemory
<1>2. SlSound(link) /\ [SlNext]_link => SlSound(link)'
  BY SlNextSound
<1> QED
  BY <1>1, <1>2, SlInitSound, PTL

----------------------------------------------------------------------------
(* The network interface and its connector                                 *)

MacAddr == MacRegs \cup {"start", "length", "status"}
MacWord == Int \cup MacVals
TapPieces == {"flags", "proto", "data"} \X Nat

TapStates ==
    [build : {"tap", "files"}, status : {"run", "exit"}, mem : Seq(MacAddr \X MacWord),
     reg : [MacRegs -> MacWord], txbuf : Nat, txlen : Nat, rxbuf : Seq(Int),
     pc : {<<>>, <<"data">>, <<"proto", "data">>, <<"flags", "proto", "data">>},
     fifo1 : Seq(Nat), fifo2 : Seq(TapPieces), conn : {"run", "exit"}, seen : MacWord,
     started : Seq(Nat), out : Seq(Seq(TapPieces)), sent : Seq(Nat), got : Seq(Seq(Int)),
     files : [0 .. TapFiles - 1 -> Nat], filenumber : 0 .. TapFiles - 1,
     raced : BOOLEAN, overtaken : BOOLEAN]

\* No address has two entries, so that the first of one is the only one.
MacSingle(mem) == \A i, j \in 1 .. Len(mem) : mem[i][1] = mem[j][1] => i = j

\* The registers read as they were last written.
MacSound(t) == t.status = "run" => \A r \in MacRegs : MacLoad(t, r) = t.reg[r]

\* The pipe to the connector, as long as every read has come in time: it holds the
\* part written of the packet under way, all of it, or so much that the next read
\* does not come in time.
TapUnderWay(t) ==
    LET m == Len(t.started)
    IN \/ Len(t.fifo2) > 3
       \/ Len(t.fifo2) = 3 /\ t.pc # <<>>
       \/ /\ m = Len(t.out) + 1
          /\ \/ t.pc = <<"flags", "proto", "data">> /\ t.fifo2 = <<>>
             \/ t.pc = <<"proto", "data">> /\ t.fifo2 = <<<<"flags", 0>>>>
             \/ t.pc = <<"data">> /\ t.fifo2 = <<<<"flags", 0>>, <<"proto", 0>>>>
             \/ t.pc = <<>> /\ t.fifo2 = TapWhole(t.started[m])
       \/ m = Len(t.out) /\ t.pc = <<>> /\ t.fifo2 = <<>>

TapSends(t) ==
    /\ t.pc # <<>> => Len(t.started) >= 1 /\ t.txlen = t.started[Len(t.started)]
    /\ ~t.raced =>
          /\ Len(t.out) <= Len(t.started)
          /\ \A i \in 1 .. Len(t.out) : t.out[i] = TapWhole(t.started[i])
          /\ TapUnderWay(t)

\* The packets of the host are those read, the one in rx_buffer and those in the
\* pipe, in this order.
TapReceives(t) ==
    LET here == IF MacLoad(t, "length") = 0 THEN 0 ELSE 1
    IN /\ Len(t.sent) = Len(t.got) + here + Len(t.fifo1)
       /\ \A i \in 1 .. Len(t.got) : t.got[i] = <<t.sent[i]>>
       /\ \A i \in 1 .. Len(t.fifo1) : t.fifo1[i] = t.sent[Len(t.got) + here + i]
       /\ t.seen \in {0, MacLoad(t, "length")}
       /\ here = 1 => /\ t.rxbuf = <<t.sent[Len(t.got) + 1]>>
                      /\ MacLoad(t, "length") = t.sent[Len(t.got) + 1]

\* Without the pipes there is nothing in them.
TapFiled(t) == t.fifo1 = <<>> /\ t.fifo2 = <<>> /\ t.pc = <<>> /\ t.out = <<>>

TapKeeps(t) ==
    /\ t.filenumber = Len(t.started) % TapFiles
    /\ \A i \in 1 .. Len(t.started) :
          i + TapFiles > Len(t.started) => t.files[(i - 1) % TapFiles] = t.started[i]

TapSound(t) ==
    /\ t \in TapStates
    /\ MacSingle(t.mem)
    /\ MacSound(t)
    /\ t.build = "tap" => TapSends(t)
    /\ t.build = "files" => TapFiled(t) /\ TapKeeps(t)
    /\ ~t.overtaken /\ t.status = "run" => TapReceives(t)

----------------------------------------------------------------------------
LEMMA MacSearchIs ==
    ASSUME NEW mem \in Seq(MacAddr \X MacWord), MacSingle(mem), NEW a
    PROVE  /\ \A i \in 1 .. Len(mem) : mem[i][1] = a => MacSearch(mem, a) = i
           /\ (\A i \in 1 .. Len(mem) : mem[i][1] # a) => MacSearch(mem, a) = 0
<1>1. DOMAIN mem = 1 .. Len(mem) /\ Len(mem) \in Nat
  OBVIOUS
<1>2. ASSUME NEW i \in 1 .. Len(mem), mem[i][1] = a
      PROVE  MacSearch(mem, a) = i
  <2> DEFINE P(k) == mem[k][1] = a /\ \A j \in 1 .. k - 1 : mem[j][1] # a
  <2>1. P(i)
    BY <1>1, <1>2 DEF MacSingle
  <2>2. \A k \in 1 .. Len(mem) : P(k) => k = i
    BY <1>2 DEF MacSingle
  <2>3. MacSearch(mem, a) = CHOOSE k \in DOMAIN mem : P(k)
    BY <1>1, <1>2 DEF MacSearch
  <2> HIDE DEF P
  <2> QED
    BY <1>1, <2>1, <2>2, <2>3
<1>3. ASSUME \A i \in 1 .. Len(mem) : mem[i][1] # a
      PROVE  MacSearch(mem, a) = 0
  BY <1>1, <1>3 DEF MacSearch
<1> QED
  BY <1>2, <1>3

\* What a table holds at an address.
MacHolds(mem, a, v) ==
    \/ \E i \in 1 .. Len(mem) : mem[i][1] = a /\ mem[i][2] = v
    \/ v = 0 /\ \A i \in 1 .. Len(mem) : mem[i][1] # a

LEMMA MacLoadIs ==
    ASSUME NEW t, t.mem \in Seq(MacAddr \X MacWord), MacSingle(t.mem), NEW a, NEW v,
           MacHolds(t.mem, a, v)
    PROVE  MacLoad(t, a) = v
<1>1. CASE \E i \in 1 .. Len(t.mem) : t.mem[i][1] = a /\ t.mem[i][2] = v
  <2>1. PICK i \in 1 .. Len(t.mem) : t.mem[i][1] = a /\ t.mem[i][2] = v
    BY <1>1
  <2>2. MacSearch(t.mem, a) = i /\ i # 0
    BY <2>1, MacSearchIs
  <2> QED
    BY <2>1, <2>2 DEF MacLoad
<1>2. CASE v = 0 /\ \A i \in 1 .. Len(t.mem) : t.mem[i][1] # a
  <2>1. MacSearch(t.mem, a) = 0
    BY <1>2, MacSearchIs
  <2> QED
    BY <1>2, <2>1 DEF MacLoad
<1> QED
  BY <1>1, <1>2 DEF MacHolds

LEMMA MacLoaded ==
    ASSUME NEW t, t.mem \in Seq(MacAddr \X MacWord), MacSingle(t.mem), NEW a
    PROVE  MacHolds(t.mem, a, MacLoad(t, a)) /\ MacLoad(t, a) \in MacWord
<1>1. CASE \E i \in 1 .. Len(t.mem) : t.mem[i][1] = a
  <2>1. PICK i \in 1 .. Len(t.mem) : t.mem[i][1] = a
    BY <1>1
  <2>2. MacSearch(t.mem, a) = i /\ i # 0 /\ t.mem[i] \in MacAddr \X MacWord
    BY <2>1, MacSearchIs, ElementOfSeq
  <2>3. MacLoad(t, a) = t.mem[i][2]
    BY <2>2 DEF MacLoad
  <2> QED
    BY <2>1, <2>2, <2>3 DEF MacHolds
<1>2. CASE \A i \in 1 .. Len(t.mem) : t.mem[i][1] # a
  <2>1. MacSearch(t.mem, a) = 0
    BY <1>2, MacSearchIs
  <2> QED
    BY <1>2, <2>1 DEF MacLoad, MacHolds, MacWord
<1> QED
  BY <1>1, <1>2

\* What save does: the register has the value, the others keep theirs, and nothing
\* else changes, unless the table was full.
MacSaves(t, u, a, v) ==
    /\ u \in TapStates
    /\ MacSingle(u.mem)
    /\ u.status = "run" =>
          /\ t.status = "run"
          /\ MacLoad(u, a) = v
          /\ \A b \in MacAddr \ {a} : MacLoad(u, b) = MacLoad(t, b)
    /\ u.build = t.build /\ u.reg = t.reg /\ u.txbuf = t.txbuf /\ u.txlen = t.txlen
    /\ u.rxbuf = t.rxbuf /\ u.pc = t.pc /\ u.fifo1 = t.fifo1 /\ u.fifo2 = t.fifo2
    /\ u.conn = t.conn /\ u.seen = t.seen /\ u.started = t.started /\ u.out = t.out
    /\ u.sent = t.sent /\ u.got = t.got /\ u.files = t.files
    /\ u.filenumber = t.filenumber /\ u.raced = t.raced /\ u.overtaken = t.overtaken

LEMMA MacSaveIs ==
    ASSUME NEW t \in TapStates, MacSingle(t.mem), NEW a \in MacAddr, NEW v \in MacWord
    PROVE  MacSaves(t, MacSave(t, a, v), a, v)
<1> DEFINE u == MacSave(t, a, v)
           n == Len(t.mem)
           pos == MacSearch(t.mem, a)
           e == <<a, v>>
<1> SUFFICES MacSaves(t, u, a, v)
  OBVIOUS
<1>1. t.mem \in Seq(MacAddr \X MacWord) /\ n \in Nat /\ e \in MacAddr \X MacWord
  BY DEF TapStates
<1>2. ASSUME NEW mem \in Seq(MacAddr \X MacWord), MacSingle(mem), u = [t EXCEPT !.mem = mem],
             MacHolds(mem, a, v),
             \A b \in MacAddr \ {a} : \A w : MacHolds(t.mem, b, w) => MacHolds(mem, b, w)
      PROVE  MacSaves(t, u, a, v)
  <2> HIDE DEF u
  <2>1. u \in TapStates /\ u.mem = mem
    BY <1>2 DEF TapStates
  <2>2. MacLoad(u, a) = v
    BY <1>2, <2>1, MacLoadIs
  <2>3. ASSUME NEW b \in MacAddr \ {a}
        PROVE  MacLoad(u, b) = MacLoad(t, b)
    <3>1. MacHolds(mem, b, MacLoad(t, b))
      BY <1>1, <1>2, MacLoaded
    <3> QED
      BY <1>2, <2>1, <3>1, MacLoadIs
  <2>4. /\ u.status = t.status /\ u.build = t.build /\ u.reg = t.reg /\ u.txbuf = t.txbuf
        /\ u.txlen = t.txlen /\ u.rxbuf = t.rxbuf /\ u.pc = t.pc /\ u.fifo1 = t.fifo1
        /\ u.fifo2 = t.fifo2 /\ u.conn = t.conn /\ u.seen = t.seen /\ u.started = t.started
        /\ u.out = t.out /\ u.sent = t.sent /\ u.got = t.got /\ u.files = t.files
        /\ u.filenumber = t.filenumber /\ u.raced = t.raced /\ u.overtaken = t.overtaken
    BY <1>2 DEF TapStates
  <2> QED
    BY <1>2, <2>1, <2>2, <2>3, <2>4 DEF MacSaves
<1>3. CASE \E i \in 1 .. n : t.mem[i][1] = a
  <2>1. PICK i \in 1 .. n : t.mem[i][1] = a
    BY <1>3
  <2>2. pos = i /\ pos # 0
    BY <1>1, <2>1, MacSearchIs
  <2> DEFINE mem == [t.mem EXCEPT ![i] = e]
  <2>3. u = [t EXCEPT !.mem = mem]
    <3>1. u = [t EXCEPT !.mem[pos] = <<a, v>>]
      BY <2>2 DEF MacSave
    <3> QED
      BY <2>2, <3>1 DEF TapStates
  <2>4. /\ mem \in Seq(MacAddr \X MacWord) /\ Len(mem) = n
        /\ \A j \in 1 .. n : mem[j] = IF j = i THEN e ELSE t.mem[j]
    BY <1>1, <2>1, ExceptSeq
  <2> HIDE DEF mem, u, e, n
  <2>5. \A j \in 1 .. n : mem[j][1] = t.mem[j][1] /\ (j # i => mem[j] = t.mem[j])
    BY <2>1, <2>4 DEF e
  <2>6. MacSingle(mem)
    BY <2>4, <2>5 DEF MacSingle, n
  <2>7. MacHolds(mem, a, v)
    BY <2>1, <2>4 DEF MacHolds, e
  <2>8. ASSUME NEW b \in MacAddr \ {a}, NEW w, MacHolds(t.mem, b, w)
        PROVE  MacHolds(mem, b, w)
    <3>1. CASE \E j \in 1 .. n : t.mem[j][1] = b /\ t.mem[j][2] = w
      <4>1. PICK j \in 1 .. n : t.mem[j][1] = b /\ t.mem[j][2] = w
        BY <3>1
      <4>2. j # i
        BY <2>1, <4>1
      <4> QED
        BY <2>4, <2>5, <4>1, <4>2 DEF MacHolds
    <3>2. CASE w = 0 /\ \A j \in 1 .. n : t.mem[j][1] # b
      BY <2>4, <2>5, <3>2 DEF MacHolds
    <3> QED
      BY <2>8, <3>1, <3>2 DEF MacHolds, n
  <2> QED
    BY <1>2, <2>3, <2>4, <2>6, <2>7, <2>8
<1>4. CASE \A i \in 1 .. n : t.mem[i][1] # a
  <2>1. pos = 0
    BY <1>1, <1>4, MacSearchIs
  <2>2. CASE n < MacMem
    <3> DEFINE mem == Append(t.mem, e)
    <3>1. u = [t EXCEPT !.mem = mem]
      BY <2>1, <2>2 DEF MacSave, TapStates
    <3>2. /\ mem \in Seq(MacAddr \X MacWord) /\ Len(mem) = n + 1 /\ mem[n + 1] = e
          /\ \A j \in 1 .. n : mem[j] = t.mem[j]
      BY <1>1, AppendProperties
    <3>a. e[1] = a /\ e[2] = v
      OBVIOUS
    <3>b. n = Len(t.mem)
      OBVIOUS
    <3> HIDE DEF mem, u, n, e
    <3>3. MacSingle(mem)
      <4> SUFFICES ASSUME NEW j \in 1 .. n + 1, NEW k \in 1 .. n + 1, mem[j][1] = mem[k][1]
                   PROVE  j = k
        BY <3>2 DEF MacSingle
      <4>1. (j \in 1 .. n \/ j = n + 1) /\ (k \in 1 .. n \/ k = n + 1)
        BY <1>1
      <4> QED
        BY <1>4, <3>2, <3>a, <3>b, <4>1 DEF MacSingle
    <3>4. MacHolds(mem, a, v)
      <4>1. n + 1 \in 1 .. n + 1
        BY <1>1
      <4> QED
        BY <3>2, <3>a, <4>1 DEF MacHolds
    <3>5. ASSUME NEW b \in MacAddr \ {a}, NEW w, MacHolds(t.mem, b, w)
          PROVE  MacHolds(mem, b, w)
      <4>1. \A j \in 1 .. n + 1 : j \in 1 .. n \/ j = n + 1
        BY <1>1
      <4>2. CASE \E j \in 1 .. n : t.mem[j][1] = b /\ t.mem[j][2] = w
        <5>1. PICK j \in 1 .. n : t.mem[j][1] = b /\ t.mem[j][2] = w
          BY <4>2
        <5>2. j \in 1 .. n + 1
          BY <1>1
        <5> QED
          BY <3>2, <5>1, <5>2 DEF MacHolds
      <4>3. CASE w = 0 /\ \A j \in 1 .. n : t.mem[j][1] # b
        BY <3>2, <3>a, <4>1, <4>3 DEF MacHolds
      <4> QED
        BY <3>5, <3>b, <4>2, <4>3 DEF MacHolds
    <3> QED
      BY <1>2, <3>1, <3>2, <3>3, <3>4, <3>5
  <2>3. CASE ~(n < MacMem)
    <3>1. u = [t EXCEPT !.status = "exit"]
      BY <2>1, <2>3 DEF MacSave
    <3> HIDE DEF u
    <3>2. u \in TapStates /\ u.status = "exit" /\ u.mem = t.mem
      BY <3>1 DEF TapStates
    <3>3. /\ u.build = t.build /\ u.reg = t.reg /\ u.txbuf = t.txbuf
          /\ u.txlen = t.txlen /\ u.rxbuf = t.rxbuf /\ u.pc = t.pc /\ u.fifo1 = t.fifo1
          /\ u.fifo2 = t.fifo2 /\ u.conn = t.conn /\ u.seen = t.seen /\ u.started = t.started
          /\ u.out = t.out /\ u.sent = t.sent /\ u.got = t.got /\ u.files = t.files
          /\ u.filenumber = t.filenumber /\ u.raced = t.raced /\ u.overtaken = t.overtaken
      BY <3>1 DEF TapStates
    <3> QED
      BY <3>2, <3>3 DEF MacSaves
  <2> QED
    BY <2>2, <2>3
<1> QED
  BY <1>3, <1>4

----------------------------------------------------------------------------
(* Remainders, for the numbers of the files.                               *)

LEMMA ModIs == ASSUME NEW s \in Nat \ {0}, NEW x \in Nat
  PROVE /\ x % s \in 0 .. s - 1 /\ x \div s \in Nat /\ x = s * (x \div s) + (x % s)
  BY Z3T(30)

LEMMA TimesNat == ASSUME NEW s \in Nat, NEW q \in Nat PROVE s * q \in Nat
  BY SMTT(30)

LEMMA ModOf == ASSUME NEW s \in Nat \ {0}, NEW q \in Nat, NEW r \in 0 .. s - 1
  PROVE (s * q + r) % s = r
  BY SMTT(30)

LEMMA TimesStep == ASSUME NEW s \in Nat, NEW q \in Nat
  PROVE s * (q + 1) = s * q + s
  BY SMTT(30)

LEMMA TimesLess == ASSUME NEW s \in Nat \ {0}, NEW p \in Nat, NEW q \in Nat, p < q
  PROVE s * p + s <= s * q
  BY SMTT(30)

LEMMA NextSlot ==
    ASSUME NEW s \in Nat \ {0}, NEW x \in Nat
    PROVE  ((x % s) + 1) % s = (x + 1) % s
<1> DEFINE r == x % s
           q == x \div s
           y == s * q
<1>1. r \in 0 .. s - 1 /\ q \in Nat /\ x = y + r /\ y \in Nat
  <2>1. r \in 0 .. s - 1 /\ q \in Nat /\ x = y + r
    BY ModIs
  <2> HIDE DEF r, q
  <2> QED
    BY <2>1, TimesNat
<1>2. CASE r + 1 < s
  <2>1. r + 1 \in 0 .. s - 1
    BY <1>1, <1>2
  <2>2. (y + (r + 1)) % s = r + 1
    BY <1>1, <2>1, ModOf
  <2>3. (s * 0 + (r + 1)) % s = r + 1
    BY <2>1, ModOf
  <2> HIDE DEF r, q, y
  <2>4. s * 0 + (r + 1) = r + 1 /\ y + (r + 1) = x + 1
    BY <1>1
  <2>5. (r + 1) % s = r + 1 /\ (x + 1) % s = r + 1
    BY <2>2, <2>3, <2>4
  <2> QED
    BY <2>5 DEF r
<1>3. CASE r + 1 = s
  <2>1. 0 \in 0 .. s - 1 /\ 1 \in Nat /\ q + 1 \in Nat
    BY <1>1
  <2>2. (s * (q + 1) + 0) % s = 0 /\ (s * 1 + 0) % s = 0
    BY <2>1, ModOf
  <2>3. s * (q + 1) = y + s
    BY <1>1, TimesStep
  <2> HIDE DEF r, q, y
  <2>4. y + s + 0 = x + 1 /\ s * 1 + 0 = r + 1
    BY <1>1, <1>3
  <2>5. (r + 1) % s = 0 /\ (x + 1) % s = 0
    BY <2>2, <2>3, <2>4
  <2> QED
    BY <2>5 DEF r
<1> QED
  BY <1>1, <1>2, <1>3

LEMMA SlotsApart ==
    ASSUME NEW s \in Nat \ {0}, NEW x \in Nat, NEW y \in Nat, x < y, y < x + s
    PROVE  x % s # y % s
<1> DEFINE r == x % s
           p == x \div s
           q == y \div s
           a == s * p
           b == s * q
<1> SUFFICES ASSUME y % s = r
             PROVE  FALSE
  OBVIOUS
<1>1. /\ r \in 0 .. s - 1 /\ p \in Nat /\ q \in Nat /\ a \in Nat /\ b \in Nat
      /\ x = a + r /\ y = b + r
  <2>1. /\ r \in 0 .. s - 1 /\ p \in Nat /\ q \in Nat
        /\ x = a + r /\ y = b + r
    BY ModIs
  <2> HIDE DEF r, p, q
  <2> QED
    BY <2>1, TimesNat
<1>2. p < q => a + s <= b
  BY <1>1, TimesLess
<1>3. q < p => b + s <= a
  BY <1>1, TimesLess
<1>4. p = q => a = b
  OBVIOUS
<1> HIDE DEF r, p, q, a, b
<1> QED
  BY <1>1, <1>2, <1>3, <1>4

----------------------------------------------------------------------------
LEMMA TapInitSound == TapInit => TapSound(tap)
<1> SUFFICES ASSUME TapInit
             PROVE  TapSound(tap)
  OBVIOUS
<1> DEFINE e == <<>>
           reg == [r \in MacRegs |-> 0]
           files == [n \in 0 .. TapFiles - 1 |-> 0]
<1>1. PICK b \in TapBuilds :
         tap = [build |-> b, status |-> "run", mem |-> e, reg |-> reg,
                txbuf |-> 0, txlen |-> 0, rxbuf |-> e, pc |-> e, fifo1 |-> e, fifo2 |-> e,
                conn |-> "run", seen |-> 0, started |-> e, out |-> e, sent |-> e, got |-> e,
                files |-> files, filenumber |-> 0, raced |-> FALSE, overtaken |-> FALSE]
  BY DEF TapInit
<1>2. /\ e \in Seq(MacAddr \X MacWord) /\ e \in Seq(Int) /\ e \in Seq(Nat)
      /\ e \in Seq(TapPieces) /\ e \in Seq(Seq(TapPieces)) /\ e \in Seq(Seq(Int)) /\ e = <<>>
      /\ Len(e) = 0
  OBVIOUS
<1>3. /\ reg \in [MacRegs -> MacWord] /\ files \in [0 .. TapFiles - 1 -> Nat] /\ 0 \in MacWord
      /\ b \in {"tap", "files"} /\ 0 \in 0 .. TapFiles - 1
      /\ \A r \in MacRegs : reg[r] = 0
  BY <1>1, TapAssumption DEF MacWord
<1> HIDE DEF e, reg, files
<1>4. /\ tap.mem = e /\ tap.pc = e /\ tap.fifo1 = e /\ tap.fifo2 = e /\ tap.started = e
      /\ tap.out = e /\ tap.sent = e /\ tap.got = e /\ tap.seen = 0 /\ tap.filenumber = 0
      /\ tap.reg = reg
  BY <1>1
<1>5. tap \in TapStates
  <2>1. e \in {<<>>, <<"data">>, <<"proto", "data">>, <<"flags", "proto", "data">>}
    BY <1>2
  <2> QED
    BY <1>1, <1>2, <1>3, <2>1 DEF TapStates
<1>6. MacSingle(tap.mem)
  BY <1>2, <1>4 DEF MacSingle
<1>7. \A a : MacLoad(tap, a) = 0
  <2>1. \A a : MacHolds(tap.mem, a, 0)
    BY <1>2, <1>4 DEF MacHolds
  <2> QED
    BY <1>2, <1>4, <1>6, <2>1, MacLoadIs
<1>8. MacSound(tap)
  BY <1>3, <1>4, <1>7 DEF MacSound
<1>9. TapSends(tap)
  BY <1>2, <1>4 DEF TapSends, TapUnderWay
<1>10. TapKeeps(tap)
  <2>1. 0 % TapFiles = 0
    BY TapAssumption
  <2> QED
    BY <1>2, <1>4, <2>1 DEF TapKeeps
<1>11. TapReceives(tap)
  BY <1>2, <1>4, <1>7 DEF TapReceives
<1> QED
  BY <1>2, <1>4, <1>5, <1>6, <1>8, <1>9, <1>10, <1>11 DEF TapSound, TapFiled

\* What each part of the invariant depends on.
TapSameSends(t, u) ==
    /\ u.pc = t.pc /\ u.started = t.started /\ u.txlen = t.txlen /\ u.out = t.out
    /\ u.raced = t.raced /\ u.fifo2 = t.fifo2

TapSameKeeps(t, u) ==
    u.filenumber = t.filenumber /\ u.started = t.started /\ u.files = t.files

TapSameReceives(t, u) ==
    /\ u.sent = t.sent /\ u.got = t.got /\ u.fifo1 = t.fifo1 /\ u.seen = t.seen
    /\ u.rxbuf = t.rxbuf

LEMMA TapSame ==
    ASSUME NEW t, NEW u
    PROVE  /\ TapSends(t) /\ TapSameSends(t, u) => TapSends(u)
           /\ TapFiled(t) /\ TapSameSends(t, u) /\ u.fifo1 = t.fifo1 => TapFiled(u)
           /\ TapKeeps(t) /\ TapSameKeeps(t, u) => TapKeeps(u)
           /\ TapReceives(t) /\ TapSameReceives(t, u)
                 /\ MacLoad(u, "length") = MacLoad(t, "length") => TapReceives(u)
<1>1. TapSends(t) /\ TapSameSends(t, u) => TapSends(u)
  BY DEF TapSends, TapSameSends, TapUnderWay
<1>4. TapFiled(t) /\ TapSameSends(t, u) /\ u.fifo1 = t.fifo1 => TapFiled(u)
  BY DEF TapFiled, TapSameSends
<1>2. TapKeeps(t) /\ TapSameKeeps(t, u) => TapKeeps(u)
  BY DEF TapKeeps, TapSameKeeps
<1>3. TapReceives(t) /\ TapSameReceives(t, u) /\ MacLoad(u, "length") = MacLoad(t, "length")
          => TapReceives(u)
  BY DEF TapReceives, TapSameReceives
<1> QED
  BY <1>1, <1>2, <1>3, <1>4

LEMMA MacSameMem ==
    ASSUME NEW t, NEW u, u.mem = t.mem
    PROVE  \A a : MacLoad(u, a) = MacLoad(t, a)
  BY DEF MacLoad

LEMMA MacWriteSound == TapSound(tap) /\ MacWrite => TapSound(tap')
<1> SUFFICES ASSUME TapSound(tap), MacWrite
             PROVE  TapSound(tap')
  OBVIOUS
<1>1. PICK r \in MacRegs, v \in MacVals : tap' = [MacSave(tap, r, v) EXCEPT !.reg[r] = v]
  BY DEF MacWrite
<1> DEFINE u == MacSave(tap, r, v)
           reg == [u.reg EXCEPT ![r] = v]
<1>2. tap \in TapStates /\ MacSingle(tap.mem) /\ MacSound(tap) /\ r \in MacAddr /\ v \in MacWord
  BY DEF TapSound, MacAddr, MacWord
<1>3. MacSaves(tap, u, r, v)
  BY <1>2, MacSaveIs
<1>4. tap' = [u EXCEPT !.reg = reg]
  BY <1>1
<1> HIDE DEF u
<1>5. u \in TapStates /\ reg \in [MacRegs -> MacWord]
      /\ \A q \in MacRegs : reg[q] = IF q = r THEN v ELSE tap.reg[q]
  BY <1>2, <1>3 DEF MacSaves, TapStates
<1> HIDE DEF reg
<1>6. tap' \in TapStates /\ tap'.reg = reg /\ tap'.mem = u.mem /\ tap'.status = u.status
  BY <1>4, <1>5 DEF TapStates
<1>7. /\ TapSameSends(tap, tap') /\ TapSameKeeps(tap, tap') /\ TapSameReceives(tap, tap')
      /\ tap'.overtaken = tap.overtaken /\ tap'.build = tap.build
  <2>1. /\ tap'.build = u.build /\ tap'.txlen = u.txlen
        /\ tap'.rxbuf = u.rxbuf /\ tap'.pc = u.pc /\ tap'.fifo1 = u.fifo1 /\ tap'.fifo2 = u.fifo2
        /\ tap'.seen = u.seen /\ tap'.started = u.started /\ tap'.out = u.out
        /\ tap'.sent = u.sent /\ tap'.got = u.got /\ tap'.files = u.files
        /\ tap'.filenumber = u.filenumber /\ tap'.raced = u.raced
        /\ tap'.overtaken = u.overtaken
    BY <1>4, <1>5 DEF TapStates
  <2> QED
    BY <1>3, <2>1 DEF TapSameSends, TapSameKeeps, TapSameReceives, MacSaves
<1>8. \A a : MacLoad(tap', a) = MacLoad(u, a)
  BY <1>6, MacSameMem
<1>9. MacSound(tap')
  <2> SUFFICES ASSUME tap'.status = "run", NEW q \in MacRegs
               PROVE  MacLoad(tap', q) = reg[q]
    BY <1>6 DEF MacSound
  <2>1. q = r \/ q \in MacAddr \ {r}
    BY DEF MacAddr
  <2> QED
    BY <1>2, <1>3, <1>5, <1>6, <1>8, <2>1 DEF MacSaves, MacSound
<1>10. tap'.status = "run" => tap.status = "run" /\ MacLoad(tap', "length") = MacLoad(tap, "length")
  <2>1. "length" \in MacAddr \ {r}
    BY TapAssumption DEF MacAddr
  <2> QED
    BY <1>3, <1>6, <1>8, <2>1 DEF MacSaves
<1>11. MacSingle(tap'.mem)
  BY <1>3, <1>6 DEF MacSaves
<1> QED
  BY <1>6, <1>7, <1>9, <1>10, <1>11, TapSame DEF TapSound, TapSameReceives

LEMMA MacLengthSound == TapSound(tap) /\ (MacFill \/ MacLength) => TapSound(tap')
<1> SUFFICES ASSUME TapSound(tap), MacFill \/ MacLength
             PROVE  TapSound(tap')
  OBVIOUS
<1>1. tap \in TapStates /\ tap.pc = <<>>
  BY DEF TapSound, TapFirmware, MacFill, MacLength
<1>2. PICK buf \in Nat, len \in Nat : tap' = [tap EXCEPT !.txbuf = buf, !.txlen = len]
  <2>1. CASE MacFill
    <3>1. tap.txbuf + 1 \in Nat /\ tap.txlen \in Nat
      BY <1>1 DEF TapStates
    <3>2. tap' = [tap EXCEPT !.txbuf = tap.txbuf + 1, !.txlen = tap.txlen]
      BY <1>1, <2>1 DEF MacFill, TapStates
    <3> QED
      BY <3>1, <3>2
  <2>2. CASE MacLength
    <3>1. tap.txbuf \in Nat
      BY <1>1 DEF TapStates
    <3>2. tap' = [tap EXCEPT !.txbuf = tap.txbuf, !.txlen = tap.txbuf]
      BY <1>1, <2>2 DEF MacLength, TapStates
    <3> QED
      BY <3>1, <3>2
  <2> QED
    BY <2>1, <2>2
<1>3. /\ tap' \in TapStates /\ tap'.build = tap.build /\ tap'.reg = tap.reg
      /\ tap'.rxbuf = tap.rxbuf /\ tap'.pc = tap.pc /\ tap'.fifo1 = tap.fifo1
      /\ tap'.fifo2 = tap.fifo2 /\ tap'.mem = tap.mem /\ tap'.status = tap.status
      /\ tap'.seen = tap.seen /\ tap'.started = tap.started /\ tap'.out = tap.out
      /\ tap'.sent = tap.sent /\ tap'.got = tap.got /\ tap'.files = tap.files
      /\ tap'.filenumber = tap.filenumber /\ tap'.raced = tap.raced
      /\ tap'.overtaken = tap.overtaken
  BY <1>1, <1>2 DEF TapStates
<1>4. /\ tap.build = "tap" => TapSends(tap')
      /\ tap.build = "files" => TapFiled(tap')
  BY <1>1, <1>3 DEF TapSound, TapSends, TapUnderWay, TapFiled
<1>5. TapSameKeeps(tap, tap') /\ TapSameReceives(tap, tap') /\ \A a : MacLoad(tap', a) = MacLoad(tap, a)
  BY <1>3, MacSameMem DEF TapSameKeeps, TapSameReceives
<1> QED
  BY <1>3, <1>4, <1>5, TapSame DEF TapSound, MacSound

\* A packet starts: it is written to a file, or its way through the pipe begins.
LEMMA MacStartSound == TapSound(tap) /\ MacStart => TapSound(tap')
<1> SUFFICES ASSUME TapSound(tap), MacStart
             PROVE  TapSound(tap')
  OBVIOUS
<1> DEFINE started == Append(tap.started, tap.txbuf)
           m == Len(tap.started)
           whole == <<"flags", "proto", "data">>
           n == tap.filenumber
           files == [tap.files EXCEPT ![n] = tap.txlen]
           next == (n + 1) % TapFiles
<1>1. /\ tap \in TapStates /\ tap.pc = <<>> /\ tap.txlen = tap.txbuf /\ tap.txbuf \in Nat
      /\ tap.started \in Seq(Nat) /\ m \in Nat /\ n \in 0 .. TapFiles - 1
      /\ tap.files \in [0 .. TapFiles - 1 -> Nat] /\ TapFiles \in Nat \ {0}
      /\ tap.build \in {"tap", "files"}
  BY TapAssumption DEF TapSound, TapFirmware, MacStart, TapStates
<1>2. /\ started \in Seq(Nat) /\ Len(started) = m + 1 /\ started[m + 1] = tap.txbuf
      /\ \A i \in 1 .. m : started[i] = tap.started[i]
  BY <1>1, AppendProperties
<1>3. /\ files \in [0 .. TapFiles - 1 -> Nat] /\ next \in 0 .. TapFiles - 1
      /\ files[n] = tap.txlen /\ \A i \in 0 .. TapFiles - 1 : i # n => files[i] = tap.files[i]
  BY <1>1
<1>4. \/ tap.build = "files"
         /\ tap' = [tap EXCEPT !.started = started, !.files = files, !.filenumber = next]
      \/ tap.build = "tap" /\ tap' = [tap EXCEPT !.started = started, !.pc = whole]
  <2>1. CASE tap.build = "files"
    <3>1. tap' = MacSaveTx([tap EXCEPT !.started = started])
      BY <2>1 DEF MacStart
    <3> QED
      BY <1>1, <2>1, <3>1 DEF MacSaveTx, TapStates
  <2>2. CASE tap.build = "tap"
    BY <2>2 DEF MacStart
  <2> QED
    BY <1>1, <2>1, <2>2
<1>a. next = (n + 1) % TapFiles /\ whole = <<"flags", "proto", "data">> /\ whole # <<>>
  OBVIOUS
<1> HIDE DEF started, whole, files, next
<1>5. /\ tap' \in TapStates /\ tap'.started = started /\ tap'.txlen = tap.txlen
      /\ tap'.out = tap.out /\ tap'.raced = tap.raced /\ tap'.fifo2 = tap.fifo2
      /\ tap'.mem = tap.mem /\ tap'.reg = tap.reg /\ tap'.status = tap.status
      /\ tap'.build = tap.build /\ tap'.fifo1 = tap.fifo1 /\ tap'.overtaken = tap.overtaken
      /\ tap'.sent = tap.sent /\ tap'.got = tap.got /\ tap'.seen = tap.seen
      /\ tap'.rxbuf = tap.rxbuf
      /\ tap.build = "files" => tap'.files = files /\ tap'.filenumber = next /\ tap'.pc = <<>>
      /\ tap.build = "tap" => tap'.pc = whole
  <2>1. CASE tap.build = "files"
    <3>1. tap' = [tap EXCEPT !.started = started, !.files = files, !.filenumber = next]
      BY <1>4, <2>1
    <3> QED
      BY <1>1, <1>2, <1>3, <2>1, <3>1 DEF TapStates
  <2>2. CASE tap.build = "tap"
    <3>1. tap' = [tap EXCEPT !.started = started, !.pc = whole]
      BY <1>4, <2>2
    <3>2. whole \in {<<>>, <<"data">>, <<"proto", "data">>, <<"flags", "proto", "data">>}
      BY <1>a
    <3> QED
      BY <1>1, <1>2, <2>2, <3>1, <3>2 DEF TapStates
  <2> QED
    BY <1>1, <2>1, <2>2
<1>6. TapSameReceives(tap, tap') /\ \A a : MacLoad(tap', a) = MacLoad(tap, a)
  BY <1>5, MacSameMem DEF TapSameReceives
<1>7. tap.build = "tap" => TapSends(tap')
  <2> SUFFICES ASSUME tap.build = "tap"
               PROVE  TapSends(tap')
    OBVIOUS
  <2>1. tap'.txlen = tap'.started[Len(tap'.started)] /\ Len(tap'.started) >= 1
    BY <1>1, <1>2, <1>5
  <2>2. ASSUME ~tap.raced
        PROVE  /\ Len(tap.out) <= m + 1
               /\ \A i \in 1 .. Len(tap.out) : tap.out[i] = TapWhole(started[i])
               /\ \/ Len(tap.fifo2) > 3
                  \/ Len(tap.fifo2) = 3
                  \/ m + 1 = Len(tap.out) + 1 /\ tap.fifo2 = <<>>
    <3> DEFINE k == Len(tap.out)
    <3>1. k \in Nat /\ k <= m /\ (\A i \in 1 .. k : tap.out[i] = TapWhole(tap.started[i]))
          /\ TapUnderWay(tap)
      <4>1. TapSends(tap)
        BY DEF TapSound
      <4>2. tap.out \in Seq(Seq(TapPieces))
        BY <1>1 DEF TapStates
      <4>3. k \in Nat
        BY <4>2
      <4>4. k <= m /\ \A i \in 1 .. k : tap.out[i] = TapWhole(tap.started[i])
        BY <2>2, <4>1, Zenon DEF TapSends
      <4>5. TapUnderWay(tap)
        BY <2>2, <4>1 DEF TapSends
      <4> QED
        BY <4>3, <4>4, <4>5
    <3>2. \/ Len(tap.fifo2) > 3
          \/ tap.fifo2 = TapWhole(tap.started[m])
          \/ m = k /\ tap.fifo2 = <<>>
      BY <1>1, <3>1 DEF TapUnderWay
    <3>3. tap.fifo2 = TapWhole(tap.started[m]) => Len(tap.fifo2) = 3
      BY DEF TapWhole
    <3> HIDE DEF m, k
    <3>4. k <= m + 1 /\ \A i \in 1 .. k : i \in 1 .. m
      BY <1>1, <3>1
    <3>5. \A i \in 1 .. k : tap.out[i] = TapWhole(started[i])
      BY <1>2, <3>1, <3>4
    <3> QED
      BY <3>2, <3>3, <3>4, <3>5 DEF k, m
  <2> HIDE DEF m
  <2>3. ~tap'.raced => TapUnderWay(tap')
    BY <1>2, <1>5, <1>a, <2>2 DEF TapUnderWay
  <2> QED
    BY <1>2, <1>5, <2>1, <2>2, <2>3 DEF TapSends
<1>8. tap.build = "files" => TapFiled(tap') /\ TapKeeps(tap')
  <2> SUFFICES ASSUME tap.build = "files"
               PROVE  TapFiled(tap') /\ TapKeeps(tap')
    OBVIOUS
  <2>1. TapKeeps(tap) /\ TapFiled(tap)
    BY DEF TapSound
  <2>2. next = (m + 1) % TapFiles
    <3>1. n = m % TapFiles
      BY <2>1 DEF TapKeeps
    <3> HIDE DEF n, m
    <3>2. ((m % TapFiles) + 1) % TapFiles = (m + 1) % TapFiles
      BY <1>1, NextSlot
    <3> QED
      BY <1>a, <3>1, <3>2
  <2>3. ASSUME NEW i \in 1 .. m + 1, i + TapFiles > m + 1
        PROVE  files[(i - 1) % TapFiles] = started[i]
    <3>1. n = m % TapFiles
      BY <2>1 DEF TapKeeps
    <3>2. CASE i = m + 1
      <4>1. i - 1 = m
        BY <1>1, <3>2
      <4> QED
        BY <1>1, <1>2, <1>3, <3>1, <3>2, <4>1
    <3>3. CASE i # m + 1
      <4> DEFINE x == i - 1
      <4>a. TapFiles \in Nat /\ m \in Nat /\ i \in 1 .. m + 1
        BY <1>1, TapAssumption
      <4>b. i + TapFiles > m + 1 /\ i # m + 1
        BY <2>3, <3>3
      <4>c. PICK c, z \in Nat : c = m /\ z = TapFiles
        BY <4>a
      <4>d. i \in 1 .. c /\ x \in Nat /\ x < c /\ c < x + z /\ i + z > c
        <5>1. i \in 1 .. c + 1 /\ i + z > c + 1 /\ i # c + 1
          BY <4>a, <4>b, <4>c
        <5> HIDE DEF m
        <5> QED
          BY <5>1
      <4>1. i \in 1 .. m /\ x \in Nat /\ x < m /\ m < x + TapFiles /\ i + TapFiles > m
        BY <4>c, <4>d, Zenon
      <4> HIDE DEF x
      <4>2. x % TapFiles # m % TapFiles
        BY <1>1, <4>1, SlotsApart
      <4>3. tap.files[x % TapFiles] = tap.started[i]
        BY <2>1, <4>1 DEF TapKeeps, x
      <4>4. x % TapFiles \in 0 .. TapFiles - 1
        BY <1>1, <4>1
      <4> QED
        BY <1>2, <1>3, <3>1, <4>1, <4>2, <4>3, <4>4 DEF x
    <3> QED
      BY <3>2, <3>3
  <2> HIDE DEF m, n
  <2>4. TapKeeps(tap')
    BY <1>2, <1>5, <2>2, <2>3 DEF TapKeeps
  <2>5. TapFiled(tap')
    BY <1>5, <2>1 DEF TapFiled
  <2> QED
    BY <2>4, <2>5
<1> QED
  BY <1>1, <1>5, <1>6, <1>7, <1>8, TapSame DEF TapSound, MacSound, TapFiled

\* Short sequences, spelled out.
LEMMA Shifts ==
    ASSUME NEW a, NEW b, NEW c
    PROVE  /\ Head(<<a>>) = a /\ Tail(<<a>>) = <<>>
           /\ Head(<<a, b>>) = a /\ Tail(<<a, b>>) = <<b>>
           /\ Head(<<a, b, c>>) = a /\ Tail(<<a, b, c>>) = <<b, c>>
  OBVIOUS
LEMMA Grows ==
    ASSUME NEW a, NEW b, NEW c
    PROVE  /\ Append(<<>>, a) = <<a>>
           /\ Append(<<a>>, b) = <<a, b>>
           /\ Append(<<a, b>>, c) = <<a, b, c>>
<1> DEFINE S == {a, b, c}
           s == <<a>>
           t == <<a, b>>
           u == <<a, b, c>>
<1>1. s \in Seq(S) /\ t \in Seq(S) /\ u \in Seq(S) /\ Len(s) = 1 /\ Len(t) = 2 /\ Len(u) = 3
      /\ s[1] = a /\ t[1] = a /\ t[2] = b /\ u[1] = a /\ u[2] = b /\ u[3] = c
      /\ a \in S /\ b \in S /\ c \in S
  OBVIOUS
<1>2. Append(<<>>, a) = <<a>>
  OBVIOUS
<1> HIDE DEF S, s, t, u
<1>a. \A q \in Seq(S) : \A e \in S :
          /\ Append(q, e) \in Seq(S) /\ Len(Append(q, e)) = Len(q) + 1
          /\ \A i \in 1 .. Len(q) : Append(q, e)[i] = q[i]
          /\ Append(q, e)[Len(q) + 1] = e
  BY AppendProperties
<1>3. Append(s, b) = t
  <2>1. /\ Append(s, b) \in Seq(S) /\ Len(Append(s, b)) = Len(s) + 1
        /\ \A i \in 1 .. Len(s) : Append(s, b)[i] = s[i]
        /\ Append(s, b)[Len(s) + 1] = b
    BY <1>1, <1>a
  <2> DEFINE w == Append(s, b)
  <2>2. w \in Seq(S) /\ Len(w) = 2 /\ w[1] = a /\ w[2] = b
    BY <1>1, <2>1
  <2> HIDE DEF w
  <2>3. \A i \in 1 .. 2 : i = 1 \/ i = 2
    OBVIOUS
  <2>4. \A i \in 1 .. Len(w) : w[i] = t[i]
    BY <1>1, <2>2, <2>3
  <2>5. w = t
    BY <1>1, <2>2, <2>4, SeqEqual
  <2> QED
    BY <2>5 DEF w
<1>4. Append(t, c) = u
  <2>1. /\ Append(t, c) \in Seq(S) /\ Len(Append(t, c)) = Len(t) + 1
        /\ \A i \in 1 .. Len(t) : Append(t, c)[i] = t[i]
        /\ Append(t, c)[Len(t) + 1] = c
    BY <1>1, <1>a
  <2> DEFINE w == Append(t, c)
  <2>2. w \in Seq(S) /\ Len(w) = 3 /\ w[1] = a /\ w[2] = b /\ w[3] = c
    BY <1>1, <2>1
  <2> HIDE DEF w
  <2>3. \A i \in 1 .. 3 : i = 1 \/ i = 2 \/ i = 3
    OBVIOUS
  <2>4. \A i \in 1 .. Len(w) : w[i] = u[i]
    BY <1>1, <2>2, <2>3
  <2>5. w = u
    BY <1>1, <2>2, <2>4, SeqEqual
  <2> QED
    BY <2>5 DEF w
<1> QED
  BY <1>2, <1>3, <1>4 DEF s, t, u

\* One write to the pipe, and the register behind the last.
LEMMA MacPipeSound == TapSound(tap) /\ MacPipe => TapSound(tap')
<1> SUFFICES ASSUME TapSound(tap), MacPipe
             PROVE  TapSound(tap')
  OBVIOUS
<1> DEFINE piece == IF Head(tap.pc) = "data" THEN <<"data", tap.txlen>> ELSE <<Head(tap.pc), 0>>
           pc == Tail(tap.pc)
           fifo2 == Append(tap.fifo2, piece)
           t == [tap EXCEPT !.pc = pc, !.fifo2 = fifo2]
           m == Len(tap.started)
           n == Len(tap.fifo2)
<1>1. /\ tap \in TapStates /\ MacSingle(tap.mem) /\ tap.pc # <<>> /\ tap.status = "run"
      /\ tap.fifo2 \in Seq(TapPieces) /\ n \in Nat /\ m \in Nat /\ tap.txlen \in Nat
  BY DEF TapSound, MacPipe, TapStates
<1>2. \/ tap.pc = <<"data">> /\ pc = <<>> /\ piece = <<"data", tap.txlen>>
      \/ tap.pc = <<"proto", "data">> /\ pc = <<"data">> /\ piece = <<"proto", 0>>
      \/ tap.pc = <<"flags", "proto", "data">> /\ pc = <<"proto", "data">> /\ piece = <<"flags", 0>>
  <2>1. tap.pc = <<"data">> \/ tap.pc = <<"proto", "data">> \/ tap.pc = <<"flags", "proto", "data">>
    BY <1>1 DEF TapStates
  <2>2. CASE tap.pc = <<"data">>
    <3>1. Head(tap.pc) = "data" /\ Tail(tap.pc) = <<>>
      BY <2>2, Shifts
    <3> QED
      BY <2>2, <3>1
  <2>3. CASE tap.pc = <<"proto", "data">>
    <3>1. Head(tap.pc) = "proto" /\ Tail(tap.pc) = <<"data">>
      BY <2>3, Shifts
    <3> QED
      BY <2>3, <3>1
  <2>4. CASE tap.pc = <<"flags", "proto", "data">>
    <3>1. Head(tap.pc) = "flags" /\ Tail(tap.pc) = <<"proto", "data">>
      BY <2>4, Shifts
    <3> QED
      BY <2>4, <3>1
  <2> QED
    BY <2>1, <2>2, <2>3, <2>4
<1>3. piece \in TapPieces /\ pc \in {<<>>, <<"data">>, <<"proto", "data">>, <<"flags", "proto", "data">>}
  BY <1>1, <1>2 DEF TapPieces
<1>4. fifo2 \in Seq(TapPieces) /\ Len(fifo2) = n + 1
  BY <1>1, <1>3, AppendProperties
<1>5. tap' = IF Len(tap.pc) = 1 THEN MacSave(t, "start", 16) ELSE t
  BY DEF MacPipe
<1>a. fifo2 = Append(tap.fifo2, piece)
  OBVIOUS
<1>b. t = [tap EXCEPT !.pc = pc, !.fifo2 = fifo2]
  OBVIOUS
<1> HIDE DEF piece, pc, fifo2, t
<1>6. /\ t \in TapStates /\ t.pc = pc /\ t.fifo2 = fifo2 /\ t.build = tap.build
      /\ t.reg = tap.reg /\ t.rxbuf = tap.rxbuf /\ t.fifo1 = tap.fifo1 /\ t.mem = tap.mem
      /\ t.status = tap.status /\ t.seen = tap.seen /\ t.started = tap.started
      /\ t.out = tap.out /\ t.sent = tap.sent /\ t.got = tap.got /\ t.files = tap.files
      /\ t.filenumber = tap.filenumber /\ t.raced = tap.raced /\ t.txlen = tap.txlen
      /\ t.overtaken = tap.overtaken
  BY <1>1, <1>3, <1>4, <1>b DEF TapStates
<1>7. tap.build = "tap" /\ TapSends(tap)
  <2>1. tap.build \in {"tap", "files"}
    BY <1>1 DEF TapStates
  <2> QED
    BY <1>1, <2>1 DEF TapSound, TapFiled
<1>8. ASSUME TapUnderWay(tap)
      PROVE  TapUnderWay(t)
  <2>1. CASE n >= 3
    <3> HIDE DEF n
    <3>1. n + 1 > 3
      BY <1>1, <2>1
    <3> QED
      BY <1>4, <1>6, <3>1 DEF TapUnderWay
  <2>2. CASE ~(n >= 3)
    <3>1. /\ m = Len(tap.out) + 1
          /\ \/ tap.pc = <<"flags", "proto", "data">> /\ tap.fifo2 = <<>>
             \/ tap.pc = <<"proto", "data">> /\ tap.fifo2 = <<<<"flags", 0>>>>
             \/ tap.pc = <<"data">> /\ tap.fifo2 = <<<<"flags", 0>>, <<"proto", 0>>>>
      <4>1. ~(n > 3) /\ n # 3
        <5> HIDE DEF n
        <5> QED
          BY <1>1, <2>2
      <4> QED
        BY <1>1, <1>8, <4>1, Zenon DEF TapUnderWay
    <3>2. \/ pc = <<"proto", "data">> /\ fifo2 = <<<<"flags", 0>>>>
          \/ pc = <<"data">> /\ fifo2 = <<<<"flags", 0>>, <<"proto", 0>>>>
          \/ pc = <<>> /\ fifo2 = TapWhole(tap.started[m])
      <4>1. CASE tap.pc = <<"flags", "proto", "data">>
        <5>1. tap.fifo2 = <<>> /\ piece = <<"flags", 0>> /\ pc = <<"proto", "data">>
          BY <1>2, <3>1, <4>1
        <5> QED
          BY <1>a, <5>1, Grows
      <4>2. CASE tap.pc = <<"proto", "data">>
        <5>1. tap.fifo2 = <<<<"flags", 0>>>> /\ piece = <<"proto", 0>> /\ pc = <<"data">>
          BY <1>2, <3>1, <4>2
        <5> QED
          BY <1>a, <5>1, Grows
      <4>3. CASE tap.pc = <<"data">>
        <5>1. tap.fifo2 = <<<<"flags", 0>>, <<"proto", 0>>>> /\ piece = <<"data", tap.txlen>>
              /\ pc = <<>>
          BY <1>2, <3>1, <4>3
        <5>2. tap.txlen = tap.started[m]
          BY <1>1, <1>7 DEF TapSends
        <5>3. fifo2 = <<<<"flags", 0>>, <<"proto", 0>>, <<"data", tap.txlen>>>>
          BY <1>a, <5>1, Grows
        <5> QED
          BY <5>1, <5>2, <5>3 DEF TapWhole
      <4> QED
        BY <3>1, <4>1, <4>2, <4>3
    <3> HIDE DEF m
    <3> QED
      BY <1>6, <3>1, <3>2 DEF TapUnderWay, m
  <2> QED
    BY <2>1, <2>2
<1>9. TapSends(t)
  BY <1>1, <1>6, <1>7, <1>8 DEF TapSends
<1>10. TapSameReceives(tap, t) /\ \A a : MacLoad(t, a) = MacLoad(tap, a)
  BY <1>6, MacSameMem DEF TapSameReceives
<1>11. TapSound(t)
  BY <1>6, <1>7, <1>9, <1>10, TapSame DEF TapSound, MacSound
<1>12. CASE Len(tap.pc) = 1
  <2>1. tap' = MacSave(t, "start", 16)
    BY <1>5, <1>12
  <2>2. "start" \in MacAddr /\ 16 \in MacWord
    BY DEF MacAddr, MacWord
  <2>3. MacSaves(t, tap', "start", 16)
    BY <1>1, <1>6, <2>1, <2>2, MacSaveIs
  <2>4. "length" \in MacAddr \ {"start"} /\ \A r \in MacRegs : r \in MacAddr \ {"start"}
    BY TapAssumption DEF MacAddr
  <2>5. TapSameSends(t, tap') /\ TapSameReceives(t, tap')
    BY <2>3 DEF MacSaves, TapSameSends, TapSameReceives
  <2> QED
    BY <1>6, <1>7, <1>11, <2>3, <2>4, <2>5, TapSame DEF TapSound, MacSound, MacSaves
<1>13. CASE Len(tap.pc) # 1
  BY <1>5, <1>11, <1>13
<1> QED
  BY <1>12, <1>13

\* Packets are put into rx_buffer and the registers.
MacGets(t, u, packets) ==
    /\ u \in TapStates /\ MacSingle(u.mem)
    /\ u.status = "run" =>
          /\ t.status = "run" /\ MacLoad(u, "length") = packets[1]
          /\ \A r \in MacRegs : MacLoad(u, r) = MacLoad(t, r)
    /\ u.rxbuf = packets
    /\ ~u.overtaken => ~t.overtaken /\ ~(Len(packets) > 1) /\ MacLoad(t, "length") = 0
    /\ u.build = t.build /\ u.reg = t.reg
    /\ TapSameSends(t, u) /\ TapSameKeeps(t, u)
    /\ u.sent = t.sent /\ u.got = t.got /\ u.fifo1 = t.fifo1 /\ u.seen = t.seen

LEMMA MacReceivedIs ==
    ASSUME NEW t \in TapStates, MacSingle(t.mem), NEW packets \in Seq(Nat), packets # <<>>
    PROVE  MacGets(t, MacReceived(t, packets), packets)
<1> DEFINE over == t.overtaken \/ Len(packets) > 1 \/ MacLoad(t, "length") # 0
           w == packets[1]
           x == [t EXCEPT !.rxbuf = packets, !.overtaken = over]
           y == MacSave(x, "length", w)
           u == MacSave(y, "status", w)
<1>1. /\ w \in MacWord /\ packets \in Seq(Int) /\ over \in BOOLEAN
      /\ "length" \in MacAddr /\ "status" \in MacAddr
  BY DEF MacAddr, MacWord, TapStates
<1>2. MacReceived(t, packets) = u
  BY DEF MacReceived, TapStates
<1>a. ~over => ~t.overtaken /\ ~(Len(packets) > 1) /\ MacLoad(t, "length") = 0
  OBVIOUS
<1>b. x = [t EXCEPT !.rxbuf = packets, !.overtaken = over]
  OBVIOUS
<1>c. w = packets[1]
  OBVIOUS
<1> HIDE DEF over, w, x
<1>3. /\ x \in TapStates /\ x.rxbuf = packets /\ x.overtaken = over /\ x.mem = t.mem
      /\ x.status = t.status /\ x.build = t.build /\ x.reg = t.reg
      /\ TapSameSends(t, x) /\ TapSameKeeps(t, x)
      /\ x.sent = t.sent /\ x.got = t.got /\ x.fifo1 = t.fifo1 /\ x.seen = t.seen
  BY <1>1, <1>b DEF TapStates, TapSameSends, TapSameKeeps
<1>4. \A r : MacLoad(x, r) = MacLoad(t, r)
  BY <1>3, MacSameMem
<1>5. MacSaves(x, y, "length", w)
  BY <1>1, <1>3, MacSaveIs
<1> HIDE DEF y
<1>6. y \in TapStates /\ MacSingle(y.mem)
  BY <1>5 DEF MacSaves
<1>7. MacSaves(y, u, "status", w)
  BY <1>1, <1>6, MacSaveIs
<1> HIDE DEF u
<1>8. /\ "length" \in MacAddr \ {"status"}
      /\ \A r \in MacRegs : r \in MacAddr \ {"status"} /\ r \in MacAddr \ {"length"}
  BY TapAssumption DEF MacAddr
<1>9. u.status = "run" =>
          /\ t.status = "run" /\ MacLoad(u, "length") = w
          /\ \A r \in MacRegs : MacLoad(u, r) = MacLoad(t, r)
  BY <1>3, <1>4, <1>5, <1>7, <1>8 DEF MacSaves
<1>10. /\ TapSameSends(t, u) /\ TapSameKeeps(t, u)
       /\ u.sent = t.sent /\ u.got = t.got /\ u.fifo1 = t.fifo1 /\ u.seen = t.seen
       /\ u.rxbuf = packets /\ u.overtaken = over /\ u.build = t.build /\ u.reg = t.reg
  BY <1>3, <1>5, <1>7 DEF MacSaves, TapSameSends, TapSameKeeps
<1>11. MacGets(t, u, packets)
  BY <1>7, <1>9, <1>10, <1>a, <1>c DEF MacGets, MacSaves
<1> QED
  BY <1>2, <1>11

LEMMA Single ==
    ASSUME NEW A, NEW s \in Seq(A), NEW x, Len(s) = 1, s[1] = x
    PROVE  s = <<x>>
<1> DEFINE t == <<x>>
<1>1. x \in A
  BY ElementOfSeq
<1>2. t \in Seq(A) /\ Len(t) = 1 /\ t[1] = x
  BY <1>1
<1> HIDE DEF t
<1>3. \A i \in 1 .. Len(s) : s[i] = t[i]
  BY <1>2
<1>4. s = t
  BY <1>2, <1>3, SeqEqual
<1> QED
  BY <1>4 DEF t

\* The packets of the host again, with names for what is counted: g packets read, h
\* in rx_buffer, f in the pipe, and l in the register of the length.
TapReceivesAt(t, g, h, f, l) ==
    /\ g = Len(t.got) /\ f = Len(t.fifo1) /\ l = MacLoad(t, "length")
    /\ \/ h = 0 /\ l = 0 /\ Len(t.sent) = g + f
       \/ h = 1 /\ l # 0 /\ Len(t.sent) = g + 1 + f
    /\ \A i \in 1 .. g : t.got[i] = <<t.sent[i]>>
    /\ \A i \in 1 .. f : t.fifo1[i] = t.sent[g + h + i]
    /\ t.seen \in {0, l}
    /\ h = 1 => t.rxbuf = <<t.sent[g + 1]>> /\ l = t.sent[g + 1]

LEMMA TapReceivesTo ==
    ASSUME NEW t, t.got \in Seq(Seq(Int)), t.fifo1 \in Seq(Nat), NEW g, NEW h, NEW f, NEW l,
           TapReceivesAt(t, g, h, f, l)
    PROVE  TapReceives(t)
<1>1. g \in Nat /\ f \in Nat /\ g = Len(t.got) /\ f = Len(t.fifo1) /\ l = MacLoad(t, "length")
  BY DEF TapReceivesAt
<1>2. h = IF l = 0 THEN 0 ELSE 1
  BY DEF TapReceivesAt
<1>3. h \in {0, 1} /\ g + 0 + f = g + f
  BY <1>1, <1>2
<1>4. Len(t.sent) = g + h + f
  BY <1>3 DEF TapReceivesAt
<1>5. /\ \A i \in 1 .. g : t.got[i] = <<t.sent[i]>>
      /\ \A i \in 1 .. f : t.fifo1[i] = t.sent[g + h + i]
      /\ t.seen \in {0, l}
      /\ h = 1 => t.rxbuf = <<t.sent[g + 1]>> /\ l = t.sent[g + 1]
  BY DEF TapReceivesAt
<1> QED
  BY <1>1, <1>2, <1>4, <1>5, Zenon DEF TapReceives

LEMMA TapReceivesFrom ==
    ASSUME NEW t, t.got \in Seq(Seq(Int)), t.fifo1 \in Seq(Nat), TapReceives(t)
    PROVE  \E g, f \in Nat : \E h \in {0, 1} : \E l : TapReceivesAt(t, g, h, f, l)
<1>1. PICK l, g, f, h : /\ l = MacLoad(t, "length") /\ g = Len(t.got) /\ f = Len(t.fifo1)
                        /\ h = IF l = 0 THEN 0 ELSE 1
  OBVIOUS
<1>2. g \in Nat /\ f \in Nat /\ h \in {0, 1}
  BY <1>1
<1>3. /\ Len(t.sent) = g + h + f
      /\ \A i \in 1 .. g : t.got[i] = <<t.sent[i]>>
      /\ \A i \in 1 .. f : t.fifo1[i] = t.sent[g + h + i]
      /\ t.seen \in {0, l}
      /\ h = 1 => t.rxbuf = <<t.sent[g + 1]>> /\ l = t.sent[g + 1]
  BY <1>1, Zenon DEF TapReceives
<1>4. \/ h = 0 /\ l = 0 /\ Len(t.sent) = g + f
      \/ h = 1 /\ l # 0 /\ Len(t.sent) = g + 1 + f
  <2>1. \/ h = 0 /\ l = 0
        \/ h = 1 /\ l # 0
    BY <1>1
  <2>2. g + 0 + f = g + f
    BY <1>2
  <2> QED
    BY <1>3, <2>1, <2>2
<1>5. TapReceivesAt(t, g, h, f, l)
  BY <1>1, <1>3, <1>4, Zenon DEF TapReceivesAt
<1> QED
  BY <1>2, <1>5

\* The simulator takes what the pipe holds.
LEMMA MacRxSound == TapSound(tap) /\ check_for_mac_rx => TapSound(tap')
<1> SUFFICES ASSUME TapSound(tap), check_for_mac_rx
             PROVE  TapSound(tap')
  OBVIOUS
<1> DEFINE e == <<>>
           t == [tap EXCEPT !.fifo1 = e]
           packets == tap.fifo1
<1>1. /\ tap \in TapStates /\ MacSingle(tap.mem) /\ tap.fifo1 \in Seq(Nat) /\ tap.fifo1 # <<>>
      /\ tap.status = "run"
  BY DEF TapSound, check_for_mac_rx, TapFirmware, TapStates
<1>2. tap.build = "tap" /\ TapSends(tap)
  <2>1. tap.build \in {"tap", "files"}
    BY <1>1 DEF TapStates
  <2> QED
    BY <1>1, <2>1 DEF TapSound, TapFiled
<1>3. e \in Seq(Nat) /\ e = <<>>
  OBVIOUS
<1>a. t = [tap EXCEPT !.fifo1 = e]
  OBVIOUS
<1>4. tap' = IF Head(packets) = 0 THEN [t EXCEPT !.status = "exit"] ELSE MacReceived(t, packets)
  BY DEF check_for_mac_rx
<1> HIDE DEF e, t
<1>5. /\ t \in TapStates /\ t.fifo1 = e /\ t.mem = tap.mem /\ t.status = tap.status
      /\ t.build = tap.build /\ t.reg = tap.reg /\ TapSameSends(tap, t) /\ t.sent = tap.sent
      /\ t.got = tap.got /\ t.seen = tap.seen /\ t.overtaken = tap.overtaken
  BY <1>1, <1>3, <1>a DEF TapStates, TapSameSends
<1>6. \A a : MacLoad(t, a) = MacLoad(tap, a)
  BY <1>5, MacSameMem
<1>7. CASE Head(packets) = 0
  <2>1. tap' = [t EXCEPT !.status = "exit"]
    BY <1>4, <1>7
  <2>2. /\ tap' \in TapStates /\ tap'.status = "exit" /\ tap'.mem = t.mem /\ tap'.build = t.build
        /\ TapSameSends(t, tap')
    BY <1>5, <2>1 DEF TapStates, TapSameSends
  <2> QED
    BY <1>1, <1>2, <1>5, <2>2, TapSame DEF TapSound, MacSound
<1>8. CASE Head(packets) # 0
  <2> DEFINE n == packets[1]
  <2>1. tap' = MacReceived(t, packets) /\ n # 0 /\ n \in Nat
    BY <1>1, <1>4, <1>8
  <2>2. MacGets(t, tap', packets)
    BY <1>1, <1>5, <2>1, MacReceivedIs
  <2>3. ASSUME ~tap'.overtaken, tap'.status = "run"
        PROVE  TapReceives(tap')
    <3>1. /\ ~tap.overtaken /\ MacLoad(tap, "length") = 0 /\ ~(Len(packets) > 1)
          /\ MacLoad(tap', "length") = n
      BY <1>5, <1>6, <2>2, <2>3 DEF MacGets
    <3>2. TapReceives(tap) /\ tap.got \in Seq(Seq(Int))
      BY <1>1, <3>1 DEF TapSound, TapStates
    <3>3. PICK g, f \in Nat : \E h \in {0, 1} : \E l : TapReceivesAt(tap, g, h, f, l)
      BY <1>1, <3>2, TapReceivesFrom
    <3>4. PICK h \in {0, 1} : \E l : TapReceivesAt(tap, g, h, f, l)
      BY <3>3
    <3>5. PICK l : TapReceivesAt(tap, g, h, f, l)
      BY <3>4
    <3>a. PICK p \in Seq(Nat) : p = tap.fifo1
      BY <1>1
    <3>b. p # <<>> /\ ~(Len(p) > 1) /\ f = Len(p) /\ n = p[1]
      BY <1>1, <3>1, <3>5, <3>a DEF TapReceivesAt
    <3>6. f = 1 /\ h = 0
      BY <3>1, <3>5, <3>b DEF TapReceivesAt
    <3>7. /\ g = Len(tap.got) /\ Len(tap.sent) = g + 1
          /\ \A i \in 1 .. g : tap.got[i] = <<tap.sent[i]>>
          /\ p[1] = tap.sent[g + 1] /\ tap.seen = 0
      BY <3>1, <3>5, <3>6, <3>a DEF TapReceivesAt
    <3>8. p = <<tap.sent[g + 1]>>
      BY <3>6, <3>7, <3>b, Single
    <3>9. tap'.fifo1 = e /\ tap'.rxbuf = p /\ tap'.sent = tap.sent /\ tap'.got = tap.got
          /\ tap'.seen = tap.seen
      BY <1>5, <2>2, <3>a DEF MacGets
    <3>c. Len(e) = 0 /\ g + 1 + 0 = g + 1 /\ 1 .. 0 = {}
      BY <1>3
    <3> HIDE DEF n
    <3>d. TapReceivesAt(tap', g, 1, 0, n)
      BY <2>1, <3>1, <3>7, <3>8, <3>9, <3>b, <3>c DEF TapReceivesAt
    <3> QED
      BY <1>3, <3>2, <3>9, <3>d, TapReceivesTo
  <2>4. MacSound(tap')
    BY <1>1, <1>5, <1>6, <2>2 DEF MacGets, MacSound, TapSound
  <2>5. TapSends(tap') /\ tap'.build = "tap"
    BY <1>2, <1>5, <2>2, TapSame DEF MacGets
  <2> QED
    BY <2>2, <2>3, <2>4, <2>5 DEF TapSound, MacGets
<1> QED
  BY <1>7, <1>8

\* The command rx.
LEMMA RxSound == TapSound(tap) /\ rx => TapSound(tap')
<1> SUFFICES ASSUME TapSound(tap), rx
             PROVE  TapSound(tap')
  OBVIOUS
<1> DEFINE n == Len(tap.sent) + 1
           sent == Append(tap.sent, n)
           t == [tap EXCEPT !.sent = sent]
           packets == <<n>>
<1>1. /\ tap \in TapStates /\ MacSingle(tap.mem) /\ tap.sent \in Seq(Nat)
      /\ tap.status = "run" /\ tap.build = "files" /\ Len(tap.sent) \in Nat
      /\ TapFiled(tap) /\ TapKeeps(tap)
  BY DEF TapSound, rx, TapFirmware, TapStates
<1>2. n \in Nat /\ n # 0 /\ packets \in Seq(Nat) /\ packets # <<>> /\ packets[1] = n
  BY <1>1
<1>3. /\ sent \in Seq(Nat) /\ Len(sent) = n /\ sent[n] = n
      /\ \A i \in 1 .. Len(tap.sent) : sent[i] = tap.sent[i]
  BY <1>1, <1>2, AppendProperties
<1>a. t = [tap EXCEPT !.sent = sent]
  OBVIOUS
<1>4. CASE tap' = MacReceived(t, packets)
  <2> HIDE DEF sent, t
  <2>1. /\ t \in TapStates /\ t.sent = sent /\ t.mem = tap.mem /\ t.status = tap.status
        /\ t.build = tap.build /\ t.reg = tap.reg /\ t.fifo1 = tap.fifo1
        /\ TapSameSends(tap, t) /\ TapSameKeeps(tap, t)
        /\ t.got = tap.got /\ t.seen = tap.seen /\ t.overtaken = tap.overtaken
    BY <1>1, <1>3, <1>a DEF TapStates, TapSameSends, TapSameKeeps
  <2>2. \A a : MacLoad(t, a) = MacLoad(tap, a)
    BY <2>1, MacSameMem
  <2>3. MacGets(t, tap', packets)
    BY <1>1, <1>2, <1>4, <2>1, MacReceivedIs
  <2>4. ASSUME ~tap'.overtaken, tap'.status = "run"
        PROVE  TapReceives(tap')
    <3>1. ~tap.overtaken /\ MacLoad(tap, "length") = 0 /\ MacLoad(tap', "length") = n
      BY <1>2, <2>1, <2>2, <2>3, <2>4 DEF MacGets
    <3>2. TapReceives(tap) /\ tap.fifo1 = <<>> /\ tap.got \in Seq(Seq(Int)) /\ tap.fifo1 \in Seq(Nat)
      BY <1>1, <3>1 DEF TapSound, TapFiled, TapStates
    <3>3. PICK g, f \in Nat : \E h \in {0, 1} : \E l : TapReceivesAt(tap, g, h, f, l)
      BY <3>2, TapReceivesFrom
    <3>4. PICK h \in {0, 1} : \E l : TapReceivesAt(tap, g, h, f, l)
      BY <3>3
    <3>5. PICK l : TapReceivesAt(tap, g, h, f, l)
      BY <3>4
    <3>6. f = 0 /\ h = 0 /\ 1 .. 0 = {}
      BY <3>1, <3>2, <3>5 DEF TapReceivesAt
    <3>a. PICK s \in Seq(Nat) : s = tap.sent
      BY <1>1
    <3>b. n = Len(s) + 1 /\ Len(sent) = n /\ sent[n] = n /\ \A i \in 1 .. Len(s) : sent[i] = s[i]
      BY <1>3, <3>a
    <3> HIDE DEF n, packets
    <3>7. /\ g = Len(tap.got) /\ Len(s) = g
          /\ \A i \in 1 .. g : tap.got[i] = <<s[i]>>
          /\ tap.seen = 0
      BY <3>1, <3>5, <3>6, <3>a DEF TapReceivesAt
    <3>8. n = g + 1
      BY <3>7, <3>b
    <3>9. \A i \in 1 .. g : tap.got[i] = <<sent[i]>>
      BY <3>7, <3>b
    <3>c. packets = <<sent[g + 1]>>
      BY <3>8, <3>b DEF packets
    <3>d. tap'.fifo1 = <<>> /\ tap'.rxbuf = packets /\ tap'.sent = sent /\ tap'.got = tap.got
          /\ tap'.seen = tap.seen
      BY <2>1, <2>3, <3>2 DEF MacGets
    <3>e. g + 1 + 0 = g + 1 /\ Len(tap'.fifo1) = 0
      BY <3>d
    <3>f. TapReceivesAt(tap', g, 1, 0, n)
      BY <1>2, <3>1, <3>6, <3>7, <3>8, <3>9, <3>b, <3>c, <3>d, <3>e DEF TapReceivesAt
    <3> QED
      BY <3>2, <3>d, <3>f, TapReceivesTo
  <2>5. MacSound(tap')
    BY <1>1, <2>1, <2>2, <2>3 DEF MacGets, MacSound, TapSound
  <2>6. TapFiled(tap') /\ TapKeeps(tap') /\ tap'.build = "files"
    BY <1>1, <2>1, <2>3, TapSame DEF MacGets
  <2> QED
    BY <2>3, <2>4, <2>5, <2>6 DEF TapSound, MacGets
<1>5. CASE tap' = [tap EXCEPT !.rxbuf = <<0 - 1>>, !.overtaken = TRUE]
  <2> DEFINE old == <<0 - 1>>
  <2>1. old \in Seq(Int) /\ tap' = [tap EXCEPT !.rxbuf = old, !.overtaken = TRUE]
    BY <1>5
  <2> HIDE DEF old
  <2>2. /\ tap' \in TapStates /\ tap'.overtaken /\ tap'.mem = tap.mem /\ tap'.status = tap.status
        /\ tap'.build = tap.build /\ tap'.reg = tap.reg /\ tap'.fifo1 = tap.fifo1
        /\ TapSameSends(tap, tap') /\ TapSameKeeps(tap, tap')
    BY <1>1, <2>1 DEF TapStates, TapSameSends, TapSameKeeps
  <2>3. \A a : MacLoad(tap', a) = MacLoad(tap, a)
    BY <2>2, MacSameMem
  <2> QED
    BY <1>1, <2>2, <2>3, TapSame DEF TapSound, MacSound
<1> QED
  BY <1>4, <1>5 DEF rx

LEMMA MacSeesSound == TapSound(tap) /\ MacFirmwareSees => TapSound(tap')
<1> SUFFICES ASSUME TapSound(tap), MacFirmwareSees
             PROVE  TapSound(tap')
  OBVIOUS
<1> DEFINE l == MacLoad(tap, "length")
<1>1. tap \in TapStates /\ MacSingle(tap.mem) /\ tap.mem \in Seq(MacAddr \X MacWord)
  BY DEF TapSound, TapStates
<1>2. l \in MacWord
  BY <1>1, MacLoaded
<1>3. tap' = [tap EXCEPT !.seen = l]
  BY DEF MacFirmwareSees
<1>a. l = MacLoad(tap, "length")
  OBVIOUS
<1> HIDE DEF l
<1>5. /\ tap' \in TapStates /\ tap'.build = tap.build /\ tap'.reg = tap.reg
      /\ tap'.mem = tap.mem /\ tap'.status = tap.status /\ tap'.overtaken = tap.overtaken
      /\ TapSameSends(tap, tap') /\ TapSameKeeps(tap, tap') /\ tap'.fifo1 = tap.fifo1
      /\ tap'.seen = l /\ tap'.sent = tap.sent /\ tap'.got = tap.got /\ tap'.rxbuf = tap.rxbuf
  BY <1>1, <1>2, <1>3 DEF TapStates, TapSameSends, TapSameKeeps
<1>4. \A a : MacLoad(tap', a) = MacLoad(tap, a)
  BY <1>5, MacSameMem
<1>6. TapReceives(tap) => TapReceives(tap')
  BY <1>4, <1>5, <1>a DEF TapReceives
<1> QED
  BY <1>1, <1>4, <1>5, <1>6, TapSame DEF TapSound, MacSound

\* The firmware takes the packet and clears the length.
LEMMA MacReadsSound == TapSound(tap) /\ MacFirmwareReads => TapSound(tap')
<1> SUFFICES ASSUME TapSound(tap), MacFirmwareReads
             PROVE  TapSound(tap')
  OBVIOUS
<1> DEFINE u == MacSave(tap, "length", 0)
           got == Append(tap.got, tap.rxbuf)
<1>1. /\ tap \in TapStates /\ MacSingle(tap.mem) /\ tap.got \in Seq(Seq(Int))
      /\ tap.rxbuf \in Seq(Int) /\ tap.fifo1 \in Seq(Nat) /\ "length" \in MacAddr /\ 0 \in MacWord
      /\ tap.status = "run" /\ tap.seen # 0
  BY DEF TapSound, TapStates, MacAddr, MacWord, MacFirmwareReads, TapFirmware
<1>2. MacSaves(tap, u, "length", 0)
  BY <1>1, MacSaveIs
<1>3. tap' = [u EXCEPT !.seen = 0, !.got = got]
  <2>1. tap' = [u EXCEPT !.seen = 0, !.got = Append(@, tap.rxbuf)]
    BY DEF MacFirmwareReads
  <2> HIDE DEF u
  <2>2. u \in TapStates /\ u.got = tap.got
    BY <1>2 DEF MacSaves
  <2> QED
    BY <2>1, <2>2 DEF TapStates
<1>4. /\ got \in Seq(Seq(Int)) /\ Len(got) = Len(tap.got) + 1
      /\ \A i \in 1 .. Len(tap.got) : got[i] = tap.got[i]
      /\ got[Len(tap.got) + 1] = tap.rxbuf
  BY <1>1, AppendProperties
<1> HIDE DEF u, got
<1>5. u \in TapStates
  BY <1>2 DEF MacSaves
<1>6. /\ tap' \in TapStates /\ tap'.build = u.build /\ tap'.reg = u.reg
      /\ tap'.mem = u.mem /\ tap'.status = u.status /\ tap'.overtaken = u.overtaken
      /\ TapSameSends(u, tap') /\ TapSameKeeps(u, tap') /\ tap'.fifo1 = u.fifo1
      /\ tap'.seen = 0 /\ tap'.sent = u.sent /\ tap'.got = got
  BY <1>1, <1>3, <1>4, <1>5 DEF TapStates, TapSameSends, TapSameKeeps
<1>7. /\ TapSameSends(tap, tap') /\ TapSameKeeps(tap, tap') /\ tap'.fifo1 = tap.fifo1
      /\ tap'.sent = tap.sent /\ tap'.build = tap.build /\ tap'.reg = tap.reg
      /\ tap'.overtaken = tap.overtaken
  BY <1>2, <1>6 DEF MacSaves, TapSameSends, TapSameKeeps
<1>8. \A a : MacLoad(tap', a) = MacLoad(u, a)
  BY <1>6, MacSameMem
<1>9. MacSound(tap')
  <2>1. \A r \in MacRegs : r \in MacAddr \ {"length"}
    BY TapAssumption DEF MacAddr
  <2> QED
    BY <1>1, <1>2, <1>6, <1>7, <1>8, <2>1 DEF MacSaves, MacSound, TapSound
<1>10. ASSUME ~tap'.overtaken, tap'.status = "run"
       PROVE  TapReceives(tap')
  <2>1. MacLoad(tap', "length") = 0 /\ TapReceives(tap)
    BY <1>1, <1>2, <1>6, <1>7, <1>8, <1>10 DEF MacSaves, TapSound
  <2>2. PICK g, f \in Nat : \E h \in {0, 1} : \E l : TapReceivesAt(tap, g, h, f, l)
    BY <1>1, <2>1, TapReceivesFrom
  <2>3. PICK h \in {0, 1} : \E l : TapReceivesAt(tap, g, h, f, l)
    BY <2>2
  <2>4. PICK l : TapReceivesAt(tap, g, h, f, l)
    BY <2>3
  <2>a. /\ (h = 0 /\ l = 0) \/ (h = 1 /\ l # 0 /\ Len(tap.sent) = g + 1 + f)
        /\ tap.seen \in {0, l} /\ g = Len(tap.got) /\ f = Len(tap.fifo1)
        /\ \A i \in 1 .. g : tap.got[i] = <<tap.sent[i]>>
        /\ h = 1 => tap.rxbuf = <<tap.sent[g + 1]>>
    BY <2>4, Zenon DEF TapReceivesAt
  <2>5. /\ h = 1 /\ g = Len(tap.got) /\ f = Len(tap.fifo1) /\ Len(tap.sent) = g + 1 + f
        /\ \A i \in 1 .. g : tap.got[i] = <<tap.sent[i]>>
        /\ tap.rxbuf = <<tap.sent[g + 1]>>
    BY <1>1, <2>a
  <2>6. \A i \in 1 .. f : tap.fifo1[i] = tap.sent[g + 1 + i]
    BY <2>4, <2>5 DEF TapReceivesAt
  <2> DEFINE k == g + 1
  <2>7. Len(got) = k /\ Len(tap.sent) = k + f /\ k \in Nat /\ k + 0 = k
    BY <1>4, <2>5
  <2>8. \A i \in 1 .. k : i \in 1 .. g \/ i = k
    OBVIOUS
  <2>9. \A i \in 1 .. k : got[i] = <<tap.sent[i]>>
    BY <1>4, <2>5, <2>8
  <2>10. \A i \in 1 .. f : tap.fifo1[i] = tap.sent[k + 0 + i]
    BY <2>6, <2>7
  <2> HIDE DEF k
  <2>b. /\ k = Len(tap'.got) /\ f = Len(tap'.fifo1) /\ 0 = MacLoad(tap', "length")
        /\ Len(tap'.sent) = k + f
    BY <1>6, <1>7, <2>1, <2>5, <2>7
  <2>c. /\ \A i \in 1 .. k : tap'.got[i] = <<tap'.sent[i]>>
        /\ \A i \in 1 .. f : tap'.fifo1[i] = tap'.sent[k + 0 + i]
        /\ tap'.seen \in {0, 0} /\ 0 # 1
    BY <1>6, <1>7, <2>9, <2>10
  <2>11. TapReceivesAt(tap', k, 0, f, 0)
    BY <2>b, <2>c, Zenon DEF TapReceivesAt
  <2> QED
    BY <1>1, <1>4, <1>6, <1>7, <2>11, TapReceivesTo
<1> QED
  BY <1>2, <1>6, <1>7, <1>9, <1>10, TapSame DEF TapSound, MacSaves

----------------------------------------------------------------------------
\* The connector: a packet of the host.
LEMMA TapToFifoSound == TapSound(tap) /\ TapToFifo => TapSound(tap')
<1> SUFFICES ASSUME TapSound(tap), TapToFifo
             PROVE  TapSound(tap')
  OBVIOUS
<1>1. /\ tap \in TapStates /\ tap.sent \in Seq(Nat) /\ tap.fifo1 \in Seq(Nat) /\ tap.build = "tap"
      /\ tap.got \in Seq(Seq(Int)) /\ TapSends(tap)
  BY DEF TapSound, TapStates, TapToFifo
<1>2. PICK n \in {0, Len(tap.sent) + 1} :
         tap' = [tap EXCEPT !.sent = Append(@, n), !.fifo1 = Append(@, n)]
  BY DEF TapToFifo
<1> DEFINE sent == Append(tap.sent, n)
           fifo1 == Append(tap.fifo1, n)
<1>3. n \in Nat
  BY <1>1
<1>4. /\ sent \in Seq(Nat) /\ Len(sent) = Len(tap.sent) + 1 /\ sent[Len(tap.sent) + 1] = n
      /\ \A i \in 1 .. Len(tap.sent) : sent[i] = tap.sent[i]
      /\ fifo1 \in Seq(Nat) /\ Len(fifo1) = Len(tap.fifo1) + 1 /\ fifo1[Len(tap.fifo1) + 1] = n
      /\ \A i \in 1 .. Len(tap.fifo1) : fifo1[i] = tap.fifo1[i]
  BY <1>1, <1>3, AppendProperties
<1>5. tap' = [tap EXCEPT !.sent = sent, !.fifo1 = fifo1]
  BY <1>1, <1>2 DEF TapStates
<1> HIDE DEF sent, fifo1
<1>6. /\ tap' \in TapStates /\ tap'.build = tap.build /\ tap'.reg = tap.reg
      /\ tap'.mem = tap.mem /\ tap'.status = tap.status /\ tap'.overtaken = tap.overtaken
      /\ TapSameSends(tap, tap') /\ tap'.fifo1 = fifo1 /\ tap'.sent = sent
      /\ tap'.seen = tap.seen /\ tap'.got = tap.got /\ tap'.rxbuf = tap.rxbuf
  BY <1>1, <1>4, <1>5 DEF TapStates, TapSameSends
<1>7. \A a : MacLoad(tap', a) = MacLoad(tap, a)
  BY <1>6, MacSameMem
<1>8. ASSUME TapReceives(tap)
      PROVE  TapReceives(tap')
  <2>2. PICK g, f \in Nat : \E h \in {0, 1} : \E l : TapReceivesAt(tap, g, h, f, l)
    BY <1>1, <1>8, TapReceivesFrom
  <2>3. PICK h \in {0, 1} : \E l : TapReceivesAt(tap, g, h, f, l)
    BY <2>2
  <2>4. PICK l : TapReceivesAt(tap, g, h, f, l)
    BY <2>3
  <2>a. PICK s, p \in Seq(Nat) : s = tap.sent /\ p = tap.fifo1
    BY <1>1
  <2>5. /\ g = Len(tap.got) /\ f = Len(p) /\ l = MacLoad(tap, "length")
        /\ \/ h = 0 /\ l = 0 /\ Len(s) = g + f
           \/ h = 1 /\ l # 0 /\ Len(s) = g + 1 + f
        /\ \A i \in 1 .. g : tap.got[i] = <<s[i]>>
        /\ \A i \in 1 .. f : p[i] = s[g + h + i]
        /\ tap.seen \in {0, l}
        /\ h = 1 => tap.rxbuf = <<s[g + 1]>> /\ l = s[g + 1]
    BY <2>4, <2>a DEF TapReceivesAt
  <2>6. /\ Len(sent) = Len(s) + 1 /\ sent[Len(s) + 1] = n /\ \A i \in 1 .. Len(s) : sent[i] = s[i]
        /\ Len(fifo1) = f + 1 /\ fifo1[f + 1] = n /\ \A i \in 1 .. f : fifo1[i] = p[i]
    BY <1>4, <2>5, <2>a
  <2> DEFINE k == f + 1
  <2>b. \/ h = 0 /\ l = 0 /\ Len(s) = g + f /\ g + f + 1 = g + k
        \/ h = 1 /\ l # 0 /\ Len(s) = g + 1 + f /\ g + 1 + f + 1 = g + 1 + k
    <3>1. g + f + 1 = g + k /\ g + 1 + f + 1 = g + 1 + k
      OBVIOUS
    <3> QED
      BY <2>5, <3>1, Zenon
  <2>7. \/ h = 0 /\ l = 0 /\ Len(sent) = g + k
        \/ h = 1 /\ l # 0 /\ Len(sent) = g + 1 + k
    BY <2>6, <2>b
  <2>d. PICK c \in Nat : c = Len(s)
    BY <2>5
  <2>e. c = g + h + f /\ g + h + k = c + 1
    BY <2>b, <2>d
  <2>8. \A i \in 1 .. g : i \in 1 .. Len(s)
    BY <2>5
  <2>9. \A i \in 1 .. g : tap.got[i] = <<sent[i]>>
    BY <2>5, <2>6, <2>8
  <2>10. ASSUME NEW i \in 1 .. k
         PROVE  fifo1[i] = sent[g + h + i]
    <3>1. CASE i \in 1 .. f
      <4>1. g + h + i \in 1 .. Len(s)
        BY <2>5, <3>1
      <4> QED
        BY <2>5, <2>6, <3>1, <4>1
    <3>2. CASE i = k
      <4>1. g + h + i = c + 1
        BY <2>e, <3>2
      <4>2. sent[c + 1] = n /\ fifo1[i] = n
        BY <2>6, <2>d, <3>2
      <4> QED
        BY <4>1, <4>2
    <3>3. i \in 1 .. f \/ i = k
      OBVIOUS
    <3> QED
      BY <3>1, <3>2, <3>3
  <2>11. h = 1 => g + 1 \in 1 .. Len(s)
    BY <2>5
  <2>12. h = 1 => tap.rxbuf = <<sent[g + 1]>> /\ l = sent[g + 1]
    BY <2>5, <2>6, <2>11
  <2> HIDE DEF k
  <2>13. TapReceivesAt(tap', g, h, k, l)
    <3>1. k = Len(fifo1)
      BY <2>6 DEF k
    <3> QED
      BY <1>6, <1>7, <2>5, <2>7, <2>9, <2>10, <2>12, <3>1 DEF TapReceivesAt
  <2> QED
    BY <1>1, <1>4, <1>6, <2>13, TapReceivesTo
<1> QED
  BY <1>1, <1>6, <1>7, <1>8, TapSame DEF TapSound, MacSound

\* The connector reads what the pipe holds.
LEMMA TapFromFifoSound == TapSound(tap) /\ TapFromFifo => TapSound(tap')
<1> SUFFICES ASSUME TapSound(tap), TapFromFifo
             PROVE  TapSound(tap')
  OBVIOUS
<1> DEFINE e == <<>>
           out == Append(tap.out, tap.fifo2)
           conn == IF \E i \in DOMAIN tap.fifo2 : tap.fifo2[i][1] = "data" THEN "run" ELSE "exit"
           late == tap.raced \/ Len(tap.fifo2) # 3 \/ tap.pc # <<>>
           m == Len(tap.started)
           o == Len(tap.out)
<1>1. /\ tap \in TapStates /\ tap.out \in Seq(Seq(TapPieces)) /\ tap.fifo2 \in Seq(TapPieces)
      /\ tap.fifo2 # <<>> /\ tap.raced \in BOOLEAN /\ m \in Nat /\ o \in Nat
  BY DEF TapSound, TapStates, TapFromFifo
<1>2. tap.build = "tap" /\ TapSends(tap)
  <2>1. tap.build \in {"tap", "files"}
    BY <1>1 DEF TapStates
  <2> QED
    BY <1>1, <2>1 DEF TapSound, TapFiled
<1>3. /\ out \in Seq(Seq(TapPieces)) /\ Len(out) = o + 1 /\ out[o + 1] = tap.fifo2
      /\ \A i \in 1 .. o : out[i] = tap.out[i]
  BY <1>1, AppendProperties
<1>4. e \in Seq(TapPieces) /\ e = <<>> /\ conn \in {"run", "exit"} /\ late \in BOOLEAN
  BY <1>1
<1>5. tap' = [tap EXCEPT !.fifo2 = e, !.out = out, !.conn = conn, !.raced = late]
  BY <1>1 DEF TapFromFifo, TapStates
<1>6. late \/ (~tap.raced /\ Len(tap.fifo2) = 3 /\ tap.pc = <<>>)
  OBVIOUS
<1> HIDE DEF e, out, conn, late
<1>a. tap' \in TapStates
  BY <1>1, <1>3, <1>4, <1>5 DEF TapStates
<1>7. /\ tap' \in TapStates /\ tap'.build = tap.build /\ tap'.reg = tap.reg
      /\ tap'.mem = tap.mem /\ tap'.status = tap.status /\ tap'.overtaken = tap.overtaken
      /\ TapSameReceives(tap, tap') /\ tap'.fifo2 = e /\ tap'.out = out /\ tap'.raced = late
      /\ tap'.pc = tap.pc /\ tap'.started = tap.started /\ tap'.txlen = tap.txlen
  BY <1>1, <1>5, <1>a DEF TapStates, TapSameReceives
<1>8. \A a : MacLoad(tap', a) = MacLoad(tap, a)
  BY <1>7, MacSameMem
<1>9. TapSends(tap')
  <2>1. ASSUME ~tap'.raced
        PROVE  /\ Len(out) <= m
               /\ \A i \in 1 .. Len(out) : out[i] = TapWhole(tap.started[i])
               /\ TapUnderWay(tap')
    <3>1. ~tap.raced /\ Len(tap.fifo2) = 3 /\ tap.pc = <<>>
      BY <1>6, <1>7, <2>1
    <3>2. TapUnderWay(tap) /\ \A i \in 1 .. o : tap.out[i] = TapWhole(tap.started[i])
      BY <1>2, <3>1 DEF TapSends
    <3>3. m = o + 1 /\ tap.fifo2 = TapWhole(tap.started[m])
      <4>1. tap.pc # <<"flags", "proto", "data">> /\ tap.pc # <<"proto", "data">> /\ tap.pc # <<"data">>
        BY <3>1
      <4>2. ~(Len(tap.fifo2) > 3)
        BY <3>1
      <4> QED
        BY <1>1, <3>1, <3>2, <4>1, <4>2, Zenon DEF TapUnderWay
    <3>a. m = Len(tap.started)
      OBVIOUS
    <3> HIDE DEF m, o
    <3>4. Len(out) = m /\ out[m] = TapWhole(tap.started[m])
      BY <1>3, <3>3
    <3>5. \A i \in 1 .. m : i \in 1 .. o \/ i = m
      BY <1>1, <3>3
    <3>6. \A i \in 1 .. m : out[i] = TapWhole(tap.started[i])
      BY <1>3, <3>2, <3>4, <3>5
    <3>7. TapUnderWay(tap')
      BY <1>4, <1>7, <3>1, <3>4, <3>a DEF TapUnderWay
    <3> QED
      BY <1>1, <3>4, <3>6, <3>7
  <2> HIDE DEF m
  <2> QED
    BY <1>2, <1>7, <2>1 DEF TapSends, m
<1> QED
  BY <1>2, <1>7, <1>8, <1>9, TapSame DEF TapSound, MacSound

LEMMA TapNextSound == TapSound(tap) /\ [TapNext]_tap => TapSound(tap)'
<1> SUFFICES ASSUME TapSound(tap), [TapNext]_tap
             PROVE  TapSound(tap')
  OBVIOUS
<1> QED
  BY MacWriteSound, MacLengthSound, MacStartSound, MacPipeSound, MacRxSound, RxSound,
     MacSeesSound, MacReadsSound, TapToFifoSound, TapFromFifoSound DEF TapNext

----------------------------------------------------------------------------
\* A register of the interface reads as it was last written, whatever packets come
\* and go, until the table of 500 entries is full (simulate/mac.c:61-83): the
\* registers the interface writes itself have entries of their own.
THEOREM MacKeepsRegisters == TapInit /\ [][TapNext]_tap => []MacRemembers
<1>1. TapSound(tap) => MacRemembers
  BY DEF TapSound, MacSound, MacRemembers
<1> QED
  BY <1>1, TapInitSound, TapNextSound, PTL

\* Packets arrive whole and in their order, to the host as long as the connector
\* reads every one behind its third write and before the next, and to the firmware as
\* long as it has read a packet before the next one comes; and the last 256 packets
\* are in the files (simulate/mac.c:85-99, 157-180, 247-266).
THEOREM TapPacketsArrive == TapInit /\ [][TapNext]_tap => []TapDelivers
<1>1. TapSound(tap) => TapDelivers
  <2> SUFFICES ASSUME TapSound(tap)
               PROVE  TapDelivers
    OBVIOUS
  <2>1. /\ tap.build \in {"tap", "files"} /\ tap.out \in Seq(Seq(TapPieces))
        /\ tap.got \in Seq(Seq(Int)) /\ tap.fifo1 \in Seq(Nat)
    BY DEF TapSound, TapStates
  <2>2. ASSUME ~tap.raced
        PROVE  tap.out = [i \in 1 .. Len(tap.out) |-> TapWhole(tap.started[i])]
    <3>1. \A i \in 1 .. Len(tap.out) : tap.out[i] = TapWhole(tap.started[i])
      <4>1. CASE tap.build = "tap"
        BY <2>2, <4>1 DEF TapSound, TapSends
      <4>2. CASE tap.build = "files"
        <5>1. Len(tap.out) = 0
          BY <4>2 DEF TapSound, TapFiled
        <5> QED
          BY <5>1
      <4> QED
        BY <2>1, <4>1, <4>2
    <3>2. PICK q \in Seq(Seq(TapPieces)) : q = tap.out
      BY <2>1
    <3>3. q = [i \in 1 .. Len(q) |-> q[i]]
      OBVIOUS
    <3> QED
      BY <3>1, <3>2, <3>3, Zenon
  <2>3. ASSUME ~tap.overtaken, tap.status = "run"
        PROVE  tap.got = [i \in 1 .. Len(tap.got) |-> <<tap.sent[i]>>]
    <3>1. \A i \in 1 .. Len(tap.got) : tap.got[i] = <<tap.sent[i]>>
      BY <2>3 DEF TapSound, TapReceives
    <3>2. PICK q \in Seq(Seq(Int)) : q = tap.got
      BY <2>1
    <3>3. q = [i \in 1 .. Len(q) |-> q[i]]
      OBVIOUS
    <3> QED
      BY <3>1, <3>2, <3>3, Zenon
  <2>4. tap.build = "files" => TapKeeps(tap)
    BY DEF TapSound
  <2> QED
    BY <2>2, <2>3, <2>4 DEF TapDelivers, TapKeeps
<1> QED
  BY <1>1, TapInitSound, TapNextSound, PTL
=============================================================================
