---------------------------- MODULE DeviceProofs ----------------------------
(***************************************************************************)
(* Proofs about the devices and the tracer around the simulation loop: the  *)
(* GPIO with its driver (Gpio), the address space (MemoryMap), the receiver *)
(* of video frames (VideoReceiver), the timer (TimerDev), which implements  *)
(* the timer of exact period (PeriodicTimer), and the tracer of the         *)
(* operating system calls (OsCalls); for every sequence of accesses, every  *)
(* page and byte size, every set of frame and block numbers, every width of *)
(* the registers and prescaler, any set of tasks and any size of the stack. *)
(***************************************************************************)
EXTENDS Gpio, MemoryMap, VideoReceiver, TimerDev, OsCalls, FiniteSetTheorems, SequenceTheorems, TLAPS

----------------------------------------------------------------------------
(* The GPIO                                                                *)

GpioType ==
    gpio \in [data : SUBSET GpioPins, pindir : SUBSET GpioPins, driver : BOOLEAN,
              led : {"none", "on", "off"}]

\* The pins agree with what the driver asked for, whether it has made the LED's
\* pin an output or not, and its own stores leave the button's pin alone.
GpioInv ==
    /\ GpioType
    /\ gpio.driver => GpioButton \in gpio.data
    /\ gpio.led = "on" => GpioLed \notin gpio.data
    /\ gpio.led = "off" => GpioLed \in gpio.data

LEMMA GpioInitInv == GpioInit => GpioInv
BY DEF GpioInit, GpioInv, GpioType, GpioPins, GpioButton, GpioLed

LEMMA GpioNextInv == GpioInv /\ [GpioNext]_gpio => GpioInv'
<1> SUFFICES ASSUME GpioInv, [GpioNext]_gpio PROVE GpioInv'
  OBVIOUS
<1> USE DEF GpioInv, GpioType
<1>1. CASE GpioStore
  <2>1. PICK reg \in GpioRegs, val \in SUBSET GpioPins :
            gpio' = [GpioWrite(gpio, reg, val) EXCEPT !.driver = FALSE, !.led = "none"]
    BY <1>1 DEF GpioStore
  <2>2. GpioWrite(gpio, reg, val) \in [data : SUBSET GpioPins, pindir : SUBSET GpioPins,
                                       driver : BOOLEAN, led : {"none", "on", "off"}]
    BY DEF GpioWrite, GpioRegs
  <2> QED
    BY <2>1, <2>2
<1>2. CASE gpio_init
  BY <1>2 DEF gpio_init, GpioOr, GpioWrite, GpioRead, GpioPins, GpioLed, GpioButton
<1>3. CASE led_on_off
  <2>1. CASE gpio' = [GpioOr(gpio, "CLR", GpioLed) EXCEPT !.led = "on"]
    <3>1. GpioRead(gpio, "CLR") = {}
      BY DEF GpioRead
    <3>2. GpioOr(gpio, "CLR", GpioLed) = [gpio EXCEPT !.data = @ \ {GpioLed}]
      BY <3>1 DEF GpioOr, GpioWrite
    <3> QED
      BY <2>1, <3>2 DEF GpioPins, GpioLed, GpioButton
  <2>2. CASE gpio' = [GpioOr(gpio, "SET", GpioLed) EXCEPT !.led = "off"]
    <3>1. GpioRead(gpio, "SET") = {}
      BY DEF GpioRead
    <3>2. GpioOr(gpio, "SET", GpioLed) = [gpio EXCEPT !.data = @ \cup {GpioLed}]
      BY <3>1 DEF GpioOr, GpioWrite
    <3> QED
      BY <2>2, <3>2 DEF GpioPins, GpioLed, GpioButton
  <2> QED
    BY <1>3, <2>1, <2>2 DEF led_on_off
<1>4. CASE UNCHANGED gpio
  BY <1>4
<1> QED
  BY <1>1, <1>2, <1>3, <1>4 DEF GpioNext

\* Firmware that only uses the driver sees the LED it asked for and never the
\* reset button pressed, after every sequence of accesses (gpio.c:33).
THEOREM GpioDriverCorrect == GpioInit /\ [][GpioNext]_gpio => []GpioDriverIsRight
<1>1. GpioInv => GpioDriverIsRight
  BY DEF GpioInv, GpioType, GpioDriverIsRight, is_reset_button_pressed, GpioRead, get_LED_state
<1> QED
  BY <1>1, GpioInitInv, GpioNextInv, PTL

----------------------------------------------------------------------------
(* The address space                                                       *)

\* One step of (data>>8) and &0xFF: digit and rest, with their bounds.
LEMMA MemShift ==
    ASSUME NEW v \in Nat
    PROVE  /\ v \div MemBase \in Nat /\ v % MemBase \in 0 .. (MemBase - 1)
           /\ v = (v % MemBase) + MemBase * (v \div MemBase)
           /\ v < MemBase => v \div MemBase = 0 /\ v % MemBase = v
           /\ \A m \in Nat : v < MemBase * m => v \div MemBase < m
<1>1. MemBase \in Nat /\ MemBase > 1
  BY MemAssumption
<1>2. PICK q \in Int, r \in Int : q = v \div MemBase /\ r = v % MemBase
  BY <1>1
<1>3. r \in 0 .. (MemBase - 1) /\ v = MemBase * q + r
  BY <1>1, <1>2
<1>4. \A x, y \in Nat : x * y >= 0
  OBVIOUS
<1>5. q >= 0
  <2> SUFFICES ASSUME -q >= 1 PROVE FALSE
    BY <1>2
  <2>1. MemBase * (-q - 1) >= 0
    BY <1>1, <1>4
  <2>2. MemBase * (-q - 1) = -(MemBase * q) - MemBase
    BY <1>1
  <2> QED
    BY <1>1, <1>3, <2>1, <2>2
<1>6. ASSUME NEW m \in Nat, v < MemBase * m
      PROVE  q < m
  <2> SUFFICES ASSUME q - m >= 0 PROVE FALSE
    BY <1>2
  <2>1. MemBase * (q - m) >= 0
    BY <1>1, <1>4
  <2>2. MemBase * (q - m) = MemBase * q - MemBase * m
    BY <1>1
  <2> QED
    BY <1>1, <1>3, <1>6, <2>1, <2>2
<1>7. ASSUME v < MemBase PROVE q = 0 /\ r = v
  <2>1. q < 1
    BY <1>1, <1>6, <1>7
  <2> QED
    BY <1>1, <1>3, <1>5, <2>1
<1> QED
  BY <1>1, <1>2, <1>3, <1>5, <1>6, <1>7

\* The bytes of an access inside a page are neighbours, remapped or not
\* (memory.c:84-86).
LEMMA MemBytes ==
    ASSUME NEW sz \in MemSizes, NEW a \in MemAddr, MemInside(sz, a), NEW i \in 0 .. (sz - 1)
    PROVE  MemPhys(a + i) = MemPhys(a) + i /\ MemPhys(a) + i \in MemAddr /\ MemPhys(a) \in MemAddr
<1>1. MemPage \in Nat \ {0} /\ a \in Nat /\ a < 2 * MemPage /\ sz \in Nat
  BY MemAssumption DEF MemAddr, MemSizes
<1>2. a % MemPage = IF a < MemPage THEN a ELSE a - MemPage
  BY <1>1, SMTT(30)
<1>3. a < MemPage => a + i < MemPage
  BY <1>1, <1>2 DEF MemInside
<1>4. a >= MemPage => a + i < 2 * MemPage
  BY <1>1, <1>2 DEF MemInside
<1> QED
  BY <1>1, <1>3, <1>4 DEF MemPhys, MemAddr

\* A load of one byte.
LEMMA MemOneByte ==
    ASSUME NEW x \in Int
    PROVE  MemGet(1, x) = mm.bytes[MemPhys(x) + 0]
<1> DEFINE b == [i \in 0 .. 0 |-> mm.bytes[MemPhys(x) + i]]
<1>1. 0 .. (1 - 1) = 0 .. 0 /\ \A i \in 0 .. 0 : i = 0
  OBVIOUS
<1>2. b[0] = mm.bytes[MemPhys(x) + 0]
  OBVIOUS
<1>3. MemGet(1, x) = MemJoin(1, b)
  BY <1>1, Zenon DEF MemGet
<1> HIDE DEF b
<1>4. MemJoin(1, b) = IF b[0] = MemUndef THEN MemUndef ELSE b[0]
  BY <1>1 DEF MemJoin
<1> QED
  BY <1>2, <1>3, <1>4

\* A load is made of loads of its bytes.
LEMMA MemWholeIsGet ==
    ASSUME NEW sz \in MemSizes, NEW a \in MemAddr, MemInside(sz, a)
    PROVE  MemGet(sz, a) = MemWhole(sz, a)
<1>1. ASSUME NEW i \in 0 .. (sz - 1)
      PROVE  MemGet(1, a + i) = mm.bytes[MemPhys(a) + i]
  <2>1. MemPhys(a + i) = MemPhys(a) + i /\ MemPhys(a) + i \in Int /\ a + i \in Int
    BY MemBytes, MemAssumption DEF MemAddr
  <2>2. MemPhys(a + i) + 0 = MemPhys(a) + i
    BY <2>1
  <2> QED
    BY <2>1, <2>2, MemOneByte
<1>2. [i \in 0 .. (sz - 1) |-> MemGet(1, a + i)] = [i \in 0 .. (sz - 1) |-> mm.bytes[MemPhys(a) + i]]
  BY <1>1
<1> QED
  BY <1>2, Zenon DEF MemGet, MemWhole

\* With the remap bit the flash addresses are the SDRAM (cpe.c:76-85).
LEMMA MemRemapped ==
    ASSUME NEW sz \in MemSizes, NEW a \in MemAddr, mm.remap
    PROVE  MemGet(sz, a) = MemGet(sz, a % MemPage)
<1>1. MemPage \in Nat \ {0} /\ a \in Nat /\ a < 2 * MemPage
  BY MemAssumption DEF MemAddr
<1>2. a % MemPage = IF a < MemPage THEN a ELSE a - MemPage
  BY <1>1, SMTT(30)
<1>3. a % MemPage < MemPage
  BY <1>1, <1>2
<1>4. MemPhys(a) = MemPhys(a % MemPage)
  BY <1>1, <1>2, <1>3 DEF MemPhys
<1> QED
  BY <1>4, Zenon DEF MemGet

\* Joining the digits that MemSet stores gives the value again, of each size:
\* the shifts of memory_set_word undo the loop of memory_get_word.
LEMMA MemDigits ==
    ASSUME NEW sz \in MemSizes, NEW val \in MemValues(sz), NEW b,
           \A i \in 0 .. (sz - 1) : b[i] = MemByteOf(val, i)
    PROVE  MemJoin(sz, b) = val
<1> DEFINE B == MemBase
           v1 == val \div B
           v2 == v1 \div B
           v3 == v2 \div B
<1>1. B \in Nat /\ B > 1
  BY MemAssumption
<1>2. val \in Nat /\ v1 \in Nat /\ v2 \in Nat /\ v3 \in Nat
  <2>1. B * B \in Nat /\ (B * B) * (B * B) \in Nat
    BY <1>1
  <2>2. val \in Nat
    BY <2>1, <1>1 DEF MemValues, MemSizes
  <2>3. v1 \in Nat
    BY <2>2, MemShift
  <2>4. v2 \in Nat
    BY <2>3, MemShift
  <2> QED
    BY <2>2, <2>3, <2>4, MemShift
<1>3. /\ val = (val % B) + B * v1 /\ val % B \in Nat
      /\ v1 = (v1 % B) + B * v2 /\ v1 % B \in Nat
      /\ v2 = (v2 % B) + B * v3 /\ v2 % B \in Nat
      /\ v3 % B \in Nat
  <2>1. \A v \in Nat : v = (v % B) + B * (v \div B) /\ v % B \in Nat
    BY MemShift, <1>1
  <2> QED
    BY <1>2, <2>1
<1>4. \A v \in Nat : v < B => v \div B = 0 /\ v % B = v
  BY MemShift
<1>5. \A v, m \in Nat : v < B * m => v \div B < m
  BY MemShift
<1>6. /\ MemByteOf(val, 0) = val % B /\ MemByteOf(val, 1) = v1 % B
      /\ MemByteOf(val, 2) = v2 % B /\ MemByteOf(val, 3) = v3 % B
  BY DEF MemByteOf
<1>7. CASE sz = 1
  <2>1. val < B
    BY <1>1, <1>7 DEF MemValues
  <2>2. b[0] = val /\ \A i \in 0 .. (sz - 1) : i = 0
    BY <1>2, <1>4, <1>6, <1>7, <2>1
  <2>3. b[0] # MemUndef
    BY <1>2, <2>2 DEF MemUndef
  <2> QED
    BY <1>7, <2>2, <2>3 DEF MemJoin
<1>8. CASE sz = 2
  <2>1. val < B * B /\ B * B \in Nat
    BY <1>1, <1>2, <1>8 DEF MemValues
  <2>2. v1 < B
    BY <1>1, <1>2, <1>5, <2>1
  <2>3. v1 % B = v1
    BY <1>2, <1>4, <2>2
  <2>4. /\ b[0] = val % B /\ b[1] = v1
        /\ \A i \in 0 .. (sz - 1) : i = 0 \/ i = 1
    BY <1>6, <1>8, <2>3
  <2>5. \A i \in 0 .. (sz - 1) : b[i] # MemUndef
    BY <1>2, <1>3, <2>4 DEF MemUndef
  <2>6. MemJoin(sz, b) = b[0] + MemBase * b[1]
    BY <1>8, <2>5 DEF MemJoin
  <2> QED
    BY <1>3, <2>4, <2>6
<1>9. CASE sz = 4
  <2>1. B * B \in Nat /\ B * (B * B) \in Nat /\ (B * B) * (B * B) = B * (B * (B * B))
    BY <1>1
  <2>2. val < B * (B * (B * B))
    BY <1>1, <1>2, <1>9, <2>1 DEF MemValues
  <2>3. v1 < B * (B * B)
    BY <1>2, <1>5, <2>1, <2>2
  <2>4. v2 < B * B
    BY <1>2, <1>5, <2>1, <2>3
  <2>5. v3 < B
    BY <1>1, <1>2, <1>5, <2>4
  <2>6. v3 % B = v3
    BY <1>2, <1>4, <2>5
  <2>7. /\ b[0] = val % B /\ b[1] = v1 % B /\ b[2] = v2 % B /\ b[3] = v3
        /\ \A i \in 0 .. (sz - 1) : i = 0 \/ i = 1 \/ i = 2 \/ i = 3
    BY <1>6, <1>9, <2>6
  <2>8. \A i \in 0 .. (sz - 1) : b[i] # MemUndef
    BY <1>2, <1>3, <2>7 DEF MemUndef
  <2>9. MemJoin(sz, b) = b[0] + MemBase * (b[1] + MemBase * (b[2] + MemBase * b[3]))
    BY <1>9, <2>8 DEF MemJoin
  <2> QED
    BY <1>3, <2>7, <2>9
<1> QED
  BY <1>7, <1>8, <1>9 DEF MemSizes

\* The invariant: the bytes of the last store are still where the remap bit of
\* that moment put them.
MemShape == \E b, r, l : mm = [bytes |-> b, remap |-> r, last |-> l]

MemKept ==
    mm.last.sz # 0 =>
       /\ mm.last.sz \in MemSizes /\ mm.last.val \in MemValues(mm.last.sz)
       /\ \A i \in 0 .. (mm.last.sz - 1) :
             mm.bytes[MemPhys(mm.last.addr) + i] = MemByteOf(mm.last.val, i)

MemIInv == MemShape /\ MemKept

LEMMA MemInitInv == MemInit => MemIInv
<1> SUFFICES ASSUME MemInit PROVE MemIInv
  OBVIOUS
<1>1. PICK f \in MemFiles :
        mm = [bytes |-> [p \in MemAddr |-> IF p < MemPage THEN f[p] ELSE 0],
              remap |-> FALSE, last |-> MemNoStore]
  BY DEF MemInit
<1>2. MemShape /\ mm.last = MemNoStore
  BY <1>1 DEF MemShape
<1> QED
  BY <1>2 DEF MemIInv, MemKept, MemNoStore

LEMMA MemKeptStep == MemIInv /\ [MemNext]_mm => MemIInv'
<1> SUFFICES ASSUME MemIInv, [MemNext]_mm PROVE MemIInv'
  OBVIOUS
<1>1. PICK b, r, l : mm = [bytes |-> b, remap |-> r, last |-> l]
  BY DEF MemIInv, MemShape
<1>2. CASE MemStore
  <2>1. PICK sz \in MemSizes, a \in MemAddr : \E val \in MemValues(sz) :
          /\ MemInside(sz, a)
          /\ mm' = [mm EXCEPT !.bytes = MemSet(sz, a, val),
                              !.last = [sz |-> sz, addr |-> a, val |-> val]]
    BY <1>2 DEF MemStore
  <2>2. PICK val \in MemValues(sz) :
          /\ MemInside(sz, a)
          /\ mm' = [mm EXCEPT !.bytes = MemSet(sz, a, val),
                              !.last = [sz |-> sz, addr |-> a, val |-> val]]
    BY <2>1
  <2>3. PICK m : m = MemSet(sz, a, val)
    OBVIOUS
  <2>4. mm' = [bytes |-> m, remap |-> r, last |-> [sz |-> sz, addr |-> a, val |-> val]]
    BY <1>1, <2>2, <2>3
  <2>5. /\ mm'.bytes = m /\ mm'.remap = mm.remap
        /\ mm'.last.sz = sz /\ mm'.last.addr = a /\ mm'.last.val = val
    BY <1>1, <2>4
  <2>6. MemPhys(a)' = MemPhys(a)
    BY <2>5 DEF MemPhys
  <2>7. ASSUME NEW i \in 0 .. (sz - 1)
        PROVE  m[MemPhys(a) + i] = MemByteOf(val, i)
    <3>1. PICK p : p = MemPhys(a)
      OBVIOUS
    <3>2. p \in Int /\ p + i \in MemAddr /\ sz \in Int
      BY <2>2, <3>1, MemBytes, MemAssumption DEF MemAddr, MemSizes
    <3>3. p + i \in p .. (p + sz - 1) /\ (p + i) - p = i
      BY <3>2
    <3>4. m = [q \in MemAddr |-> IF q \in p .. (p + sz - 1) THEN MemByteOf(val, q - p)
                                 ELSE mm.bytes[q]]
      BY <2>3, <3>1, Zenon DEF MemSet
    <3>5. m[p + i] = MemByteOf(val, (p + i) - p)
      BY <3>2, <3>3, <3>4
    <3> QED
      BY <3>1, <3>3, <3>5
  <2>8. MemKept'
    BY <2>5, <2>6, <2>7 DEF MemKept
  <2> QED
    BY <2>4, <2>8 DEF MemIInv, MemShape
<1>3. CASE memory_set_page
  <2>1. mm'.last = MemNoStore /\ MemShape'
    BY <1>1, <1>3 DEF memory_set_page, MemShape
  <2> QED
    BY <2>1 DEF MemIInv, MemKept, MemNoStore
<1>4. CASE CpeWrite
  <2>1. mm'.last = MemNoStore /\ MemShape'
    BY <1>1, <1>4 DEF CpeWrite, MemShape
  <2> QED
    BY <2>1 DEF MemIInv, MemKept, MemNoStore
<1>5. CASE UNCHANGED mm
  BY <1>5 DEF MemIInv, MemShape, MemKept, MemPhys
<1> QED
  BY <1>2, <1>3, <1>4, <1>5 DEF MemNext

\* The three sizes are views of the same bytes, before and after the remap, and
\* what was stored last is read back, for every page size and every byte base
\* (memory.c:84-102, 166-173, 228-285, cpe.c:76-85).
THEOREM LoadsAgree == MemInit /\ [][MemNext]_mm => []MemSizesAgree
<1>1. MemIInv => MemSizesAgree
  <2> SUFFICES ASSUME MemIInv, mm.last.sz # 0
               PROVE  MemGet(mm.last.sz, mm.last.addr) = mm.last.val
    BY MemWholeIsGet, MemRemapped DEF MemSizesAgree
  <2>1. PICK sz, a, val : /\ sz = mm.last.sz /\ sz \in MemSizes
                          /\ a = mm.last.addr /\ val = mm.last.val
    BY DEF MemIInv, MemKept
  <2> DEFINE b == [i \in 0 .. (sz - 1) |-> mm.bytes[MemPhys(a) + i]]
  <2>2. val \in MemValues(sz) /\ \A i \in 0 .. (sz - 1) : b[i] = MemByteOf(val, i)
    BY <2>1 DEF MemIInv, MemKept
  <2>3. MemGet(sz, a) = MemJoin(sz, b)
    BY Zenon DEF MemGet
  <2> HIDE DEF b
  <2>4. MemJoin(sz, b) = val
    BY <2>1, <2>2, MemDigits
  <2> QED
    BY <2>1, <2>3, <2>4
<1> QED
  BY <1>1, MemInitInv, MemKeptStep, PTL

\* A store of any size at any address, remapped or not, changes only its own
\* bytes (memory.c:228-285).
THEOREM StoresCorrect == MemInit /\ [][MemNext]_mm => MemStoresInPlace
<1>1. MemIInv => MemShape
  BY DEF MemIInv
<1> DEFINE InPlace ==
        LET s == mm'.last
        IN s.sz # 0 => \A q \in MemAddr :
                          mm'.bytes[q] # mm.bytes[q] => q - MemPhys(s.addr) \in 0..(s.sz - 1)
<1>2. MemShape /\ [MemNext]_mm => [InPlace]_mm
  <2> SUFFICES ASSUME MemShape, MemNext PROVE InPlace
    OBVIOUS
  <2>1. PICK b, r, l : mm = [bytes |-> b, remap |-> r, last |-> l]
    BY DEF MemShape
  <2>2. CASE MemStore
    <3>1. PICK sz \in MemSizes, a \in MemAddr : \E val \in MemValues(sz) :
            mm' = [mm EXCEPT !.bytes = MemSet(sz, a, val),
                             !.last = [sz |-> sz, addr |-> a, val |-> val]]
      BY <2>2 DEF MemStore
    <3>2. PICK val : /\ mm'.bytes = MemSet(sz, a, val)
                     /\ mm'.last.sz = sz /\ mm'.last.addr = a
      BY <2>1, <3>1
    <3>3. MemPhys(a) \in Int /\ sz \in Int
      BY MemAssumption DEF MemPhys, MemAddr, MemSizes
    <3>4. ASSUME NEW q \in MemAddr, mm'.bytes[q] # mm.bytes[q]
          PROVE  q - MemPhys(a) \in 0..(sz - 1)
      <4>1. q \in Int
        BY MemAssumption DEF MemAddr
      <4>2. q \in MemPhys(a)..(MemPhys(a) + sz - 1)
        BY <3>2, <3>4 DEF MemSet
      <4> QED
        BY <4>1, <4>2, <3>3
    <3> QED
      BY <3>2, <3>4
  <2>3. CASE memory_set_page
    BY <2>1, <2>3 DEF memory_set_page, MemNoStore
  <2>4. CASE CpeWrite
    BY <2>1, <2>4 DEF CpeWrite, MemNoStore
  <2> QED
    BY <2>2, <2>3, <2>4 DEF MemNext
<1> QED
  BY <1>1, <1>2, MemInitInv, MemKeptStep, PTL DEF MemStoresInPlace

----------------------------------------------------------------------------
(* The receiver of video frames                                            *)

RcvType ==
    /\ rcv \in [state : {"recv", "done"}, run : BOOLEAN, marker : BOOLEAN, write : BOOLEAN,
                previous : [frame : RcvFrames \cup {0}, number : Int],
                data : Seq(RcvBlock), out : Seq(RcvBlock)]

\* The first k blocks of data are blocks 0, 1, ..., k-1, the others last blocks.
Ordered(data, k) ==
    /\ k \in 1..Len(data)
    /\ \A i \in 1..k : ~data[i].last /\ data[i].block = i - 1
    /\ \A i \in (k + 1)..Len(data) : data[i].last

\* data is in order and number is what RcvReceive may compare the next block with.
Follows(data, number) ==
    \E k \in Nat : /\ Ordered(data, k)
                   /\ k = Len(data) => number = k - 1
                   /\ k # Len(data) => number >= 32768

\* As long as the frame is to be written its blocks are in order, and the number
\* kept of the block before is its number, or one with the mark of a last block:
\* none of the numbers that may follow.
RcvInv ==
    /\ RcvType
    /\ rcv.write => Follows(rcv.data, rcv.previous.number)
    /\ RcvWritesInOrder

LEMMA RcvInitInv == RcvInit => RcvInv
BY DEF RcvInit, RcvInv, RcvType, RcvWritesInOrder

\* The number of a block with the mark is at least 32768, that of any other less.
LEMMA BlockNumber ==
    ASSUME NEW b \in RcvBlock
    PROVE  /\ b.frame \in RcvFrames /\ RcvNumber(b) \in Nat
           /\ b.last => RcvNumber(b) >= 32768
           /\ ~b.last => RcvNumber(b) = b.block /\ RcvNumber(b) < 32768
<1> DEFINE block == b.block
           number == RcvNumber(b)
<1>1. block \in RcvBlocks /\ b.frame \in RcvFrames
  BY DEF RcvBlock
<1>2. (b.last => number = 32768 + block) /\ (~b.last => number = block)
  BY DEF RcvNumber
<1> HIDE DEF block, number
<1>3. \A n \in RcvBlocks : n \in 0..32767
  BY RcvAssumption
<1>4. block \in 0..32767
  BY <1>1, <1>3
<1>5. CASE b.last
  <2>1. number \in Nat /\ number >= 32768
    BY <1>2, <1>4, <1>5
  <2> QED
    BY <2>1, <1>1, <1>5 DEF number
<1>6. CASE ~b.last
  <2>1. number \in Nat /\ number = block /\ number < 32768
    BY <1>2, <1>4, <1>6
  <2> QED
    BY <2>1, <1>1, <1>6 DEF number, block
<1> QED
  BY <1>5, <1>6

\* One more block on a frame that is still to be written.
LEMMA AppendOrdered ==
    ASSUME NEW data \in Seq(RcvBlock), NEW k \in Nat, NEW b \in RcvBlock, Ordered(data, k)
    PROVE  /\ b.last => Ordered(Append(data, b), k)
           /\ (~b.last /\ k = Len(data) /\ b.block = k) => Ordered(Append(data, b), k + 1)
<1> DEFINE new == Append(data, b)
<1>1. /\ Len(new) = Len(data) + 1 /\ Len(data) \in Nat
      /\ \A i \in 1..Len(data) : new[i] = data[i]
      /\ new[Len(data) + 1] = b
  OBVIOUS
<1>2. /\ k \in 1..Len(data)
      /\ \A i \in 1..k : ~data[i].last /\ data[i].block = i - 1
      /\ \A i \in (k + 1)..Len(data) : data[i].last
  BY DEF Ordered
<1> HIDE DEF new
<1>3. ASSUME b.last PROVE Ordered(new, k)
  <2>1. ASSUME NEW i \in (k + 1)..Len(new) PROVE new[i].last
    <3>1. CASE i = Len(data) + 1
      BY <3>1, <1>1, <1>3
    <3>2. CASE i \in (k + 1)..Len(data)
      BY <3>2, <1>1, <1>2
    <3> QED
      BY <2>1, <3>1, <3>2, <1>1
  <2>2. \A i \in 1..k : new[i] = data[i]
    BY <1>1, <1>2
  <2>3. k \in 1..Len(new)
    BY <1>1, <1>2
  <2> QED
    BY <2>1, <2>2, <2>3, <1>2 DEF Ordered
<1>4. ASSUME ~b.last, k = Len(data), b.block = k PROVE Ordered(new, k + 1)
  <2>1. \A i \in 1..(k + 1) : ~new[i].last /\ new[i].block = i - 1
    <3> SUFFICES ASSUME NEW i \in 1..(k + 1) PROVE ~new[i].last /\ new[i].block = i - 1
      OBVIOUS
    <3>1. CASE i = k + 1
      BY <3>1, <1>1, <1>4
    <3>2. CASE i \in 1..k
      BY <3>2, <1>1, <1>2, <1>4
    <3> QED
      BY <3>1, <3>2
  <2>2. k + 1 \in 1..Len(new) /\ (k + 1 + 1)..Len(new) = {}
    BY <1>1, <1>4
  <2> QED
    BY <2>1, <2>2 DEF Ordered
<1> QED
  BY <1>3, <1>4 DEF new

\* A step that leaves the frame and what was written alone.
LEMMA RcvFrameKept ==
    ASSUME RcvInv, RcvType',
           UNCHANGED <<rcv.write, rcv.data, rcv.out, rcv.previous>>
    PROVE  RcvInv'
BY DEF RcvInv, RcvWritesInOrder

LEMMA RcvNextInv == RcvInv /\ [RcvNext]_rcv => RcvInv'
<1> SUFFICES ASSUME RcvInv, [RcvNext]_rcv PROVE RcvInv'
  OBVIOUS
<1>1. CASE RcvMarker
  <2>1. RcvType' /\ UNCHANGED <<rcv.write, rcv.data, rcv.out, rcv.previous>>
    BY <1>1 DEF RcvMarker, RcvInv, RcvType
  <2> QED
    BY <2>1, RcvFrameKept
<1>2. CASE RcvUnknown
  <2>1. RcvType' /\ UNCHANGED <<rcv.write, rcv.data, rcv.out, rcv.previous>>
    BY <1>2 DEF RcvUnknown, RcvInv, RcvType
  <2> QED
    BY <2>1, RcvFrameKept
<1>3. CASE RcvReceive
  <2>1. PICK b \in RcvBlock :
          LET data == IF RcvStarts(b) THEN <<b>> ELSE Append(rcv.data, b)
              write == (rcv.write \/ RcvStarts(b)) /\ ~RcvDamaged(b)
          IN rcv' = [rcv EXCEPT !.state = IF rcv.run THEN "recv" ELSE "done", !.marker = FALSE,
                                !.previous = [frame |-> b.frame, number |-> RcvNumber(b)],
                                !.write = write, !.data = data,
                                !.out = IF b.last /\ write THEN data ELSE @]
    BY <1>3 DEF RcvReceive
  <2> DEFINE data == IF RcvStarts(b) THEN <<b>> ELSE Append(rcv.data, b)
             write == (rcv.write \/ RcvStarts(b)) /\ ~RcvDamaged(b)
             out == IF b.last /\ write THEN data ELSE rcv.out
  <2>2. /\ b.frame \in RcvFrames /\ RcvNumber(b) \in Nat
        /\ b.last => RcvNumber(b) >= 32768
        /\ ~b.last => RcvNumber(b) = b.block /\ RcvNumber(b) < 32768
    BY BlockNumber
  <2>3. rcv.data \in Seq(RcvBlock) /\ rcv.out \in Seq(RcvBlock) /\ rcv.write \in BOOLEAN
    BY DEF RcvInv, RcvType
  <2>4. data \in Seq(RcvBlock) /\ out \in Seq(RcvBlock) /\ write \in BOOLEAN
    BY <2>3
  <2>5. /\ rcv'.previous.number = RcvNumber(b) /\ rcv'.write = write
        /\ rcv'.data = data /\ rcv'.out = out
    BY <2>1, <2>3 DEF RcvInv, RcvType
  <2>6. RcvType'
    <3>1. [frame |-> b.frame, number |-> RcvNumber(b)] \in [frame : RcvFrames \cup {0}, number : Int]
      BY <2>2
    <3>2. rcv' = [rcv EXCEPT !.state = IF rcv.run THEN "recv" ELSE "done", !.marker = FALSE,
                             !.previous = [frame |-> b.frame, number |-> RcvNumber(b)],
                             !.write = write, !.data = data, !.out = out]
      BY <2>1
    <3> HIDE DEF data, write, out
    <3> QED
      BY <3>1, <3>2, <2>4 DEF RcvInv, RcvType
  <2>7. ASSUME write PROVE Follows(data, RcvNumber(b))
    <3>1. CASE RcvStarts(b)
      <4>1. data = <<b>> /\ ~b.last /\ b.block = 0
        BY <3>1 DEF RcvStarts
      <4>2. Ordered(<<b>>, 1) /\ Len(<<b>>) = 1 /\ RcvNumber(b) = 0
        BY <4>1, <2>2 DEF Ordered
      <4>3. Follows(<<b>>, RcvNumber(b))
        BY <4>2 DEF Follows
      <4> QED
        BY <4>1, <4>3
    <3>2. CASE ~RcvStarts(b)
      <4>1. rcv.write /\ ~RcvDamaged(b) /\ data = Append(rcv.data, b)
        BY <2>7, <3>2
      <4>2. PICK k \in Nat :
              /\ Ordered(rcv.data, k)
              /\ k = Len(rcv.data) => rcv.previous.number = k - 1
              /\ k # Len(rcv.data) => rcv.previous.number >= 32768
        BY <4>1 DEF RcvInv, Follows
      <4>3. /\ Len(rcv.data) \in Nat /\ Len(data) = Len(rcv.data) + 1
            /\ k <= Len(rcv.data)
        BY <2>3, <4>1, <4>2 DEF Ordered
      <4> HIDE DEF data
      <4> DEFINE number == RcvNumber(b)
                 previous == rcv.previous.number
                 length == Len(rcv.data)
      <4>4. CASE b.last
        <5>1. Ordered(data, k)
          BY <4>1, <4>2, <4>4, <2>3, AppendOrdered
        <5>2. number >= 32768
          BY <4>4, <2>2
        <5>3. k # Len(data)
          BY <4>2, <4>3
        <5> QED
          BY <5>1, <5>2, <5>3 DEF Follows
      <4>5. CASE ~b.last
        <5>1. number = previous + 1 /\ number = b.block /\ number < 32768 /\ number \in Nat
          BY <4>1, <4>5, <3>2, <2>2 DEF RcvDamaged
        <5>2. previous \in Int
          BY DEF RcvInv, RcvType
        <5>3. (k = length => previous = k - 1) /\ (k # length => previous >= 32768)
          BY <4>2
        <5> HIDE DEF number, previous, length
        <5>4. k = length /\ number = k
          BY <5>1, <5>2, <5>3, <4>2
        <5>5. Ordered(data, k + 1)
          <6>1. k = Len(rcv.data)
            BY <5>4 DEF length
          <6>2. b.block = k
            BY <5>1, <5>4
          <6> QED
            BY <6>1, <6>2, <4>1, <4>2, <4>5, <2>3, AppendOrdered
        <5>6. k + 1 = Len(data) /\ number = (k + 1) - 1
          BY <5>4, <4>3 DEF length
        <5> QED
          BY <5>5, <5>6 DEF Follows, number
      <4> QED
        BY <4>4, <4>5
    <3> QED
      BY <3>1, <3>2
  <2>8. ASSUME out # <<>>
        PROVE  \E k \in 1..Len(out) :
                  /\ \A i \in 1..k : ~out[i].last /\ out[i].block = i - 1
                  /\ \A i \in (k + 1)..Len(out) : out[i].last
    <3>1. CASE b.last /\ write
      <4>1. PICK k \in Nat : Ordered(data, k)
        BY <3>1, <2>7 DEF Follows
      <4> HIDE DEF data, write
      <4>2. out = data
        BY <3>1
      <4> QED
        BY <4>1, <4>2 DEF Ordered
    <3>2. CASE ~(b.last /\ write)
      BY <3>2, <2>8 DEF RcvInv, RcvWritesInOrder
    <3> QED
      BY <3>1, <3>2
  <2> HIDE DEF data, write, out
  <2>9. RcvWritesInOrder'
    BY <2>5, <2>8 DEF RcvWritesInOrder
  <2> QED
    BY <2>5, <2>6, <2>7, <2>9 DEF RcvInv
<1>4. CASE RcvCtrlC
  <2>1. RcvType' /\ UNCHANGED <<rcv.write, rcv.data, rcv.out, rcv.previous>>
    BY <1>4 DEF RcvCtrlC, RcvInv, RcvType
  <2> QED
    BY <2>1, RcvFrameKept
<1>5. CASE UNCHANGED rcv
  BY <1>5 DEF RcvInv, RcvType, RcvWritesInOrder
<1> QED
  BY <1>1, <1>2, <1>3, <1>4, <1>5 DEF RcvNext

\* Whatever the network delivers, a frame that is written has its blocks in
\* order and without a gap up to its last blocks (receive.c:190-241).
THEOREM ReceiverCorrect == RcvInit /\ [][RcvNext]_rcv => []RcvWritesInOrder
<1>1. RcvInv => RcvWritesInOrder
  BY DEF RcvInv
<1> QED
  BY <1>1, RcvInitInv, RcvNextInv, PTL

----------------------------------------------------------------------------
(* The timer                                                               *)

\* A difference of two words, reduced to a word.
LEMMA ModOfDifference ==
    ASSUME NEW v \in Int, -WordSize <= v, v < WordSize
    PROVE  v % WordSize = IF v < 0 THEN v + WordSize ELSE v
<1>1. WordSize \in Nat /\ WordSize > 1
  BY TimerAssumption
<1>2. CASE v >= 0
  <2>1. v % WordSize = v
    BY <1>1, <1>2, SMTT(30)
  <2> QED BY <2>1, <1>2
<1>3. CASE v < 0
  <2>1. v % WordSize = v + WordSize
    BY <1>1, <1>3, SMTT(30)
  <2> QED BY <2>1, <1>3
<1> QED
  BY <1>2, <1>3

\* Decrements from c to m, modulo the word size.
Distance(c, m) == (c - m - 1) % WordSize

LEMMA DistanceFacts ==
    ASSUME NEW c \in TimerWord, NEW m \in TimerWord
    PROVE  /\ Distance(c, m) \in TimerWord
           /\ (c - 1) % WordSize \in TimerWord
           /\ (c - 1) % WordSize = m => Distance(c, m) = 0
           /\ (c - 1) % WordSize # m =>
                 Distance(c, m) > 0 /\ Distance((c - 1) % WordSize, m) = Distance(c, m) - 1
<1>1. /\ WordSize \in Nat /\ WordSize > 1
      /\ c \in Int /\ 0 <= c /\ c < WordSize /\ m \in Int /\ 0 <= m /\ m < WordSize
  BY TimerAssumption DEF TimerWord
<1> DEFINE w == WordSize
           dec == (c - 1) % WordSize
           far == (c - m - 1) % WordSize
           next == (dec - m - 1) % WordSize
<1>2. dec = IF c - 1 < 0 THEN c - 1 + w ELSE c - 1
  BY <1>1, ModOfDifference
<1>3. far = IF c - m - 1 < 0 THEN c - m - 1 + w ELSE c - m - 1
  BY <1>1, ModOfDifference
<1> HIDE DEF dec, far
<1>4. dec \in Int /\ 0 <= dec /\ dec < w
  BY <1>1, <1>2
<1>5. next = IF dec - m - 1 < 0 THEN dec - m - 1 + w ELSE dec - m - 1
  BY <1>1, <1>4, ModOfDifference
<1> HIDE DEF next, w
<1>6. /\ far \in Int /\ 0 <= far /\ far < w
      /\ dec = m => far = 0
      /\ dec # m => far > 0 /\ next = far - 1
  BY <1>1, <1>2, <1>3, <1>4, <1>5 DEF w
<1> QED
  BY <1>1, <1>4, <1>6 DEF Distance, TimerWord, dec, far, next, w

----------------------------------------------------------------------------
TimerType == tmr \in TimerState

LEMMA TimerTypeStep == TimerType /\ [TimerNext]_timervars => TimerType'
<1> SUFFICES ASSUME TimerType, [TimerNext]_timervars PROVE TimerType'
  OBVIOUS
<1> USE DEF TimerType
<1>1. CASE Tick
  <2>1. Decremented(tmr) \in TimerWord
    BY DistanceFacts DEF TimerState, Decremented
  <2>2. PrescalerReload \in 1..PrescalerReload
    BY TimerAssumption
  <2>3. tmr.prescaler > 1 => tmr.prescaler - 1 \in 1..PrescalerReload
    BY TimerAssumption DEF TimerState
  <2> QED
    BY <1>1, <2>1, <2>2, <2>3 DEF Tick, TimerTick, TimerState
<1>2. CASE WriteReg
  BY <1>2 DEF WriteReg, TimerWrite, TimerState, EnableBit
<1>3. CASE ClearIrq
  BY <1>3 DEF ClearIrq, TimerClearIrq, TimerState
<1>4. CASE UNCHANGED timervars
  BY <1>4 DEF timervars
<1> QED
  BY <1>1, <1>2, <1>3, <1>4 DEF TimerNext

LEMMA TimerTypeCorrect == TimerInit /\ [][TimerNext]_timervars => []TimerType
<1>1. TimerInit => TimerType
  BY TimerAssumption DEF TimerInit, TimerType, TimerReset, TimerState, TimerWord
<1> QED
  BY <1>1, TimerTypeStep, PTL

----------------------------------------------------------------------------
\* Steps of the prescaler for d decrements, the first already begun.
LEMMA StepsFacts ==
    ASSUME NEW d \in Nat, NEW s \in 1..PrescalerReload
    PROVE  /\ PrescalerReload * d + s \in Nat \ {0}
           /\ PrescalerReload * 0 + s = s
           /\ d > 0 => PrescalerReload * (d - 1) + PrescalerReload = PrescalerReload * d
<1>1. PrescalerReload \in Nat
  BY TimerAssumption
<1> QED
  BY <1>1, SMTT(30)

\* What is left of an interval and how long a period is are positive numbers.
LEMMA LeftPositive ==
    ASSUME NEW t \in TimerState
    PROVE  /\ PrescalerReload * Distance(t.cnt, t.match1) + t.prescaler \in Nat \ {0}
           /\ PrescalerReload * Distance(t.reload, t.match1) + PrescalerReload \in Nat \ {0}
<1>1. Distance(t.cnt, t.match1) \in Nat /\ Distance(t.reload, t.match1) \in Nat
  BY DistanceFacts, TimerAssumption DEF TimerState, TimerWord
<1>2. t.prescaler \in 1..PrescalerReload /\ PrescalerReload \in 1..PrescalerReload
  BY TimerAssumption DEF TimerState
<1> QED
  BY <1>1, <1>2, StepsFacts

LEMMA StepsLeftIs ==
    /\ StepsLeft = PrescalerReload * Distance(tmr.cnt, tmr.match1) + tmr.prescaler
    /\ StepsPerPeriod = PrescalerReload * Distance(tmr.reload, tmr.match1) + PrescalerReload
BY DEF StepsLeft, StepsPerPeriod, Distance

\* A tick passes one step of the interval, or ends it; it is never anything else.
LEMMA TickRefines ==
    ASSUME TimerType, TimerType', Tick
    PROVE  Promise!Step
<1> DEFINE far == Distance(tmr.cnt, tmr.match1)
           period == PrescalerReload * Distance(tmr.reload, tmr.match1) + PrescalerReload
<1>1. /\ tmr.cnt \in TimerWord /\ tmr.match1 \in TimerWord /\ tmr.reload \in TimerWord
      /\ tmr.prescaler \in 1..PrescalerReload /\ tmr.enabled \in BOOLEAN
      /\ tmr.pending \in BOOLEAN /\ far \in Nat
      /\ PrescalerReload \in Nat \ {0}
  BY DistanceFacts, TimerAssumption DEF TimerType, TimerState, TimerWord
<1>0. beat' = ~beat
  BY DEF Tick
<1>2. CASE ~tmr.enabled
  <2>1. tmr' = tmr
    BY <1>2 DEF Tick, TimerTick
  <2>2. Promise!Rest
    BY <1>2, <2>1 DEF Promise!Rest, StepsLeft, StepsPerPeriod
  <2> QED
    BY <1>0, <2>2 DEF Promise!Step
<1>3. CASE tmr.enabled /\ tmr.prescaler > 1
  <2>1. tmr' = [tmr EXCEPT !.prescaler = tmr.prescaler - 1]
    BY <1>3 DEF Tick, TimerTick
  <2>2. /\ tmr'.cnt = tmr.cnt /\ tmr'.match1 = tmr.match1 /\ tmr'.reload = tmr.reload
        /\ tmr'.enabled = tmr.enabled /\ tmr'.pending = tmr.pending
        /\ tmr'.prescaler = tmr.prescaler - 1
    BY <2>1 DEF TimerType, TimerState
  <2>3. StepsPerPeriod' = StepsPerPeriod
    BY <2>2 DEF StepsPerPeriod
  <2>4. PrescalerReload * far \in Nat
    BY <1>1, SMTT(30)
  <2>5. StepsLeft = PrescalerReload * far + tmr.prescaler
        /\ StepsLeft' = PrescalerReload * far + (tmr.prescaler - 1)
    BY <2>2, StepsLeftIs DEF Distance, StepsLeft
  <2> DEFINE rest == PrescalerReload * far
  <2> HIDE DEF rest
  <2>6. StepsLeft > 1 /\ StepsLeft' = StepsLeft - 1
    BY <1>1, <1>3, <2>4, <2>5 DEF rest
  <2>7. Promise!Wait
    BY <1>3, <2>2, <2>3, <2>6 DEF Promise!Wait
  <2> QED
    BY <1>0, <2>7 DEF Promise!Step
<1>4. CASE tmr.enabled /\ ~(tmr.prescaler > 1) /\ ~MatchDue(tmr)
  <2>1. tmr.prescaler = 1 /\ Decremented(tmr) # tmr.match1
    BY <1>1, <1>4 DEF MatchDue
  <2>2. tmr' = [tmr EXCEPT !.prescaler = PrescalerReload, !.cnt = Decremented(tmr)]
    BY <1>4 DEF Tick, TimerTick
  <2>3. /\ tmr'.cnt = (tmr.cnt - 1) % WordSize /\ tmr'.match1 = tmr.match1
        /\ tmr'.reload = tmr.reload /\ tmr'.prescaler = PrescalerReload
        /\ tmr'.enabled = tmr.enabled /\ tmr'.pending = tmr.pending
    BY <2>2 DEF TimerType, TimerState, Decremented
  <2>4. StepsPerPeriod' = StepsPerPeriod
    BY <2>3 DEF StepsPerPeriod
  <2>5. far > 0 /\ Distance(tmr'.cnt, tmr'.match1) = far - 1
    BY <1>1, <2>1, <2>3, DistanceFacts DEF Decremented
  <2>6. StepsLeft = PrescalerReload * far + 1
        /\ StepsLeft' = PrescalerReload * (far - 1) + PrescalerReload
    BY <2>1, <2>3, <2>5, StepsLeftIs DEF Distance, StepsLeft
  <2>7. PrescalerReload * (far - 1) + PrescalerReload = PrescalerReload * far
    BY <1>1, <2>5, StepsFacts
  <2>8. PrescalerReload * far \in Nat /\ PrescalerReload * far > 0
    BY <1>1, <2>5, SMTT(30)
  <2> DEFINE rest == PrescalerReload * far
  <2> HIDE DEF rest
  <2>9. StepsLeft > 1 /\ StepsLeft' = StepsLeft - 1
    <3>1. StepsLeft = rest + 1 /\ StepsLeft' = rest /\ rest \in Nat /\ rest > 0
      BY <2>6, <2>7, <2>8 DEF rest
    <3> QED
      BY <3>1
  <2>10. Promise!Wait
    BY <1>4, <2>3, <2>4, <2>9 DEF Promise!Wait
  <2> QED
    BY <1>0, <2>10 DEF Promise!Step
<1>5. CASE tmr.enabled /\ ~(tmr.prescaler > 1) /\ MatchDue(tmr)
  <2>1. tmr.prescaler = 1 /\ (tmr.cnt - 1) % WordSize = tmr.match1
    BY <1>1, <1>5 DEF MatchDue, Decremented
  <2>2. tmr' = [tmr EXCEPT !.prescaler = PrescalerReload, !.cnt = tmr.reload, !.pending = TRUE]
    BY <1>5 DEF Tick, TimerTick
  <2>3. /\ tmr'.cnt = tmr.reload /\ tmr'.match1 = tmr.match1
        /\ tmr'.reload = tmr.reload /\ tmr'.prescaler = PrescalerReload
        /\ tmr'.enabled = tmr.enabled /\ tmr'.pending = TRUE
    BY <2>2 DEF TimerType, TimerState
  <2>4. StepsPerPeriod' = StepsPerPeriod /\ StepsLeft' = StepsPerPeriod
    BY <2>3 DEF StepsPerPeriod, StepsLeft
  <2>5. far = 0
    BY <1>1, <2>1, DistanceFacts
  <2>6. StepsLeft = 1
    BY <1>1, <2>1, <2>5, StepsLeftIs, StepsFacts
  <2>7. Promise!Fire
    BY <1>5, <2>3, <2>4, <2>6 DEF Promise!Fire
  <2> QED
    BY <1>0, <2>7 DEF Promise!Step
<1> QED
  BY <1>2, <1>3, <1>4, <1>5, <1>1

\* A store into a register reprograms the interval, stops or starts the timer,
\* acknowledges, or changes nothing of the promise.
LEMMA WriteRefines ==
    ASSUME TimerType, TimerType', WriteReg
    PROVE  Promise!Next \/ UNCHANGED <<tmr.enabled, StepsLeft, StepsPerPeriod, tmr.pending, beat>>
<1>1. PICK reg \in TimerRegs, val \in TimerWord : tmr' = TimerWrite(tmr, reg, val)
  BY DEF WriteReg
<1>0. UNCHANGED beat
  BY DEF WriteReg
<1>2. /\ StepsLeft' \in Nat \ {0} /\ StepsPerPeriod' \in Nat \ {0}
  <2>1. /\ StepsLeft' = PrescalerReload * Distance(tmr'.cnt, tmr'.match1) + tmr'.prescaler
        /\ StepsPerPeriod' = PrescalerReload * Distance(tmr'.reload, tmr'.match1) + PrescalerReload
    BY DEF StepsLeft, StepsPerPeriod, Distance
  <2> QED
    BY <2>1, LeftPositive DEF TimerType
<1>3. CASE reg \in {"CNT", "RELOAD", "MATCH1"}
  <2>1. tmr'.enabled = tmr.enabled /\ tmr'.pending = tmr.pending
    BY <1>1, <1>3 DEF TimerWrite, TimerType, TimerState
  <2>2. Promise!Reprogram
    BY <1>2, <2>1 DEF Promise!Reprogram
  <2> QED
    BY <1>0, <2>2 DEF Promise!Next, Promise!Access
<1>4. CASE reg = "CTRL"
  <2>1. tmr' = [tmr EXCEPT !.enabled = EnableBit(val)]
    BY <1>1, <1>4 DEF TimerWrite
  <2>2. /\ tmr'.cnt = tmr.cnt /\ tmr'.match1 = tmr.match1 /\ tmr'.reload = tmr.reload
        /\ tmr'.prescaler = tmr.prescaler /\ tmr'.pending = tmr.pending
        /\ tmr'.enabled \in BOOLEAN
    BY <2>1 DEF TimerType, TimerState
  <2>3. Promise!Switch
    BY <2>2 DEF Promise!Switch, StepsLeft, StepsPerPeriod
  <2> QED
    BY <1>0, <2>3 DEF Promise!Next, Promise!Access
<1>5. CASE reg = "INT_STATE"
  <2>1. tmr' = [tmr EXCEPT !.pending = @ /\ val # 0]
    BY <1>1, <1>5 DEF TimerWrite
  <2>2. /\ tmr'.cnt = tmr.cnt /\ tmr'.match1 = tmr.match1 /\ tmr'.reload = tmr.reload
        /\ tmr'.prescaler = tmr.prescaler /\ tmr'.enabled = tmr.enabled
        /\ tmr'.pending = tmr.pending \/ tmr'.pending = FALSE
    BY <2>1 DEF TimerType, TimerState
  <2>3. StepsLeft' = StepsLeft /\ StepsPerPeriod' = StepsPerPeriod
    BY <2>2 DEF StepsLeft, StepsPerPeriod
  <2>4. CASE tmr'.pending = FALSE
    BY <1>0, <2>2, <2>3, <2>4 DEF Promise!Next, Promise!Access, Promise!Acknowledge
  <2>5. CASE tmr'.pending = tmr.pending
    BY <1>0, <2>2, <2>3, <2>5
  <2> QED
    BY <2>2, <2>4, <2>5
<1>6. CASE reg = "INT_MASK"
  <2>1. tmr' = [tmr EXCEPT !.mask = val]
    BY <1>1, <1>6 DEF TimerWrite
  <2>2. /\ tmr'.cnt = tmr.cnt /\ tmr'.match1 = tmr.match1 /\ tmr'.reload = tmr.reload
        /\ tmr'.prescaler = tmr.prescaler /\ tmr'.enabled = tmr.enabled
        /\ tmr'.pending = tmr.pending
    BY <2>1 DEF TimerType, TimerState
  <2> QED
    BY <1>0, <2>2 DEF StepsLeft, StepsPerPeriod
<1> QED
  BY <1>3, <1>4, <1>5, <1>6 DEF TimerRegs

LEMMA ClearRefines ==
    ASSUME TimerType, ClearIrq
    PROVE  Promise!Next
<1>1. tmr' = [tmr EXCEPT !.pending = FALSE] /\ UNCHANGED beat
  BY DEF ClearIrq, TimerClearIrq
<1>2. /\ tmr'.cnt = tmr.cnt /\ tmr'.match1 = tmr.match1 /\ tmr'.reload = tmr.reload
      /\ tmr'.prescaler = tmr.prescaler /\ tmr'.enabled = tmr.enabled
      /\ tmr'.pending = FALSE
  BY <1>1 DEF TimerType, TimerState
<1>3. Promise!Acknowledge
  BY <1>2 DEF Promise!Acknowledge, StepsLeft, StepsPerPeriod
<1> QED
  BY <1>1, <1>3 DEF Promise!Next, Promise!Access

\* Under any sequence of steps and register accesses the timer of timer.c raises
\* its request after exactly the programmed number of steps, wherever the counter
\* starts and wraps: each call of timer_tick on a running timer takes one step off the
\* interval or, at the last, raises the request, and nothing else ends an interval
\* (timer.c, timer_tick).
THEOREM TimerImplementsPeriodic == TimerInit /\ [][TimerNext]_timervars => ImplementsPeriodicTimer
<1>1. TimerInit => Promise!Init
  <2> SUFFICES ASSUME TimerInit PROVE Promise!Init
    OBVIOUS
  <2>1. tmr = TimerReset /\ tmr \in TimerState
    BY TimerAssumption DEF TimerInit, TimerReset, TimerState, TimerWord
  <2>2. StepsLeft \in Nat \ {0} /\ StepsPerPeriod \in Nat \ {0}
    BY <2>1, LeftPositive, StepsLeftIs
  <2>3. tmr.enabled = FALSE /\ tmr.pending = FALSE
    BY <2>1 DEF TimerReset
  <2>4. beat \in BOOLEAN
    BY Zenon DEF TimerInit
  <2> QED
    BY <2>2, <2>3, <2>4 DEF Promise!Init
<1>2. TimerType /\ TimerType' /\ [TimerNext]_timervars => [Promise!Next]_(Promise!pvars)
  <2> SUFFICES ASSUME TimerType, TimerType', [TimerNext]_timervars
               PROVE  Promise!Next \/ UNCHANGED <<tmr.enabled, StepsLeft, StepsPerPeriod, tmr.pending, beat>>
    BY DEF Promise!pvars
  <2>1. CASE Tick
    BY <2>1, TickRefines DEF Promise!Next
  <2>2. CASE WriteReg
    BY <2>2, WriteRefines
  <2>3. CASE ClearIrq
    BY <2>3, ClearRefines
  <2>4. CASE UNCHANGED timervars
    BY <2>4 DEF timervars, StepsLeft, StepsPerPeriod
  <2> QED
    BY <2>1, <2>2, <2>3, <2>4 DEF TimerNext
<1> QED
  BY <1>1, <1>2, TimerTypeCorrect, PTL DEF ImplementsPeriodicTimer, Promise!Spec

----------------------------------------------------------------------------
(* The tracer of the operating system calls                                *)

OsType ==
    /\ waiting \in [Task -> Nat] /\ nested \in BOOLEAN /\ perr \in Seq(Nat)
    /\ calls \in Nat /\ reports \in Seq(Nat \X Nat) /\ exited \in BOOLEAN

\* Every call in progress has a pointer of its own.
OwnPointers ==
    /\ \A t \in Task : waiting[t] <= calls
    /\ \A t, u \in Task : waiting[t] = waiting[u] /\ waiting[t] # 0 => t = u

\* The stack holds as many pointers as calls wait, oldest first. They are the
\* pointers of these calls as long as the calls were nested.
StackOfCalls ==
    /\ \A i \in 1..Len(perr) : perr[i] >= 1 /\ perr[i] <= calls
    /\ \A i, j \in 1..Len(perr) : i < j => perr[i] < perr[j]
    /\ IsFiniteSet(Outstanding) /\ Cardinality(Outstanding) = Len(perr)
    /\ nested => \A p \in Nat : p \in Outstanding <=> \E i \in 1..Len(perr) : perr[i] = p

\* What was reported was once on the stack and is not there any more.
ReportsOfCalls ==
    /\ IsFiniteSet(Reported) /\ Cardinality(Reported) = Len(reports)
    /\ \A p \in Reported : p <= calls
    /\ \A i \in 1..Len(perr) : perr[i] \notin Reported
    /\ nested => ReportsItsOwnCode

OsInv ==
    /\ OsType /\ OwnPointers /\ StackOfCalls /\ ReportsOfCalls
    /\ Len(perr) <= PerrMax /\ (exited => Len(perr) = PerrMax)

LEMMA OsInitInv == OsInit => OsInv
<1> SUFFICES ASSUME OsInit PROVE OsInv
  OBVIOUS
<1> USE DEF OsInit
<1>1. OsType
  <2>1. <<>> \in Seq(Nat) /\ <<>> \in Seq(Nat \X Nat)
    OBVIOUS
  <2> QED
    BY <2>1, Zenon DEF OsType
<1>2. OwnPointers
  BY DEF OwnPointers
<1>3. Outstanding = {} /\ Reported = {}
  BY DEF Outstanding, Reported
<1>4. StackOfCalls
  BY <1>3, FS_EmptySet DEF StackOfCalls
<1>5. ReportsOfCalls
  BY <1>3, FS_EmptySet DEF ReportsOfCalls, ReportsItsOwnCode
<1> QED
  BY <1>1, <1>2, <1>4, <1>5, OsAssumption DEF OsInv

\* Entering a call: the new pointer is on top of the stack and waits.
LEMMA StartKeepsInv == ASSUME OsInv, NEW t \in Task, PendStart(t) PROVE OsInv'
<1>1. CASE Len(perr) < PerrMax
  <2>1. /\ ~exited /\ waiting[t] = 0 /\ calls' = calls + 1 /\ perr' = Append(perr, calls + 1)
        /\ waiting' = [waiting EXCEPT ![t] = calls + 1]
        /\ exited' = exited /\ reports' = reports /\ nested' = nested
    BY <1>1 DEF PendStart
  <2>2. /\ waiting \in [Task -> Nat] /\ perr \in Seq(Nat) /\ calls \in Nat
        /\ reports \in Seq(Nat \X Nat) /\ nested \in BOOLEAN /\ exited \in BOOLEAN
    BY DEF OsInv, OsType
  <2>3. OsType'
    BY <2>1, <2>2 DEF OsType
  <2>4. OwnPointers'
    BY <2>1, <2>2 DEF OsInv, OwnPointers
  <2>5. Outstanding' = Outstanding \cup {calls + 1} /\ calls + 1 \notin Outstanding
    BY <2>1, <2>2 DEF OsInv, OwnPointers, Outstanding
  <2>6. /\ Len(perr') = Len(perr) + 1 /\ perr'[Len(perr) + 1] = calls + 1
        /\ \A i \in 1..Len(perr) : perr'[i] = perr[i]
        /\ Len(perr) \in Nat
    BY <2>1, <2>2
  <2>7. StackOfCalls'
    <3>1. IsFiniteSet(Outstanding') /\ Cardinality(Outstanding') = Len(perr')
      BY <2>5, <2>6, FS_AddElement DEF OsInv, StackOfCalls
    <3>2. \A i \in 1..Len(perr') : perr'[i] >= 1 /\ perr'[i] <= calls'
      BY <2>1, <2>2, <2>6 DEF OsInv, StackOfCalls
    <3>3. \A i, j \in 1..Len(perr') : i < j => perr'[i] < perr'[j]
      <4> SUFFICES ASSUME NEW i \in 1..Len(perr'), NEW j \in 1..Len(perr'), i < j
                   PROVE  perr'[i] < perr'[j]
        OBVIOUS
      <4>1. i \in 1..Len(perr) /\ perr'[i] = perr[i] /\ perr[i] <= calls /\ perr[i] \in Nat
        BY <2>2, <2>6 DEF OsInv, StackOfCalls
      <4>2. CASE j = Len(perr) + 1
        BY <4>1, <4>2, <2>2, <2>6
      <4>3. CASE j \in 1..Len(perr)
        BY <4>1, <4>3, <2>6 DEF OsInv, StackOfCalls
      <4> QED
        BY <4>2, <4>3, <2>6
    <3>4. ASSUME nested, NEW p \in Nat
          PROVE  p \in Outstanding' <=> \E i \in 1..Len(perr') : perr'[i] = p
      <4>1. p \in Outstanding <=> \E i \in 1..Len(perr) : perr[i] = p
        BY <3>4 DEF OsInv, StackOfCalls
      <4>2. p \in Outstanding' <=> p \in Outstanding \/ p = calls + 1
        BY <2>5
      <4>3. (\E i \in 1..Len(perr') : perr'[i] = p)
              <=> (\E i \in 1..Len(perr) : perr[i] = p) \/ p = calls + 1
        BY <2>6
      <4> QED
        BY <4>1, <4>2, <4>3
    <3> QED
      BY <3>1, <3>2, <3>3, <3>4, <2>1 DEF StackOfCalls
  <2>8. ReportsOfCalls'
    <3>1. Reported' = Reported
      BY <2>1 DEF Reported
    <3>2. \A p \in Reported : p \in Nat
      BY <2>2 DEF Reported
    <3>3. calls + 1 \notin Reported
      BY <3>2, <2>2 DEF OsInv, ReportsOfCalls
    <3>4. \A i \in 1..Len(perr') : perr'[i] \notin Reported
      BY <3>3, <2>6 DEF OsInv, ReportsOfCalls
    <3>5. \A p \in Reported : p <= calls'
      BY <3>2, <2>1, <2>2 DEF OsInv, ReportsOfCalls
    <3> QED
      BY <3>1, <3>4, <3>5, <2>1 DEF OsInv, ReportsOfCalls, ReportsItsOwnCode
  <2> QED
    BY <1>1, <2>1, <2>3, <2>4, <2>6, <2>7, <2>8, OsAssumption DEF OsInv
<1>2. CASE ~(Len(perr) < PerrMax)
  <2>1. /\ ~exited /\ calls' = calls + 1 /\ perr' = perr /\ waiting' = waiting
        /\ exited' = TRUE /\ reports' = reports /\ nested' = nested
    BY <1>2 DEF PendStart
  <2>2. OsType' /\ OwnPointers' /\ StackOfCalls' /\ ReportsOfCalls'
    <3>1. Outstanding' = Outstanding /\ Reported' = Reported
      BY <2>1 DEF Outstanding, Reported
    <3>2. OsType'
      BY <2>1 DEF OsInv, OsType
    <3>3. OwnPointers'
      BY <2>1 DEF OsInv, OsType, OwnPointers
    <3>4. StackOfCalls'
      BY <2>1, <3>1 DEF OsInv, OsType, StackOfCalls
    <3>5. \A p \in Reported : p \in Nat
      BY DEF OsInv, OsType, Reported
    <3>6. ReportsOfCalls'
      BY <2>1, <3>1, <3>5 DEF OsInv, OsType, ReportsOfCalls, ReportsItsOwnCode
    <3> QED
      BY <3>2, <3>3, <3>4, <3>6
  <2>3. Len(perr) = PerrMax
    BY <1>2, OsAssumption DEF OsInv, OsType
  <2> QED
    BY <2>1, <2>2, <2>3, OsAssumption DEF OsInv
<1> QED
  BY <1>1, <1>2

\* Leaving a call: the pointer on top is reported and taken off. When the newest
\* call leaves and the calls were nested so far, it is the one on top.
LEMMA EndKeepsInv == ASSUME OsInv, NEW t \in Task, PendEnd(t) PROVE OsInv'
<1> DEFINE top == perr[Len(perr)]
           own == waiting[t]
<1>1. /\ waiting \in [Task -> Nat] /\ perr \in Seq(Nat) /\ calls \in Nat
      /\ reports \in Seq(Nat \X Nat) /\ nested \in BOOLEAN /\ exited \in BOOLEAN
      /\ own \in Nat
  BY DEF OsInv, OsType
<1>2. own # 0 /\ own \in Outstanding /\ calls' = calls
  BY DEF PendEnd, Outstanding
<1>3. perr # <<>> /\ Len(perr) \in Nat \ {0} /\ top \in Nat
  <2>1. Len(perr) # 0
    BY <1>2, FS_EmptySet DEF OsInv, StackOfCalls
  <2> QED
    BY <2>1, <1>1
<1>4. /\ ~exited /\ exited' = exited
      /\ reports' = Append(reports, <<own, top>>)
      /\ perr' = SubSeq(perr, 1, Len(perr) - 1)
      /\ waiting' = [waiting EXCEPT ![t] = 0]
      /\ nested' = (nested /\ IsNewest(own))
  BY <1>3 DEF PendEnd
<1>5. /\ Len(perr') = Len(perr) - 1
      /\ \A i \in 1..(Len(perr) - 1) : perr'[i] = perr[i]
  <2> DEFINE n == Len(perr) - 1
  <2>1. n \in Nat /\ \A i \in 1..n : perr[i] \in Nat
    BY <1>1, <1>3
  <2>2. perr' = SubSeq(perr, 1, n)
    BY <1>4
  <2> HIDE DEF n
  <2>3. /\ Len(SubSeq(perr, 1, n)) = IF 1 <= n THEN n - 1 + 1 ELSE 0
        /\ \A i \in 1..(n - 1 + 1) : SubSeq(perr, 1, n)[i] = perr[1 + i - 1]
    BY <2>1, SubSeqProperties
  <2>4. Len(perr') = n /\ \A i \in 1..n : perr'[i] = perr[i]
    BY <2>1, <2>2, <2>3
  <2> QED
    BY <2>4 DEF n
<1>6. OsType'
  BY <1>1, <1>2, <1>3, <1>4 DEF OsType
<1>7. OwnPointers'
  BY <1>1, <1>2, <1>4 DEF OsInv, OwnPointers
<1>8. Outstanding' = Outstanding \ {own}
  BY <1>1, <1>2, <1>4 DEF OsInv, OwnPointers, Outstanding
<1>9. \A i \in 1..(Len(perr) - 1) : perr[i] < top
  BY <1>3 DEF OsInv, StackOfCalls
<1>10. ASSUME nested' PROVE nested /\ top = own
  <2>1. nested /\ IsNewest(own)
    BY <1>4, <1>10
  <2>2. PICK i \in 1..Len(perr) : perr[i] = own
    BY <2>1, <1>1, <1>2 DEF OsInv, StackOfCalls
  <2>3. top \in Outstanding
    BY <2>1, <1>3 DEF OsInv, StackOfCalls
  <2>4. top <= own
    BY <2>1, <2>3 DEF IsNewest
  <2> HIDE DEF top, own
  <2>5. i = Len(perr)
    <3>1. CASE i \in 1..(Len(perr) - 1)
      BY <3>1, <2>2, <2>4, <1>1, <1>3, <1>9
    <3> QED
      BY <3>1, <1>3
  <2> QED
    BY <2>1, <2>2, <2>5 DEF top
<1>11. StackOfCalls'
  <2>1. IsFiniteSet(Outstanding') /\ Cardinality(Outstanding') = Len(perr')
    BY <1>2, <1>5, <1>8, FS_RemoveElement DEF OsInv, StackOfCalls
  <2>2. \A i \in 1..Len(perr') : perr'[i] >= 1 /\ perr'[i] <= calls'
    BY <1>2, <1>3, <1>5 DEF OsInv, StackOfCalls
  <2>3. \A i, j \in 1..Len(perr') : i < j => perr'[i] < perr'[j]
    BY <1>3, <1>5 DEF OsInv, StackOfCalls
  <2>4. ASSUME nested', NEW p \in Nat
        PROVE  p \in Outstanding' <=> \E i \in 1..Len(perr') : perr'[i] = p
    <3>1. p \in Outstanding <=> \E i \in 1..Len(perr) : perr[i] = p
      BY <2>4, <1>10 DEF OsInv, StackOfCalls
    <3>2. p \in Outstanding' <=> p \in Outstanding /\ p # top
      BY <2>4, <1>8, <1>10
    <3>3. (\E i \in 1..Len(perr') : perr'[i] = p)
            <=> (\E i \in 1..Len(perr) : perr[i] = p) /\ p # top
      <4>1. perr[Len(perr)] = top
        OBVIOUS
      <4> HIDE DEF top
      <4>2. \A i \in 1..Len(perr) : (i \in 1..Len(perr') /\ perr'[i] = perr[i]) \/ i = Len(perr)
        BY <1>3, <1>5
      <4>3. \A i \in 1..Len(perr') : i \in 1..Len(perr) /\ perr'[i] = perr[i] /\ perr[i] < top
        BY <1>3, <1>5, <1>9
      <4>4. \A n \in Nat : n < top => n # top
        BY <1>3
      <4> QED
        BY <4>1, <4>2, <4>3, <4>4, <1>1, <1>3
    <3> QED
      BY <3>1, <3>2, <3>3
  <2> QED
    BY <2>1, <2>2, <2>3, <2>4 DEF StackOfCalls
<1>12. ReportsOfCalls'
  <2>1. /\ Len(reports') = Len(reports) + 1 /\ reports'[Len(reports) + 1] = <<own, top>>
        /\ \A i \in 1..Len(reports) : reports'[i] = reports[i]
        /\ Len(reports) \in Nat
    BY <1>1, <1>3, <1>4
  <2>2. Reported' = Reported \cup {top}
    <3>1. \A i \in 1..(Len(reports) + 1) : i \in 1..Len(reports) \/ i = Len(reports) + 1
      BY <2>1
    <3>2. reports'[Len(reports) + 1][2] = top
      BY <2>1
    <3>3. /\ DOMAIN reports = 1..Len(reports)
          /\ DOMAIN reports' = 1..(Len(reports) + 1)
      BY <1>1, <1>3, <1>4, <2>1
    <3> QED
      BY <2>1, <3>1, <3>2, <3>3 DEF Reported
  <2>3. top \notin Reported /\ top <= calls
    BY <1>3 DEF OsInv, StackOfCalls, ReportsOfCalls
  <2>4. IsFiniteSet(Reported') /\ Cardinality(Reported') = Len(reports')
    BY <2>1, <2>2, <2>3, FS_AddElement DEF OsInv, ReportsOfCalls
  <2>5. \A p \in Reported' : p <= calls'
    BY <2>2, <2>3, <1>2 DEF OsInv, ReportsOfCalls
  <2>6. \A i \in 1..Len(perr') : perr'[i] \notin Reported'
    BY <2>2, <1>1, <1>3, <1>5, <1>9 DEF OsInv, ReportsOfCalls
  <2>7. ASSUME nested' PROVE ReportsItsOwnCode'
    <3>1. nested /\ top = own
      BY <2>7, <1>10
    <3>2. \A i \in 1..Len(reports) : reports[i][1] = reports[i][2]
      <4>1. DOMAIN reports = 1..Len(reports)
        BY <1>1
      <4> QED
        BY <3>1, <4>1 DEF OsInv, ReportsOfCalls, ReportsItsOwnCode
    <3>3. DOMAIN reports' = 1..(Len(reports) + 1)
      BY <1>1, <1>3, <1>4, <2>1
    <3>4. reports'[Len(reports) + 1][1] = reports'[Len(reports) + 1][2]
      BY <3>1, <2>1
    <3>5. \A i \in 1..(Len(reports) + 1) : i \in 1..Len(reports) \/ i = Len(reports) + 1
      BY <2>1
    <3> QED
      BY <3>2, <3>3, <3>4, <3>5, <2>1 DEF ReportsItsOwnCode
  <2> QED
    BY <2>4, <2>5, <2>6, <2>7 DEF ReportsOfCalls
<1> QED
  BY <1>3, <1>4, <1>5, <1>6, <1>7, <1>11, <1>12, OsAssumption DEF OsInv

LEMMA OsNextInv == OsInv /\ [OsNext]_osvars => OsInv'
<1> SUFFICES ASSUME OsInv, [OsNext]_osvars PROVE OsInv'
  OBVIOUS
<1>1. CASE OsNext
  BY <1>1, StartKeepsInv, EndKeepsInv DEF OsNext
<1>2. CASE UNCHANGED osvars
  BY <1>2 DEF osvars, OsInv, OsType, OwnPointers, StackOfCalls, ReportsOfCalls,
              Outstanding, Reported, ReportsItsOwnCode
<1> QED
  BY <1>1, <1>2

\* With any number of tasks that call and return in any order, each call gets its
\* own code while the calls are nested, each pointer is reported once, and the
\* tracer gives up only when its stack is full of waiting calls (os_info.c:101).
THEOREM TracerCorrect == OsSpec => []TracerIsRight
<1>1. OsInv => TracerIsRight
  <2> SUFFICES ASSUME OsInv PROVE TracerIsRight
    OBVIOUS
  <2>1. nested => ReportsItsOwnCode
    BY DEF OsInv, ReportsOfCalls
  <2>2. ReportedOnce
    BY DEF OsInv, OsType, ReportsOfCalls, ReportedOnce
  <2>3. exited => Cardinality(Outstanding) = PerrMax
    BY DEF OsInv, StackOfCalls
  <2> QED
    BY <2>1, <2>2, <2>3 DEF TracerIsRight
<1> QED
  BY <1>1, OsInitInv, OsNextInv, PTL DEF OsSpec
=============================================================================
