------------------------- MODULE LoadStoreMultiple -------------------------
(***************************************************************************)
(* The load and store multiple instructions, simulate/mem_rw.c: which      *)
(* registers an instruction names, in which order, where their words lie,  *)
(* and what happens when a breakpoint or an uninitialised word ends a load *)
(* in the middle.  An instruction is a record [rb, re, enable, a, after,   *)
(* down, modify, aligned]: registers rb to re, those of enable (bit 0 is   *)
(* r31, bit 3 is r28), base register a; smwa and lmwa are `aligned'.       *)
(***************************************************************************)
EXTENDS Integers, Sequences, FiniteSets

CONSTANTS Space,   \* number of byte addresses: 2^32
          Undef    \* a word that is not initialised

ASSUME LsmAssumption == Space \in Nat /\ Space % 4 = 0 /\ Space > 128

GPR == 0 .. 31
LsmOps == [rb : GPR, re : GPR, enable : 0 .. 15, a : GPR, after : BOOLEAN,
           down : BOOLEAN, modify : BOOLEAN, aligned : BOOLEAN]

Bit(n, i) == (n \div (2 ^ i)) % 2 = 1

\* lmw_smw_count_reg_make_list: rb = re = 31 names no register of the range.
RangeRegs(i) == IF i.rb = 31 /\ i.re = 31 THEN {} ELSE i.rb .. i.re
EnabledRegs(i) == {31 - b : b \in {b \in 0 .. 3 : Bit(i.enable, b)}}

RegList(i) == RangeRegs(i) \cup EnabledRegs(i)

\* TNReg counts a register again that is named twice.
TNReg(i) == Cardinality(RangeRegs(i)) + Cardinality(EnabledRegs(i))

\* Variant of FirstAddr: decrement-after starts at the base less one word.
FirstAddrLow(i, base) ==
    CASE ~i.down /\ ~i.after -> base
      [] ~i.down /\ i.after  -> base + 4
      [] i.down /\ ~i.after  -> base - TNReg(i) * 4
      [] OTHER               -> base - TNReg(i) * 4

\* B_Addr and E_Addr for before/after and increment/decrement.
FirstAddr(i, base) ==
    CASE ~i.down /\ ~i.after -> base
      [] ~i.down /\ i.after  -> base + 4
      [] i.down /\ ~i.after  -> base - TNReg(i) * 4 + 4
      [] OTHER               -> base - TNReg(i) * 4
LastAddr(i, base) ==
    CASE ~i.down /\ ~i.after -> base + TNReg(i) * 4 - 4
      [] ~i.down /\ i.after  -> base + TNReg(i) * 4
      [] i.down /\ ~i.after  -> base
      [] OTHER               -> base - 4

\* reg_order of smwa and lmwa: r28 and r31 change places; smw and lmw go upwards.
Place(i, r) ==
    IF i.aligned /\ r \in {28, 31} THEN 59 - r ELSE r

\* The word a register goes to, counted from the first.
Slot(i, r) == Cardinality({q \in RegList(i) : Place(i, q) < Place(i, r)})

WordAddr(i, base, r) == (FirstAddr(i, base) + 4 * Slot(i, r)) % Space

\* "VA-4 != E_Addr": ERRX ends the simulator.
AddrError(i, base) ==
    (FirstAddr(i, base) + 4 * Cardinality(RegList(i)) - 4 - LastAddr(i, base)) % Space # 0

\* smwa looks for r31 first.
StoreError(i, base) == (i.aligned /\ 31 \in RegList(i)) \/ AddrError(i, base)

\* Variant of Updated: the count of registers is not doubled for both ranges.
UpdatedByRange(i, regs) ==
    IF ~i.modify THEN regs
    ELSE [regs EXCEPT ![i.a] = (@ + (IF i.down THEN -4 ELSE 4) * Cardinality(RangeRegs(i))) % Space]

\* The base register at the end.
Updated(i, regs) ==
    IF ~i.modify THEN regs
    ELSE [regs EXCEPT ![i.a] = (@ + (IF i.down THEN -4 ELSE 4) * TNReg(i)) % Space]

\* sim_opc_smw, sim_opc_smwa: the memory after all the words; a breakpoint does not
\* end them early.
Stored(i, regs, mem) ==
    [w \in DOMAIN mem |->
        LET r == {q \in RegList(i) : WordAddr(i, regs[i.a], q) = w}
        IN IF r = {} THEN mem[w] ELSE regs[CHOOSE q \in r : TRUE]]

\* Variant of Loaded: the base moves with every word.
LoadedMoving(i, regs, mem, n) ==
    [r \in GPR |-> IF r \in RegList(i) /\ Slot(i, r) < n
                   THEN mem[WordAddr(i, regs[i.a], r)]
                   ELSE IF r = i.a /\ n < Cardinality(RegList(i)) THEN (regs[r] + 4 * n) % Space
                   ELSE regs[r]]

\* sim_opc_lmw, sim_opc_lmwa: the registers after the first n words.
Loaded(i, regs, mem, n) ==
    [r \in GPR |-> IF r \in RegList(i) /\ Slot(i, r) < n
                   THEN mem[WordAddr(i, regs[i.a], r)] ELSE regs[r]]

\* How many words a load can read before one that is not initialised.
Readable(i, regs, mem) ==
    LET bad == {Slot(i, r) : r \in {q \in RegList(i) :
                                mem[WordAddr(i, regs[i.a], q)] = Undef}}
    IN IF bad = {} THEN Cardinality(RegList(i))
       ELSE CHOOSE n \in bad : \A m \in bad : n <= m
=============================================================================
