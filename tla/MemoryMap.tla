----------------------------- MODULE MemoryMap -----------------------------
(***************************************************************************)
(* The address space of the simulated device: bytes, halfwords and words    *)
(* (simulate/memory.c) behind the remap bit (cpe.c).                        *)
(* The flash is page 0 and the SDRAM page 1; a byte has MemBase values, and *)
(* a page MemPage bytes.                                                    *)
(***************************************************************************)
EXTENDS Integers

CONSTANTS MemPage,   \* PAGE_SIZE, also REMAP_OFFSET
          MemBase,   \* 256
          MemFiles   \* contents of the flash file: functions from 0..MemPage-1

ASSUME MemAssumption == MemPage \in Nat \ {0} /\ MemBase \in Nat \ {0, 1}

VARIABLE mm
\* mm.bytes   mem_ptr by physical address, MemUndef when not initialised
\* mm.remap   CPE_REMAP_BIT
\* mm.last    what the last step stored, MemNoStore when it stored nothing

MemUndef == 0 - 1
MemAddr == 0..(2 * MemPage - 1)
MemSizes == {1, 2, 4}

\* The values of sz bytes.
MemValues(sz) ==
    LET half == MemBase * MemBase
    IN 0..((CASE sz = 1 -> MemBase [] sz = 2 -> half [] sz = 4 -> half * half) - 1)

MemNoStore == [sz |-> 0, addr |-> 0, val |-> 0]

\* init_sim loads the flash, main clears the SDRAM.
MemInit ==
    \E f \in MemFiles :
       mm = [bytes |-> [p \in MemAddr |-> IF p < MemPage THEN f[p] ELSE 0],
             remap |-> FALSE, last |-> MemNoStore]

\* remap_addr
MemPhys(a) == IF mm.remap /\ a < MemPage THEN a + MemPage ELSE a

\* An access that stays in its page; beyond, the code leaves the array.
MemInside(sz, a) == (a % MemPage) + sz <= MemPage

\* The value of sz bytes b[0], b[1], ...: undefined when one of them is.
MemJoin(sz, b) ==
    IF \E i \in 0..(sz - 1) : b[i] = MemUndef THEN MemUndef
    ELSE CASE sz = 1 -> b[0]
           [] sz = 2 -> b[0] + MemBase * b[1]
           [] sz = 4 -> b[0] + MemBase * (b[1] + MemBase * (b[2] + MemBase * b[3]))

\* memory_get_byte, memory_get_halfword, memory_get_word
MemGet(sz, a) == MemJoin(sz, [i \in 0..(sz - 1) |-> mm.bytes[MemPhys(a) + i]])

\* (data>>(8*i))&0xFF
MemByteOf(val, i) ==
    LET high == (val \div MemBase) \div MemBase
    IN (CASE i = 0 -> val [] i = 1 -> val \div MemBase
          [] i = 2 -> high [] i = 3 -> high \div MemBase) % MemBase

\* Variant of MemSet: the most significant byte first.
MemSetBig(sz, a, val) ==
    LET p == MemPhys(a)
    IN [q \in MemAddr |-> IF q \in p..(p + sz - 1) THEN MemByteOf(val, p + sz - 1 - q)
                          ELSE mm.bytes[q]]

\* Variant of MemSet: always a whole word.
MemSetWord(sz, a, val) ==
    LET p == MemPhys(a)
    IN [q \in MemAddr |-> IF q \in p..(p + 3) THEN MemByteOf(val, q - p)
                          ELSE mm.bytes[q]]

\* memory_set_byte, memory_set_halfword, memory_set_word
MemSet(sz, a, val) ==
    LET p == MemPhys(a)
    IN [q \in MemAddr |-> IF q \in p..(p + sz - 1) THEN MemByteOf(val, q - p)
                          ELSE mm.bytes[q]]

\* A store of the firmware, or the commands byte and word.
MemStore ==
    \E sz \in MemSizes, a \in MemAddr : \E val \in MemValues(sz) :
       /\ MemInside(sz, a)
       /\ mm' = [mm EXCEPT !.bytes = MemSet(sz, a, val),
                           !.last = [sz |-> sz, addr |-> a, val |-> val]]

\* memory_set_page (the command msp) goes by the physical page.
memory_set_page ==
    \E page \in {0, 1}, val \in 0..(MemBase - 1) :
       mm' = [mm EXCEPT !.bytes = [q \in MemAddr |-> IF q \div MemPage = page THEN val ELSE @[q]],
                        !.last = MemNoStore]

\* cpe_write to the remap register
CpeWrite == \E b \in BOOLEAN : mm' = [mm EXCEPT !.remap = b, !.last = MemNoStore]

MemNext == MemStore \/ memory_set_page \/ CpeWrite

----------------------------------------------------------------------------
\* The three sizes are views of the same bytes, before and after the remap: a
\* load gives what loads of its bytes give, a remapped flash address is the
\* SDRAM, and what was stored last is read back at its address
\* (simulate/memory.c:84-102, 166-173, 228-285, cpe.c:76-85).
MemWhole(sz, a) == MemJoin(sz, [i \in 0..(sz - 1) |-> MemGet(1, a + i)])

MemSizesAgree ==
    /\ \A sz \in MemSizes, a \in MemAddr :
          MemInside(sz, a) => /\ MemGet(sz, a) = MemWhole(sz, a)
                              /\ mm.remap => MemGet(sz, a) = MemGet(sz, a % MemPage)
    /\ mm.last.sz # 0 => MemGet(mm.last.sz, mm.last.addr) = mm.last.val

\* A store changes no byte but its own, behind the remap bit as well.
MemStoresInPlace ==
    [][LET s == mm'.last
       IN s.sz # 0 => \A q \in MemAddr :
                         mm'.bytes[q] # mm.bytes[q] => q - MemPhys(s.addr) \in 0..(s.sz - 1)]_mm
=============================================================================
