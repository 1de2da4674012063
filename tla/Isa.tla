-------------------------------- MODULE Isa --------------------------------
(***************************************************************************)
(* The instruction set as Simulator sees it: the instruction records, and  *)
(* what an instruction without a memory access does to the processor state *)
(* cpu = [pc, regs, sr] (simulate/simulate.c, simulate/special_regs.c).    *)
(* Each record stands for a family of opcodes with the same control:       *)
(*   set   register := constant      (SETHI, MOVI and the ALU group)       *)
(*   beqz  conditional relative jump (BR1, BR2)                            *)
(*   j jal jr jral ret               (J, JREG)                             *)
(*   mfsr mtsr setgie iret           (MISC)                                *)
(*   lwi swi  load and store at an effective address                       *)
(*   lmw smw  load and store multiple: LMW, LMWA, SMW, SMWA (LSMW)         *)
(*            (the effective address is a constant of the record: a load   *)
(*            multiple whose list holds its own base, begun again after a  *)
(*            stop, is left out)                                           *)
(*   unimpl   an opcode simulate() does not know or refuses                *)
(***************************************************************************)
EXTENDS Integers, Sequences

CONSTANTS Reg,   \* register numbers
          LP     \* the link register, r30

ASSUME IsaAssumption == LP \in Reg

SpecialReg == {"PSW", "IPSW", "IPC", "INT_PEND"}

Cpu == [pc : Int, regs : [Reg -> Int], sr : [SpecialReg -> Int]]

CpuReset == [pc |-> 0, regs |-> [r \in Reg |-> 0], sr |-> [s \in SpecialReg |-> 0]]

Ops == {"set", "beqz", "j", "jal", "jr", "jral", "ret", "mfsr", "mtsr",
        "setgie", "iret", "lwi", "swi", "lmw", "smw", "unimpl"}

\* One record shape for all: r the register operand, s the second one or the base
\* register, imm the constant, offset or effective address, sr the special
\* register, len 2 or 4, list the registers of a load or store multiple in the
\* order of their words, move what is added to the base register at the end.
Instr == [op : Ops, r : Reg, s : Reg, imm : Int, sr : SpecialReg, len : {2, 4},
          list : Seq(Reg), move : Int]

----------------------------------------------------------------------------
\* get_gie and special_reg_setgie: bit 0 of PSW.
Gie(c) == c.sr["PSW"] % 2 = 1
\* Variant of SetGie: GIE can only be cleared.
SetGieClears(sr, en) == [sr EXCEPT !["PSW"] = @ - (@ % 2)]

SetGie(sr, en) == [sr EXCEPT !["PSW"] = (@ - (@ % 2)) + (IF en THEN 1 ELSE 0)]

\* Variant of TakeInterrupt: interrupts stay enabled in the handler.
TakeInterruptNested(c, vector) ==
    [c EXCEPT !.pc = vector,
              !.sr = [@ EXCEPT !["INT_PEND"] = 2, !["IPSW"] = c.sr["PSW"], !["IPC"] = c.pc]]

\* trigger_interrupt: the processor enters the handler of interrupt 10.
TakeInterrupt(c, vector) ==
    [c EXCEPT !.pc = vector,
              !.sr = SetGie([@ EXCEPT !["INT_PEND"] = 2, !["IPSW"] = c.sr["PSW"],
                                      !["IPC"] = c.pc], FALSE)]

\* The epilogue's "is_branch == NO_BRANCH".
Advance(c, i) == [c EXCEPT !.pc = @ + i.len]

LoadOps  == {"lwi", "lmw"}
StoreOps == {"swi", "smw"}
Multiple == {"lmw", "smw"}
MemOps   == LoadOps \cup StoreOps

\* The registers of a load or store, and where the word of each one lies.
Words(i) == IF i.op \in Multiple THEN i.list ELSE <<i.r>>
WordAddr(i, k) == i.imm + 4 * (k - 1)

\* A load or store multiple has words, and each register once: the code collects
\* them in a table of flags.
WellFormed(i) ==
    /\ i \in Instr
    /\ i.op \in Multiple => i.list # <<>>
    /\ \A j, k \in 1 .. Len(i.list) : i.list[j] = i.list[k] => j = k

\* Branches the epilogue treats as GOTO, RET or IRET (not CALL).
IsGoto(i, c) ==
    \/ i.op \in {"j", "jr", "ret", "iret"}
    \/ i.op = "beqz" /\ c.regs[i.r] = 0

\* The processor after instruction i, family by family.
SetRegister(i, c) == Advance([c EXCEPT !.regs[i.r] = i.imm], i)

Branch(i, c) ==
    IF c.regs[i.r] = 0 THEN [c EXCEPT !.pc = @ + i.imm] ELSE Advance(c, i)

\* J: a call leaves the return address in the link register.
Jump(i, c) ==
    IF i.op = "j" THEN [c EXCEPT !.pc = @ + i.imm]
    ELSE [c EXCEPT !.pc = @ + i.imm, !.regs[LP] = c.pc + 4]

\* JREG: the target is read before the return address is written.
JumpRegister(i, c) ==
    IF i.op = "jral" THEN [c EXCEPT !.pc = c.regs[i.s], !.regs[i.r] = c.pc + i.len]
    ELSE [c EXCEPT !.pc = c.regs[i.s]]

\* MISC: iret takes the PC from IPC and enables interrupts; IPSW stays.
Special(i, c) ==
    CASE i.op = "mfsr"   -> Advance([c EXCEPT !.regs[i.r] = c.sr[i.sr]], i)
      [] i.op = "mtsr"   -> Advance([c EXCEPT !.sr[i.sr] = c.regs[i.s]], i)
      [] i.op = "setgie" -> Advance([c EXCEPT !.sr = SetGie(@, i.imm # 0)], i)
      [] OTHER           -> [c EXCEPT !.pc = c.sr["IPC"], !.sr = SetGie(@, TRUE)]

\* simulate() for i.op not in MemOps.
Executed(i, c) ==
    CASE i.op = "set"                   -> SetRegister(i, c)
      [] i.op = "beqz"                  -> Branch(i, c)
      [] i.op \in {"j", "jal"}          -> Jump(i, c)
      [] i.op \in {"jr", "ret", "jral"} -> JumpRegister(i, c)
      [] i.op \in {"mfsr", "mtsr", "setgie", "iret"} -> Special(i, c)
      [] OTHER                          -> c

\* Word k of a load that was let through.
LoadedWord(i, c, k, val) == [c EXCEPT !.regs[Words(i)[k]] = val]

\* The base register of a load or store multiple moves after the last word.
Moved(i, c) == IF i.op \in Multiple THEN [c EXCEPT !.regs[i.s] = @ + i.move] ELSE c

\* The end of a load or store.
Completed(i, c) == Advance(Moved(i, c), i)
=============================================================================
