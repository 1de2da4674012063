------------------------- MODULE TransparentProofs -------------------------
(***************************************************************************)
(* Debugging is transparent, for every image whose handler keeps to itself *)
(* and every session that only looks: any number of stops, steps, edits of *)
(* the table and interrupts.                                               *)
(***************************************************************************)
EXTENDS Transparent, SimulatorProofs

----------------------------------------------------------------------------
(* What an instruction without a memory access does to PC and registers.   *)

PcAfter(i, c) ==
    IF i.op \in {"jr", "ret", "jral"} THEN c.regs[i.s]
    ELSE IF i.op \in {"j", "jal"} \/ (i.op = "beqz" /\ c.regs[i.r] = 0) THEN c.pc + i.imm
    ELSE IF i.op = "iret" THEN c.sr["IPC"]
    ELSE c.pc + i.len

RegsAfter(i, c) ==
    IF i.op = "set" THEN [c.regs EXCEPT ![i.r] = i.imm]
    ELSE IF i.op = "jal" THEN [c.regs EXCEPT ![LP] = c.pc + 4]
    ELSE IF i.op = "jral" THEN [c.regs EXCEPT ![i.r] = c.pc + i.len]
    ELSE IF i.op = "mfsr" THEN [c.regs EXCEPT ![i.r] = c.sr[i.sr]]
    ELSE c.regs

\* A processor with the registers regs, as records are built in both programs.
IsCpu(c, regs) == c = [pc |-> c.pc, regs |-> c.regs, sr |-> c.sr] /\ DOMAIN c.regs = regs
                  /\ DOMAIN c.sr = SpecialReg

LEMMA ExecutedFields ==
    ASSUME NEW i \in Instr, i.op \notin MemOps \cup {"unimpl"},
           NEW R, NEW c, IsCpu(c, R), i.r \in R, i.s \in R, LP \in R
    PROVE  /\ Executed(i, c).pc = PcAfter(i, c)
           /\ Executed(i, c).regs = RegsAfter(i, c)
           /\ i.op \notin {"mtsr", "setgie", "iret"} => Executed(i, c).sr = c.sr
<1>1. i.op \in Ops
  BY DEF Instr
<1>2. CASE i.op = "set"
  BY <1>2 DEF Executed, SetRegister, Advance, PcAfter, RegsAfter, IsCpu
<1>3. CASE i.op = "beqz"
  BY <1>3 DEF Executed, Branch, Advance, PcAfter, RegsAfter, IsCpu
<1>4. CASE i.op = "j"
  BY <1>4 DEF Executed, Jump, PcAfter, RegsAfter, IsCpu
<1>5. CASE i.op = "jal"
  BY <1>5 DEF Executed, Jump, PcAfter, RegsAfter, IsCpu
<1>6. CASE i.op \in {"jr", "ret"}
  BY <1>6 DEF Executed, JumpRegister, PcAfter, RegsAfter, IsCpu
<1>7. CASE i.op = "jral"
  BY <1>7 DEF Executed, JumpRegister, PcAfter, RegsAfter, IsCpu
<1>8. CASE i.op = "mfsr"
  BY <1>8 DEF Executed, Special, Advance, PcAfter, RegsAfter, IsCpu
<1>9. CASE i.op = "mtsr"
  BY <1>9 DEF Executed, Special, Advance, PcAfter, RegsAfter, IsCpu
<1>10. CASE i.op = "setgie"
  BY <1>10 DEF Executed, Special, Advance, PcAfter, RegsAfter, IsCpu
<1>11. CASE i.op = "iret"
  BY <1>11 DEF Executed, Special, PcAfter, RegsAfter, IsCpu
<1> QED
  BY <1>1, <1>2, <1>3, <1>4, <1>5, <1>6, <1>7, <1>8, <1>9, <1>10, <1>11 DEF Ops, MemOps,
     LoadOps, StoreOps

\* The two modules read the same instruction set.
LEMMA SameIsa ==
    ASSUME NEW i, NEW c
    PROVE  Main!Executed(i, c) = Executed(i, c)
BY DEF Main!Executed, Executed, Main!SetRegister, SetRegister, Main!Branch, Branch,
       Main!Jump, Jump, Main!JumpRegister, JumpRegister, Main!Special, Special,
       Main!Advance, Advance, Main!SetGie, SetGie

LEMMA SameWords ==
    /\ Main!MemOps = MemOps /\ Main!LoadOps = LoadOps /\ Main!StoreOps = StoreOps
    /\ \A i : Main!Words(i) = Words(i)
    /\ \A i, k : Main!WordAddr(i, k) = WordAddr(i, k)
BY DEF Main!MemOps, MemOps, Main!LoadOps, LoadOps, Main!StoreOps, StoreOps,
       Main!Words, Words, Main!Multiple, Multiple, Main!WordAddr, WordAddr

\* The words of a well-formed load or store: at least one, each in a register and
\* at an address of its own.
LEMMA WordFacts ==
    ASSUME NEW i, WellFormed(i)
    PROVE  /\ i \in Instr
           /\ Len(Words(i)) \in Nat \ {0}
           /\ \A k \in 1 .. Len(Words(i)) : Words(i)[k] \in Reg
           /\ \A j, k \in 1 .. Len(Words(i)) : Words(i)[j] = Words(i)[k] => j = k
           /\ \A j, k \in 1 .. Len(Words(i)) : WordAddr(i, j) = WordAddr(i, k) => j = k
<1>1. i \in Instr /\ i.list \in Seq(Reg) /\ i.imm \in Int /\ i.r \in Reg
  BY DEF WellFormed, Instr
<1>2. CASE i.op \in Multiple
  <2>1. Words(i) = i.list /\ i.list # <<>>
    BY <1>2 DEF Words, WellFormed
  <2>2. Len(i.list) \in Nat \ {0} /\ \A k \in 1 .. Len(i.list) : i.list[k] \in Reg
    BY <1>1, <2>1
  <2>3. \A j, k \in 1 .. Len(i.list) : i.list[j] = i.list[k] => j = k
    BY DEF WellFormed
  <2>4. \A j, k \in 1 .. Len(i.list) : WordAddr(i, j) = WordAddr(i, k) => j = k
    BY <1>1, <2>2 DEF WordAddr
  <2> QED
    BY <1>1, <2>1, <2>2, <2>3, <2>4
<1>3. CASE i.op \notin Multiple
  <2>1. Words(i) = <<i.r>> /\ Len(Words(i)) = 1 /\ Words(i)[1] = i.r
    BY <1>3 DEF Words
  <2> QED
    BY <1>1, <2>1
<1> QED
  BY <1>2, <1>3

\* A plain load or store has one word, at its address.
LEMMA OneWord ==
    ASSUME NEW i \in Instr, i.op \notin Multiple
    PROVE  Len(Words(i)) = 1 /\ Words(i)[1] = i.r /\ WordAddr(i, 1) = i.imm
<1>1. Words(i) = <<i.r>> /\ i.imm \in Int
  BY DEF Words, Instr
<1> QED
  BY <1>1 DEF WordAddr

\* The end of a load or store that does not move its base register.
LEMMA CompletedFields ==
    ASSUME NEW c \in Cpu, NEW i \in Instr, i.op \in Multiple => i.move = 0
    PROVE  /\ Completed(i, c).pc = c.pc + i.len
           /\ Completed(i, c).regs = c.regs /\ Completed(i, c).sr = c.sr
<1>1. i.s \in Reg /\ c.regs \in [Reg -> Int] /\ c.regs[i.s] \in Int /\ c.regs[i.s] + 0 = c.regs[i.s]
  BY DEF Cpu, Instr
<1>2. CASE i.op \in Multiple
  <2>1. Moved(i, c) = [c EXCEPT !.regs[i.s] = c.regs[i.s] + 0]
    BY <1>2 DEF Moved, Cpu
  <2>2. [c.regs EXCEPT ![i.s] = c.regs[i.s]] = c.regs
    BY <1>1
  <2>3. Moved(i, c).regs = c.regs /\ Moved(i, c).sr = c.sr /\ Moved(i, c).pc = c.pc
        /\ Moved(i, c) \in Cpu
    BY <1>1, <2>1, <2>2 DEF Cpu
  <2> HIDE DEF Moved
  <2> QED
    BY <2>3 DEF Completed, Advance, Cpu
<1>3. CASE i.op \notin Multiple
  BY <1>3 DEF Completed, Moved, Advance, Cpu
<1> QED
  BY <1>2, <1>3

LEMMA CpuIsCpu ==
    ASSUME NEW c \in Cpu
    PROVE  IsCpu(c, Reg) /\ c.pc \in Int /\ c.regs \in [Reg -> Int] /\ c.sr \in [SpecialReg -> Int]
BY DEF IsCpu, Cpu

\* The main program's part of the processor.
MainCpu(c) == [pc |-> c.pc, regs |-> [r \in MainReg |-> c.regs[r]], sr |-> CpuReset.sr]

LEMMA MainCpuIsCpu ==
    ASSUME NEW c
    PROVE  IsCpu(MainCpu(c), MainReg) /\ MainCpu(c).pc = c.pc
           /\ \A r \in MainReg : MainCpu(c).regs[r] = c.regs[r]
BY DEF IsCpu, MainCpu, CpuReset

\* An instruction of the main program does not see what it does not have.
LEMMA MainExecutes ==
    ASSUME NEW c \in Cpu, NEW i \in Instr, i.op \notin MemOps \cup {"unimpl"},
           MainInstr(i, c.pc)
    PROVE  /\ Main!Executed(i, MainCpu(c)).pc = Executed(i, c).pc
           /\ Main!Executed(i, MainCpu(c)).regs = [r \in MainReg |-> Executed(i, c).regs[r]]
<1> DEFINE m == MainCpu(c)
<1>1. /\ i.r \in MainReg /\ i.s \in MainReg /\ LP \in MainReg /\ MainReg \subseteq Reg
      /\ i.op \notin {"mfsr", "mtsr", "iret"}
  BY TransparentAssumption DEF MainInstr
<1>2. IsCpu(m, MainReg) /\ m.pc = c.pc /\ \A r \in MainReg : m.regs[r] = c.regs[r]
  BY MainCpuIsCpu
<1>3. DOMAIN m.regs = MainReg
  BY <1>2 DEF IsCpu
<1>4. DOMAIN c.regs = Reg /\ IsCpu(c, Reg)
  BY CpuIsCpu
<1> HIDE DEF m
<1>5. Executed(i, m).pc = PcAfter(i, m) /\ Executed(i, m).regs = RegsAfter(i, m)
  BY <1>1, <1>2, ExecutedFields
<1>6. Executed(i, c).pc = PcAfter(i, c) /\ Executed(i, c).regs = RegsAfter(i, c)
  BY <1>1, <1>4, ExecutedFields
<1>7. PcAfter(i, m) = PcAfter(i, c)
  BY <1>1, <1>2 DEF PcAfter
<1>8. RegsAfter(i, m) = [r \in MainReg |-> RegsAfter(i, c)[r]]
  <2>1. m.regs = [r \in MainReg |-> c.regs[r]]
    BY DEF m, MainCpu
  <2>2. \A r \in MainReg : \A v : [m.regs EXCEPT ![r] = v]
                                        = [s \in MainReg |-> [c.regs EXCEPT ![r] = v][s]]
    BY <1>1, <1>4, <2>1
  <2>3. CASE i.op = "set"
    BY <1>1, <2>2, <2>3 DEF RegsAfter
  <2>4. CASE i.op = "jal"
    BY <1>1, <1>2, <2>2, <2>4 DEF RegsAfter
  <2>5. CASE i.op = "jral"
    BY <1>1, <1>2, <2>2, <2>5 DEF RegsAfter
  <2>6. CASE i.op \notin {"set", "jal", "jral"}
    BY <1>1, <2>1, <2>6 DEF RegsAfter
  <2> QED
    BY <2>3, <2>4, <2>5, <2>6
<1> QED
  BY <1>5, <1>6, <1>7, <1>8, SameIsa DEF m

\* ... and neither its PC nor its registers lead into the handler.
LEMMA MainStaysOut ==
    ASSUME NEW c \in Cpu, NEW i \in Instr, i.op \notin MemOps \cup {"unimpl"},
           MainInstr(i, c.pc), \A r \in MainReg : c.regs[r] \notin Handler
    PROVE  /\ Executed(i, c).pc \notin Handler
           /\ \A r \in MainReg : Executed(i, c).regs[r] \notin Handler
<1>1. /\ i.r \in MainReg /\ i.s \in MainReg /\ LP \in MainReg /\ MainReg \subseteq Reg
      /\ i.op \notin {"mfsr", "mtsr", "iret"}
  BY TransparentAssumption DEF MainInstr
<1>2. DOMAIN c.regs = Reg /\ IsCpu(c, Reg)
  BY CpuIsCpu
<1>3. Executed(i, c).pc = PcAfter(i, c) /\ Executed(i, c).regs = RegsAfter(i, c)
  BY <1>1, <1>2, ExecutedFields
<1>4. i.op \in Ops
  BY DEF Instr
<1>5. PcAfter(i, c) \notin Handler
  BY <1>1, <1>4 DEF PcAfter, MainInstr, FallsThrough, MemOps, LoadOps, StoreOps, Ops
<1>6. \A r \in MainReg : RegsAfter(i, c)[r] \notin Handler
  <2>1. \A s \in MainReg : \A v : v \notin Handler =>
            \A r \in MainReg : [c.regs EXCEPT ![s] = v][r] \notin Handler
    BY <1>1, <1>2
  <2>2. i.op = "set" => i.imm \notin Handler
    BY DEF MainInstr
  <2>3. i.op = "jal" => c.pc + 4 \notin Handler
    BY DEF MainInstr
  <2>4. i.op = "jral" => c.pc + i.len \notin Handler
    BY DEF MainInstr, FallsThrough
  <2> QED
    BY <1>1, <2>1, <2>2, <2>3, <2>4 DEF RegsAfter
<1> QED
  BY <1>3, <1>5, <1>6

\* The handler leaves the registers of the main program and, but for iret, the
\* special registers alone, and stays in its code.
LEMMA HandlerKeepsOut ==
    ASSUME NEW c \in Cpu, NEW i \in Instr, i.op \notin MemOps \cup {"unimpl"},
           HandlerInstr(i, c.pc)
    PROVE  /\ \A r \in MainReg : Executed(i, c).regs[r] = c.regs[r]
           /\ i.op = "iret" => Executed(i, c).pc = c.sr["IPC"]
           /\ i.op # "iret" => Executed(i, c).pc \in Handler /\ Executed(i, c).sr = c.sr
<1>1. /\ i.r \in Reg /\ i.s \in Reg /\ LP \in Reg /\ MainReg \subseteq Reg
      /\ i.op \in {"set", "beqz", "j", "mfsr", "iret"}
  BY TransparentAssumption, IsaAssumption DEF HandlerInstr, Instr, MemOps, LoadOps,
                                                StoreOps
<1>2. DOMAIN c.regs = Reg /\ IsCpu(c, Reg)
  BY CpuIsCpu
<1>3. /\ Executed(i, c).pc = PcAfter(i, c) /\ Executed(i, c).regs = RegsAfter(i, c)
      /\ i.op # "iret" => Executed(i, c).sr = c.sr
  BY <1>1, <1>2, ExecutedFields
<1>4. i.op # "iret" => PcAfter(i, c) \in Handler
  BY <1>1 DEF PcAfter, HandlerInstr, FallsThrough
<1>5. i.op = "iret" => PcAfter(i, c) = c.sr["IPC"]
  BY DEF PcAfter
<1>6. \A r \in MainReg : RegsAfter(i, c)[r] = c.regs[r]
  BY <1>1, <1>2 DEF RegsAfter, HandlerInstr
<1> QED
  BY <1>3, <1>4, <1>5, <1>6

----------------------------------------------------------------------------
(* Interrupt entry, the table and a store.                                 *)

LEMMA EvenPart ==
    ASSUME NEW v \in Int
    PROVE  (v - (v % 2)) % 2 # 1
OBVIOUS

\* Interrupts are off in the handler, and IPC says where it came from.
LEMMA InterruptEntry ==
    ASSUME NEW c \in Cpu
    PROVE  LET d == TakeInterrupt(c, Vector)
           IN d.pc = Vector /\ d.regs = c.regs /\ d.sr["IPC"] = c.pc /\ ~Gie(d)
<1> DEFINE sr == [c.sr EXCEPT !["INT_PEND"] = 2, !["IPSW"] = c.sr["PSW"], !["IPC"] = c.pc]
           d == TakeInterrupt(c, Vector)
<1>1. c.sr \in [SpecialReg -> Int] /\ c.sr["PSW"] \in Int
  BY DEF Cpu, SpecialReg
<1>2. DOMAIN sr = SpecialReg /\ sr["PSW"] = c.sr["PSW"] /\ sr["IPC"] = c.pc
  BY <1>1 DEF SpecialReg
<1>3. d.pc = Vector /\ d.regs = c.regs /\ d.sr = SetGie(sr, FALSE)
  BY DEF TakeInterrupt, Cpu
<1> HIDE DEF sr, d
<1>4. SetGie(sr, FALSE) = [sr EXCEPT !["PSW"] = (sr["PSW"] - (sr["PSW"] % 2)) + 0]
  BY DEF SetGie
<1>5. /\ SetGie(sr, FALSE)["IPC"] = sr["IPC"]
      /\ SetGie(sr, FALSE)["PSW"] = sr["PSW"] - (sr["PSW"] % 2)
  <2> DEFINE v == sr["PSW"] - (sr["PSW"] % 2)
  <2>1. v + 0 = v
    BY <1>1, <1>2
  <2> HIDE DEF v
  <2>2. SetGie(sr, FALSE) = [sr EXCEPT !["PSW"] = v]
    BY <1>4, <2>1 DEF v
  <2>3. SetGie(sr, FALSE)["IPC"] = sr["IPC"] /\ SetGie(sr, FALSE)["PSW"] = v
    BY <1>2, <2>2 DEF SpecialReg
  <2> QED
    BY <2>3 DEF v
<1>6. ~Gie(d)
  BY <1>1, <1>2, <1>3, <1>5, EvenPart DEF Gie
<1> QED
  BY <1>2, <1>3, <1>5, <1>6 DEF d

ObservingTable(table) == \A i \in 1 .. Len(table) : ObservingEntry(table[i])

\* Editing the table brings no jump and no script into it.
LEMMA PerformObserves ==
    ASSUME bp \in Seq(Event), ObservingTable(bp), NEW c \in Command, ObservingCommand(c),
           Perform(c)
    PROVE  ObservingTable(bp') /\ UNCHANGED <<cpu, mem>>
<1>1. c.n \in Int /\ c.v \in Int /\ c.ev \in Event /\ Len(bp) \in Nat
      /\ \A i \in 1 .. Len(bp) : bp[i] \in Event
  BY CommandType
<1>2. UNCHANGED <<cpu, mem>>
  BY DEF Perform, ObservingCommand
<1> SUFFICES ObservingTable(bp')
  BY <1>2
<1>3. CASE c.cmd = "create" /\ bp' = RegisterBreakpoint(bp, c.ev)
  <2>1. CASE Refused(bp, c.ev)
    BY <1>3, <2>1 DEF RegisterBreakpoint
  <2>2. CASE ~Refused(bp, c.ev)
    <3>1. bp' = Append(bp, c.ev) /\ ObservingEntry(c.ev)
      BY <1>3, <2>2 DEF RegisterBreakpoint, ObservingCommand
    <3>2. /\ Len(bp') = Len(bp) + 1 /\ bp'[Len(bp) + 1] = c.ev
          /\ \A i \in 1 .. Len(bp) : bp'[i] = bp[i]
      BY <1>1, <3>1
    <3>3. \A i \in 1 .. Len(bp') : i \in 1 .. Len(bp) \/ i = Len(bp) + 1
      BY <1>1, <3>2
    <3> QED
      BY <3>1, <3>2, <3>3 DEF ObservingTable
  <2> QED
    BY <2>1, <2>2
<1>4. CASE bp' = RemoveBreakpoint(bp, c.n)
  <2>1. CASE ~ValidNumber(bp, c.n)
    BY <1>4, <2>1 DEF RemoveBreakpoint
  <2>2. CASE ValidNumber(bp, c.n)
    <3> DEFINE k == BpNumber(c.n)
    <3>1. k \in 1 .. Len(bp)
      BY <2>2 DEF ValidNumber
    <3>2. bp' = [i \in 1 .. Len(bp) - 1 |-> IF i < k THEN bp[i] ELSE bp[i + 1]]
      BY <1>4, <2>2 DEF RemoveBreakpoint
    <3> HIDE DEF k
    <3>3. Len(bp') = Len(bp) - 1
      BY <1>1, <3>1, <3>2
    <3>4. \A i \in 1 .. Len(bp) - 1 : i \in 1 .. Len(bp) /\ i + 1 \in 1 .. Len(bp)
      BY <1>1
    <3> QED
      BY <3>2, <3>3, <3>4 DEF ObservingTable
  <2> QED
    BY <2>1, <2>2
<1>5. ASSUME NEW d \in BOOLEAN, bp' = SetDisabled(bp, c.n, d)
      PROVE  ObservingTable(bp')
  <2>1. CASE ~ValidNumber(bp, c.n)
    BY <1>5, <2>1 DEF SetDisabled
  <2>2. CASE ValidNumber(bp, c.n)
    <3> DEFINE k == BpNumber(c.n)
    <3>1. k \in 1 .. Len(bp)
      BY <2>2 DEF ValidNumber
    <3>2. bp' = [bp EXCEPT ![k] = [bp[k] EXCEPT !.disabled = d]]
      BY <1>5, <2>2 DEF SetDisabled
    <3> HIDE DEF k
    <3>3. Len(bp') = Len(bp) /\ \A i \in 1 .. Len(bp) :
              bp'[i] = IF i = k THEN [bp[k] EXCEPT !.disabled = d] ELSE bp[i]
      BY <1>1, <3>1, <3>2
    <3>4. [bp[k] EXCEPT !.disabled = d].action = bp[k].action
      BY <1>1, <3>1 DEF Event, EventFields
    <3> QED
      BY <3>1, <3>3, <3>4 DEF ObservingTable, ObservingEntry
  <2> QED
    BY <2>1, <2>2
<1>6. ASSUME NEW d \in BOOLEAN, bp' = SetAllDisabled(bp, d)
      PROVE  ObservingTable(bp')
  <2>1. Len(bp') = Len(bp) /\ \A i \in 1 .. Len(bp) : bp'[i] = [bp[i] EXCEPT !.disabled = d]
    BY <1>1, <1>6 DEF SetAllDisabled
  <2>2. \A i \in 1 .. Len(bp) : [bp[i] EXCEPT !.disabled = d].action = bp[i].action
    BY <1>1 DEF Event, EventFields
  <2> QED
    BY <2>1, <2>2 DEF ObservingTable, ObservingEntry
<1>7. CASE bp' = bp
  BY <1>7
<1>8. \/ c.cmd = "create" /\ bp' = RegisterBreakpoint(bp, c.ev)
      \/ bp' = RemoveBreakpoint(bp, c.n)
      \/ \E d \in BOOLEAN : bp' = SetDisabled(bp, c.n, d) \/ bp' = SetAllDisabled(bp, d)
      \/ bp' = bp
  BY DEF Perform
<1> QED
  BY <1>3, <1>4, <1>5, <1>6, <1>7, <1>8

\* What a store does to a word of the main program.
LEMMA StoreMain ==
    ASSUME mem \in Memory, NEW a \in Addr, NEW v \in Int, StoreWord(a, v), NEW b \in MainAddr
    PROVE  /\ b = a => mem'[b] = v
           /\ b # a => /\ mem'[b] \in {Undef, mem[b]}
                       /\ mem[b] \in Int => mem'[b] = mem[b]
           /\ MainContents(mem', b) = IF b = a THEN v ELSE MainContents(mem, b)
<1>1. /\ MainAddr \subseteq Addr /\ Device[b] = NoDevice
      /\ Undef # NoPage /\ Undef \notin Int /\ NoPage \notin Int
  BY TransparentAssumption, SimulatorAssumption
<1>2. CASE Device[a] # NoDevice
  <2>1. mem' = mem /\ a # b
    BY <1>1, <1>2 DEF StoreWord
  <2> QED
    BY <2>1
<1>3. CASE Device[a] = NoDevice
  <2>1. mem' = [c \in Addr |-> IF c = a THEN v
                               ELSE IF mem[c] = NoPage /\ Page[c] = Page[a]
                               THEN Undef ELSE mem[c]]
    BY <1>3 DEF StoreWord
  <2> QED
    BY <1>1, <2>1 DEF MainContents
<1> QED
  BY <1>2, <1>3

----------------------------------------------------------------------------
(* The steps.  Each one keeps MainInv and is a step of the main program or *)
(* none.                                                                   *)

TransparentInv == TypeAndControl /\ MainInv

MainStutters == UNCHANGED <<code, MainPc, MainRegs, MainMem>>

\* What the main program consists of, where no store is in hand.
LEMMA NotStoring ==
    ASSUME ~Storing
    PROVE  /\ MainPc = IF resume # None THEN resume ELSE cpu.pc
           /\ MainMem = [a \in MainAddr |-> MainContents(mem, a)]
BY DEF MainPc, MainMem, Stored, HalfStored

LEMMA NotStoringNext ==
    ASSUME ~Storing'
    PROVE  /\ MainPc' = IF resume' # None THEN resume' ELSE cpu'.pc
           /\ MainMem' = [a \in MainAddr |-> MainContents(mem', a)]
BY DEF MainPc, MainMem, MainContents, Stored, HalfStored

\* What the main program consists of has not been touched.
LEMMA MachineSame ==
    ASSUME UNCHANGED <<code, cpu, mem, resume>>,
           UNCHANGED <<phase, acc, instr, before>> \/ (~Storing /\ ~Storing')
    PROVE  MainStutters
<1>1. MainRegs' = MainRegs
  BY DEF MainRegs
<1>2. CASE UNCHANGED <<phase, acc, instr, before>>
  BY <1>1, <1>2 DEF MainStutters, MainPc, MainMem, MainContents, Stored, HalfStored, Storing,
                    WordsLeft
<1>3. CASE ~Storing /\ ~Storing'
  BY <1>1, <1>3, NotStoring, NotStoringNext DEF MainStutters
<1> QED
  BY <1>2, <1>3

\* The instruction in hand keeps the rules of the side it is on.
LEMMA RulesInHand ==
    ASSUME TransparentInv, phase \in {"pcscan", "exec", "memscan", "words"}
    PROVE  /\ WellFormed(instr) /\ instr \in Instr
           /\ cpu \in Cpu /\ cpu.pc \in DOMAIN code /\ instr = code[cpu.pc]
           /\ resume = None => MainInstr(instr, cpu.pc)
           /\ resume # None => HandlerInstr(instr, cpu.pc)
<1>1. PICK s \in Sessions : code = s.code
  BY DEF TransparentInv, TypeAndControl, TypeOK, Images
<1>2. cpu.pc \in DOMAIN code /\ instr = code[cpu.pc]
  BY DEF TransparentInv, MainInv, InHand
<1>3. IF cpu.pc \in Handler THEN HandlerInstr(instr, cpu.pc) ELSE MainInstr(instr, cpu.pc)
  BY <1>1, <1>2, TransparentAssumption
<1>4. instr \in Instr /\ cpu \in Cpu
  BY DEF TransparentInv, TypeAndControl, TypeOK
<1>5. WellFormed(instr)
  BY <1>1, <1>2, SimulatorAssumption
<1> QED
  BY <1>2, <1>3, <1>4, <1>5 DEF TransparentInv, MainInv, Placed

\* A session that only looks has no entry that jumps or runs a script.
LEMMA NeverTaken ==
    ASSUME TransparentInv
    PROVE  ~ScanJump /\ ~ScanJumpNull /\ ~ScanScript /\ ~Restart
<1>1. Scanning => idx \in 1 .. Len(bp)
  BY DEF TransparentInv, TypeAndControl, TypeOK, Scanning
<1> QED
  BY <1>1 DEF TransparentInv, MainInv, Observing, ObservingEntry, ScanJump, ScanJumpNull,
              ScanScript, Restart

\* The parts of the invariant that speak of the machine only.
LEMMA MachineInvSame ==
    ASSUME TransparentInv, UNCHANGED <<cpu, mem, resume>>
    PROVE  Placed' /\ Separate' /\ ReturnAddress'
BY DEF TransparentInv, MainInv, Placed, Separate, ReturnAddress, Gie

\* The parts that speak of the step in hand, when it does not move.
LEMMA HandSame ==
    ASSUME TransparentInv, UNCHANGED <<code, cpu, mem, phase, acc, instr, before>>
    PROVE  InHand' /\ WordsDone'
BY DEF TransparentInv, MainInv, InHand, WordsDone, Storing, MainContents

\* ... and when there is no step.
LEMMA HandEmpty ==
    ASSUME phase' \in {"idle", "fetch", "end"}
    PROVE  InHand' /\ WordsDone' /\ ~Storing'
BY DEF InHand, WordsDone, Storing

\* The user at the prompt, Ctrl+C, the end of an iteration, the walk over the
\* table and an instruction the simulator does not know.
LEMMA LooksOnly ==
    ASSUME TransparentInv,
           \/ TypeCommand \/ TypeKey \/ TypeRun \/ TypeStep \/ CtrlC \/ EndIteration
           \/ ScanPass \/ ScanStop \/ ScanPcDone \/ ExecUnimplemented \/ UNCHANGED vars
    PROVE  MainInv' /\ MainStutters
<1> USE DEF loop, scan
<1>1. CASE TypeCommand
  <2>1. PICK c \in Commands : Perform(c)
    BY <1>1 DEF TypeCommand
  <2>2. /\ c \in Command /\ ObservingCommand(c) /\ bp \in Seq(Event) /\ ObservingTable(bp)
    BY SimulatorAssumption, TransparentAssumption
    DEF TransparentInv, TypeAndControl, TypeOK, MainInv, Observing, ObservingTable
  <2>3. ObservingTable(bp') /\ UNCHANGED <<cpu, mem>>
    BY <2>1, <2>2, PerformObserves
  <2>4. UNCHANGED <<code, cpu, mem, resume, phase, acc, instr, before, mode>>
    BY <1>1, <2>3 DEF TypeCommand
  <2>5. Observing'
    BY <2>3, <2>4 DEF TransparentInv, MainInv, Observing, ObservingTable
  <2> QED
    BY <2>4, <2>5, HandSame, MachineSame, MachineInvSame DEF MainInv
<1>2. CASE TypeRun \/ TypeStep \/ EndIteration
  <2>1. /\ UNCHANGED <<code, cpu, mem, resume, bp>> /\ mode' # "crashed"
        /\ phase \in {"idle", "end"} /\ phase' \in {"idle", "fetch"}
    BY <1>2 DEF TypeRun, TypeStep, EndIteration, TransparentInv, TypeAndControl, ControlOK,
                MainInv, Observing
  <2>2. Observing'
    BY <2>1 DEF TransparentInv, MainInv, Observing
  <2>3. ~Storing
    BY <2>1 DEF Storing
  <2> QED
    BY <2>1, <2>2, <2>3, HandEmpty, MachineSame, MachineInvSame DEF MainInv
<1>3. CASE TypeKey \/ CtrlC \/ ScanPass \/ ScanStop \/ UNCHANGED vars
  <2>1. UNCHANGED <<code, cpu, mem, resume, phase, acc, instr, before, mode, bp>>
    BY <1>3 DEF TypeKey, CtrlC, ScanPass, ScanStop, vars
  <2>2. Observing'
    BY <2>1 DEF TransparentInv, MainInv, Observing
  <2> QED
    BY <2>1, <2>2, HandSame, MachineSame, MachineInvSame DEF MainInv
<1>4. CASE ScanPcDone \/ ExecUnimplemented
  <2>1. /\ UNCHANGED <<code, cpu, mem, resume, acc, instr, before, mode, bp>>
        /\ phase \in {"pcscan", "exec"} /\ phase' \in {"exec", "end"}
    BY <1>4 DEF ScanPcDone, ExecUnimplemented
  <2>2. Observing'
    BY <2>1 DEF TransparentInv, MainInv, Observing
  <2>3. InHand' /\ WordsDone' /\ ~Storing /\ ~Storing'
    BY <2>1 DEF TransparentInv, MainInv, InHand, WordsDone, Storing
  <2> QED
    BY <2>1, <2>2, <2>3, MachineSame, MachineInvSame DEF MainInv
<1> QED
  BY <1>1, <1>2, <1>3, <1>4

\* An interrupt is taken only where none is being handled.
LEMMA FetchTransparent ==
    ASSUME TransparentInv, Fetch
    PROVE  MainInv' /\ MainStutters
<1>1. /\ cpu \in Cpu /\ cpu.pc \in Int /\ None \notin Int /\ Vector \in Handler
      /\ MainReg \subseteq Reg
  BY SimulatorAssumption, TransparentAssumption
  DEF TransparentInv, TypeAndControl, TypeOK, Cpu
<1>2. /\ phase = "fetch" /\ phase' \in {"end", "exec", "pcscan"}
      /\ UNCHANGED <<code, mem, bp, mode, acc>> /\ cpu' = FetchCpu /\ before'.mem = mem
      /\ phase' # "end" => cpu'.pc \in DOMAIN code /\ instr' = code[cpu'.pc]
  BY DEF Fetch, loop
<1>3. Observing' /\ InHand' /\ WordsDone'
  BY <1>2 DEF TransparentInv, MainInv, Observing, InHand, WordsDone, Storing
<1>4. ~Storing /\ ~Storing'
  BY <1>2 DEF Storing
<1>5. CASE ~InterruptTaken
  <2>1. cpu' = cpu /\ resume' = resume
    BY <1>2, <1>5 DEF Fetch, FetchCpu
  <2> QED
    BY <1>2, <1>3, <1>4, <2>1, MachineSame, MachineInvSame DEF MainInv
<1>6. CASE InterruptTaken
  <2>1. resume = None
    BY <1>6 DEF InterruptTaken, TransparentInv, MainInv, ReturnAddress
  <2>2. cpu' = TakeInterrupt(cpu, Vector) /\ resume' = cpu.pc
    BY <1>2, <1>6 DEF Fetch, FetchCpu
  <2>3. /\ cpu'.pc = Vector /\ cpu'.regs = cpu.regs
        /\ cpu'.sr["IPC"] = cpu.pc /\ ~Gie(cpu')
    BY <1>1, <2>2, InterruptEntry
  <2>4. Placed' /\ Separate' /\ ReturnAddress'
    BY <1>1, <1>2, <2>1, <2>2, <2>3
    DEF TransparentInv, MainInv, Placed, Separate, ReturnAddress, Gie
  <2>5. MainPc' = MainPc /\ MainMem' = MainMem
    BY <1>1, <1>2, <1>4, <2>1, <2>2, NotStoring, NotStoringNext
  <2>6. MainRegs' = MainRegs
    BY <2>3 DEF MainRegs
  <2> QED
    BY <1>2, <1>3, <2>4, <2>5, <2>6 DEF MainInv, MainStutters
<1> QED
  BY <1>5, <1>6

\* What Execute leaves alone.
LEMMA ExecuteFrame ==
    ASSUME TransparentInv, Execute
    PROVE  /\ UNCHANGED <<code, bp, mode, instr, before>> /\ Observing'
           /\ phase \in {"exec", "memscan", "words"} /\ phase' \in {"memscan", "words", "end"}
<1>1. /\ UNCHANGED <<code, bp, mode, instr, before>>
      /\ phase \in {"exec", "memscan", "words"} /\ phase' \in {"memscan", "words", "end"}
  BY DEF Execute, ExecRegister, ExecUnimplemented, ExecStore, ExecLoad, FinishStore,
         FinishLoad, scan, loop, AtWord, WalkedAccess
<1> QED
  BY <1>1 DEF TransparentInv, MainInv, Observing

LEMMA RegisterTransparent ==
    ASSUME TransparentInv, ExecRegister
    PROVE  MainInv' /\ (Main!Next \/ MainStutters)
<1>1. /\ phase = "exec" /\ phase' = "end" /\ instr.op \notin MemOps \cup {"unimpl"}
      /\ cpu' = Executed(instr, cpu) /\ mem' = mem /\ code' = code
      /\ resume' = IF instr.op = "iret" THEN None ELSE resume
  BY DEF ExecRegister
<1>2. /\ instr \in Instr /\ cpu \in Cpu /\ cpu.pc \in DOMAIN code /\ instr = code[cpu.pc]
      /\ resume = None => MainInstr(instr, cpu.pc)
      /\ resume # None => HandlerInstr(instr, cpu.pc)
  BY <1>1, RulesInHand
<1>3. Observing' /\ InHand' /\ WordsDone' /\ ~Storing /\ ~Storing'
  BY <1>1, ExecuteFrame, HandEmpty DEF Execute, Storing
<1>4. MainMem' = MainMem
  BY <1>1, <1>3, NotStoring, NotStoringNext
<1>5. /\ resume = None => cpu.pc \notin Handler
      /\ resume # None => cpu.pc \in Handler /\ resume \notin Handler
                          /\ cpu.sr["IPC"] = resume /\ ~Gie(cpu)
      /\ \A r \in MainReg : cpu.regs[r] \notin Handler
      /\ \A a \in MainAddr : mem[a] \notin Handler
  BY DEF TransparentInv, MainInv, Placed, Separate, ReturnAddress
<1>6. CASE resume = None
  <2>1. MainInstr(instr, cpu.pc) /\ instr.op \notin {"mfsr", "mtsr", "iret"} /\ resume' = None
    BY <1>1, <1>2, <1>6 DEF MainInstr
  <2>2. /\ cpu'.pc \notin Handler /\ \A r \in MainReg : cpu'.regs[r] \notin Handler
    BY <1>1, <1>2, <1>5, <2>1, MainStaysOut
  <2>3. Placed' /\ Separate' /\ ReturnAddress'
    BY <1>1, <1>5, <2>1, <2>2 DEF Placed, Separate, ReturnAddress
  <2>4. MainPc = cpu.pc /\ MainPc' = cpu'.pc
    BY <1>3, <1>6, <2>1, NotStoring, NotStoringNext
  <2>5. [pc |-> MainPc, regs |-> MainRegs, sr |-> Main!CpuReset.sr] = MainCpu(cpu)
    BY <2>4 DEF MainCpu, MainRegs, Main!CpuReset, CpuReset, Main!SpecialReg, SpecialReg
  <2>6. /\ Main!Executed(instr, MainCpu(cpu)).pc = cpu'.pc
        /\ Main!Executed(instr, MainCpu(cpu)).regs = MainRegs'
    BY <1>1, <1>2, <2>1, MainExecutes DEF MainRegs
  <2>7. Main!Compute
    BY <1>1, <1>2, <1>4, <2>1, <2>4, <2>5, <2>6, SameWords
    DEF Main!Compute, Main!Instruction
  <2> QED
    BY <1>3, <2>3, <2>7 DEF MainInv, Main!Next
<1>7. CASE resume # None
  <2>1. /\ \A r \in MainReg : cpu'.regs[r] = cpu.regs[r]
        /\ instr.op = "iret" => cpu'.pc = cpu.sr["IPC"]
        /\ instr.op # "iret" => cpu'.pc \in Handler /\ cpu'.sr = cpu.sr
    BY <1>1, <1>2, <1>7, HandlerKeepsOut
  <2>2. MainRegs' = MainRegs
    BY <2>1 DEF MainRegs
  <2>3. Separate'
    BY <1>1, <1>5, <2>1 DEF Separate
  <2>4. MainPc' = MainPc
    BY <1>1, <1>3, <1>5, <1>7, <2>1, NotStoring, NotStoringNext
  <2>5. Placed' /\ ReturnAddress'
    BY <1>1, <1>5, <1>7, <2>1 DEF Placed, ReturnAddress, Gie
  <2> QED
    BY <1>1, <1>3, <1>4, <2>2, <2>3, <2>4, <2>5 DEF MainInv, MainStutters
<1> QED
  BY <1>6, <1>7

\* The words a store has written are its registers, and nothing else the main
\* program has differs from the memory the step began with.
LEMMA StoreWordsDone ==
    ASSUME TransparentInv, ExecStore,
           \A k \in 1 .. Len(Words(instr)) : Words(instr)[k] \in MainReg
               \/ WordAddr(instr, k) \notin MainAddr
    PROVE  WordsDone' /\ Separate'
<1> DEFINE v == cpu.regs[Words(instr)[NextWord]]
<1>0. AtWord(StoreOps) /\ TypeAndControl
  BY DEF ExecStore, TransparentInv
<1>1. /\ acc.word \in Nat /\ NextWord \in 1 .. Len(Words(instr)) /\ NextWord = acc.word + 1
      /\ NextAddr \in Addr /\ NextAddr = WordAddr(instr, NextWord)
      /\ Words(instr)[NextWord] \in Reg
      /\ phase = "exec" => acc.word = 0
      /\ instr.op \in StoreOps
  BY <1>0, NextWordFacts
<1>2. /\ StoreWord(NextAddr, v) /\ UNCHANGED <<cpu, before, instr>> /\ phase' = "memscan"
      /\ acc' = [type |-> "MEMORY_WRITE", addr |-> NextAddr, val |-> v, init |-> TRUE,
                 word |-> NextWord]
  BY DEF ExecStore
<1>3. acc'.word = NextWord
  BY <1>2
<1>4. WellFormed(instr) /\ cpu \in Cpu /\ mem \in Memory
  BY <1>0, RulesInHand DEF AtWord, TypeAndControl, TypeOK
<1>5. v \in Int
  BY <1>1, <1>4 DEF Cpu
<1> HIDE DEF v
<1>6. /\ \A k \in 1 .. acc.word : WordAddr(instr, k) \in MainAddr =>
            mem[WordAddr(instr, k)] = cpu.regs[Words(instr)[k]]
      /\ \A a \in MainAddr :
            \/ \E k \in 1 .. acc.word : WordAddr(instr, k) = a
            \/ MainContents(mem, a) = MainContents(before.mem, a)
  <2>1. CASE phase = "exec"
    <3>1. mem = before.mem
      BY <2>1 DEF TransparentInv, MainInv, InHand
    <3> QED
      BY <1>1, <2>1, <3>1
  <2>2. CASE phase = "words"
    <3>1. acc \in Access /\ acc.type = "MEMORY_WRITE"
      BY <1>0, <1>1, <2>2 DEF TypeAndControl, TypeOK, ControlOK, Access, MemTypes, LoadOps, StoreOps
    <3> QED
      BY <2>2, <3>1 DEF TransparentInv, MainInv, WordsDone, Storing
  <2> QED
    BY <1>0, <2>1, <2>2 DEF AtWord
<1>7. ASSUME NEW k \in 1 .. NextWord, WordAddr(instr, k) \in MainAddr
      PROVE  mem'[WordAddr(instr, k)] = cpu.regs[Words(instr)[k]]
  <2>1. CASE k = NextWord
    BY <1>1, <1>2, <1>4, <1>5, <1>7, <2>1, StoreMain DEF v
  <2>2. CASE k # NextWord
    <3>1. k \in 1 .. acc.word /\ k \in 1 .. Len(Words(instr))
      BY <1>1, <2>2
    <3>2. mem[WordAddr(instr, k)] = cpu.regs[Words(instr)[k]]
      BY <1>6, <1>7, <3>1
    <3>3. WordAddr(instr, k) # NextAddr /\ Words(instr)[k] \in Reg
      BY <1>1, <1>4, <2>2, <3>1, WordFacts
    <3>4. mem[WordAddr(instr, k)] \in Int
      BY <1>4, <3>2, <3>3 DEF Cpu
    <3> QED
      BY <1>1, <1>2, <1>4, <1>5, <1>7, <3>2, <3>3, <3>4, StoreMain
  <2> QED
    BY <2>1, <2>2
<1>8. ASSUME NEW a \in MainAddr
      PROVE  \/ \E k \in 1 .. NextWord : WordAddr(instr, k) = a
             \/ MainContents(mem', a) = MainContents(before.mem, a)
  <2>1. CASE a = NextAddr
    BY <1>1, <2>1
  <2>2. CASE a # NextAddr
    <3>1. MainContents(mem', a) = MainContents(mem, a)
      BY <1>1, <1>2, <1>4, <1>5, <2>2, StoreMain
    <3>2. \A k \in 1 .. acc.word : k \in 1 .. NextWord
      BY <1>1
    <3> QED
      BY <1>6, <3>1, <3>2
  <2> QED
    BY <2>1, <2>2
<1>9. WordsDone'
  <2>1. Storing' /\ instr'.op # "lmw"
    BY <1>1, <1>2 DEF Storing, StoreOps
  <2>2. \A k \in 1 .. acc'.word : WordAddr(instr', k) \in MainAddr =>
            mem'[WordAddr(instr', k)] = cpu'.regs[Words(instr')[k]]
    BY <1>2, <1>3, <1>7
  <2>3. \A a \in MainAddr :
            \/ \E k \in 1 .. acc'.word : WordAddr(instr', k) = a
            \/ MainContents(mem', a) = MainContents(before'.mem, a)
    BY <1>2, <1>3, <1>8
  <2> QED
    BY <2>1, <2>2, <2>3 DEF WordsDone, MainContents
<1>10. Separate'
  <2>1. /\ \A r \in MainReg : cpu.regs[r] \notin Handler
        /\ \A a \in MainAddr : mem[a] \notin Handler
        /\ Handler \subseteq Int /\ Undef \notin Int
    BY TransparentAssumption, SimulatorAssumption DEF TransparentInv, MainInv, Separate
  <2>2. NextAddr \in MainAddr => v \notin Handler
    BY <1>1, <2>1 DEF v
  <2>3. ASSUME NEW b \in MainAddr
        PROVE  mem'[b] \notin Handler
    BY <1>1, <1>2, <1>4, <1>5, <2>1, <2>2, StoreMain
  <2> QED
    BY <1>2, <2>1, <2>3 DEF Separate
<1> QED
  BY <1>9, <1>10

\* The value is in memory before the walk; the main program's PC is past the
\* instruction from its last word on.
LEMMA StoreTransparent ==
    ASSUME TransparentInv, ExecStore
    PROVE  MainInv' /\ (Main!Next \/ MainStutters)
<1>0. AtWord(StoreOps) /\ TypeAndControl
  BY DEF ExecStore, TransparentInv
<1>1. /\ acc.word \in Nat /\ NextWord \in 1 .. Len(Words(instr)) /\ NextWord = acc.word + 1
      /\ NextAddr = WordAddr(instr, NextWord) /\ phase \in {"exec", "words"}
      /\ phase = "exec" => acc.word = 0
      /\ instr.op \in StoreOps
  BY <1>0, NextWordFacts DEF AtWord
<1>2. /\ phase' = "memscan" /\ acc'.type = "MEMORY_WRITE" /\ acc'.word = NextWord
      /\ UNCHANGED <<code, cpu, instr, resume, before>>
  BY DEF ExecStore
<1>3. /\ WellFormed(instr) /\ instr \in Instr
      /\ cpu \in Cpu /\ cpu.pc \in DOMAIN code /\ instr = code[cpu.pc]
      /\ resume = None => MainInstr(instr, cpu.pc)
      /\ resume # None => HandlerInstr(instr, cpu.pc)
  BY <1>1, RulesInHand
<1>4. Len(Words(instr)) \in Nat
  BY <1>3, WordFacts
<1>5. /\ resume = None => \A k \in 1 .. Len(Words(instr)) : Words(instr)[k] \in MainReg
      /\ resume # None => /\ Len(Words(instr)) = 1 /\ WordAddr(instr, 1) \notin MainAddr
                          /\ instr.op \notin Multiple
  <2>1. CASE resume # None
    <3>1. instr.op = "swi" /\ instr.imm \notin MainAddr
      BY <1>1, <1>3, <2>1 DEF HandlerInstr, StoreOps
    <3> QED
      BY <1>3, <2>1, <3>1, OneWord DEF Multiple
  <2>2. CASE resume = None
    <3>1. CASE instr.op \in Multiple
      BY <1>3, <2>2, <3>1 DEF MainInstr, Words
    <3>2. CASE instr.op \notin Multiple
      BY <1>3, <2>2, <3>2, OneWord DEF MainInstr
    <3> QED
      BY <2>2, <3>1, <3>2
  <2> QED
    BY <2>1, <2>2
<1>6. \A k \in 1 .. Len(Words(instr)) :
          Words(instr)[k] \in MainReg \/ WordAddr(instr, k) \notin MainAddr
  BY <1>5
<1>7. WordsDone' /\ Separate'
  BY <1>6, StoreWordsDone
<1>8. Observing'
  BY ExecuteFrame DEF Execute
<1>9. InHand'
  BY <1>2, <1>3 DEF InHand
<1>10. Placed' /\ ReturnAddress'
  BY <1>2 DEF TransparentInv, MainInv, Placed, ReturnAddress, Gie
<1>11. MainRegs' = MainRegs
  BY <1>2 DEF MainRegs
<1>12. MainInv'
  BY <1>7, <1>8, <1>9, <1>10 DEF MainInv
<1>13. /\ MainPc = IF resume # None THEN resume ELSE cpu.pc
       /\ \A a \in MainAddr : MainMem[a] = MainContents(before.mem, a)
       /\ MainMem = [a \in MainAddr |-> MainMem[a]]
  <2>1. CASE phase = "exec"
    <3>1. ~Storing /\ mem = before.mem
      BY <2>1 DEF Storing, TransparentInv, MainInv, InHand
    <3> QED
      BY <3>1, NotStoring
  <2>2. CASE phase = "words"
    <3>1. acc \in Access /\ acc.type = "MEMORY_WRITE" /\ WordsLeft
      BY <1>0, <1>1, <2>2 DEF TypeAndControl, TypeOK, ControlOK, Access, MemTypes, LoadOps,
                              StoreOps, WordsLeft
    <3> QED
      BY <2>2, <3>1 DEF MainPc, MainMem, Stored, HalfStored, Storing
  <2> QED
    BY <1>1, <2>1, <2>2
<1>14. CASE NextWord < Len(Words(instr))
  <2>1. HalfStored' /\ ~Stored'
    BY <1>2, <1>14 DEF HalfStored, Stored, Storing, WordsLeft
  <2>2. MainPc' = MainPc
    BY <1>2, <1>13, <2>1 DEF MainPc
  <2>3. MainMem' = [a \in MainAddr |-> MainContents(before'.mem, a)]
    BY <2>1 DEF MainMem, MainContents
  <2>4. MainMem' = MainMem
    BY <1>2, <1>13, <2>3
  <2> QED
    BY <1>2, <1>11, <1>12, <2>2, <2>4 DEF MainStutters
<1>15. CASE NextWord = Len(Words(instr))
  <2>1. ~HalfStored' /\ Stored'
    BY <1>2, <1>4, <1>15 DEF HalfStored, Stored, Storing, WordsLeft
  <2>2. MainPc' = IF resume # None THEN resume ELSE cpu.pc + instr.len
    BY <1>2, <2>1 DEF MainPc
  <2>3. MainMem' = [a \in MainAddr |-> MainContents(mem', a)]
    BY <2>1 DEF MainMem, MainContents
  <2>4. /\ \A k \in 1 .. Len(Words(instr)) : WordAddr(instr, k) \in MainAddr =>
              mem'[WordAddr(instr, k)] = cpu.regs[Words(instr)[k]]
        /\ \A a \in MainAddr :
              \/ \E k \in 1 .. Len(Words(instr)) : WordAddr(instr, k) = a
              \/ MainContents(mem', a) = MainContents(before.mem, a)
    BY <1>2, <1>7, <1>15 DEF WordsDone, Storing, MainContents
  <2>5. CASE resume # None
    <3>1. ASSUME NEW a \in MainAddr
          PROVE  MainContents(mem', a) = MainContents(before.mem, a)
      <4>1. ~ \E k \in 1 .. Len(Words(instr)) : WordAddr(instr, k) = a
        <5> SUFFICES ASSUME NEW k \in 1 .. Len(Words(instr)), WordAddr(instr, k) = a
                     PROVE  FALSE
          OBVIOUS
        <5>1. k = 1
          BY <1>5, <2>5
        <5> QED
          BY <1>5, <2>5, <5>1
      <4> QED
        BY <2>4, <4>1
    <3>2. MainMem' = MainMem
      BY <1>13, <2>3, <3>1
    <3> QED
      BY <1>2, <1>11, <1>12, <1>13, <2>2, <2>5, <3>2 DEF MainStutters
  <2>6. CASE resume = None
    <3>1. ASSUME NEW a \in MainAddr
          PROVE  MainContents(mem', a) =
                     IF \E k \in 1 .. Len(Words(instr)) : WordAddr(instr, k) = a
                     THEN MainRegs[Words(instr)[CHOOSE k \in 1 .. Len(Words(instr)) :
                                                    WordAddr(instr, k) = a]]
                     ELSE MainMem[a]
      <4>1. CASE \E k \in 1 .. Len(Words(instr)) : WordAddr(instr, k) = a
        <5> DEFINE j == CHOOSE k \in 1 .. Len(Words(instr)) : WordAddr(instr, k) = a
        <5>1. j \in 1 .. Len(Words(instr)) /\ WordAddr(instr, j) = a
          BY <4>1
        <5> HIDE DEF j
        <5>2. mem'[a] = cpu.regs[Words(instr)[j]] /\ Words(instr)[j] \in MainReg
          BY <1>5, <2>4, <2>6, <5>1
        <5>3. cpu.regs[Words(instr)[j]] \in Int /\ NoPage \notin Int
          BY <1>3, <5>1, WordFacts, SimulatorAssumption DEF Cpu
        <5>4. MainContents(mem', a) = MainRegs[Words(instr)[j]]
          BY <5>2, <5>3 DEF MainContents, MainRegs
        <5> QED
          BY <4>1, <5>4 DEF j
      <4>2. CASE ~\E k \in 1 .. Len(Words(instr)) : WordAddr(instr, k) = a
        BY <1>13, <2>4, <4>2
      <4> QED
        BY <4>1, <4>2
    <3>2. MainPc = cpu.pc /\ MainPc' = cpu.pc + instr.len
      BY <1>13, <2>2, <2>6
    <3>3. MainMem' = [a \in MainAddr |->
                        IF \E k \in 1 .. Len(Words(instr)) : WordAddr(instr, k) = a
                        THEN MainRegs[Words(instr)[CHOOSE k \in 1 .. Len(Words(instr)) :
                                                       WordAddr(instr, k) = a]]
                        ELSE MainMem[a]]
      BY <2>3, <3>1
    <3>4. Main!Store
      BY <1>1, <1>2, <1>3, <1>11, <3>2, <3>3, SameWords
      DEF Main!Store, Main!At, Main!Instruction, Main!WordNumbers, Main!WordOf
    <3> QED
      BY <1>12, <3>4 DEF Main!Next
  <2> QED
    BY <2>5, <2>6
<1> QED
  BY <1>1, <1>4, <1>14, <1>15

\* A load shows a word to the walk first; nothing has happened yet.
LEMMA LoadTransparent ==
    ASSUME TransparentInv, ExecLoad
    PROVE  MainInv' /\ MainStutters
<1>0. AtWord(LoadOps) /\ TypeAndControl
  BY DEF ExecLoad, TransparentInv
<1>1. /\ acc.word \in Nat /\ NextWord = acc.word + 1 /\ NextAddr \in Addr
      /\ phase \in {"exec", "words"} /\ (phase = "exec" => acc.word = 0)
      /\ instr.op \in LoadOps
      /\ UNCHANGED <<code, cpu, mem, instr, resume, before>>
  BY <1>0, NextWordFacts DEF AtWord, ExecLoad
<1>2. /\ cpu.pc \in DOMAIN code /\ instr = code[cpu.pc]
  BY <1>1, RulesInHand
<1>3. Observing' /\ phase' \in {"memscan", "end"}
  BY ExecuteFrame DEF Execute, ExecLoad
<1>4. phase' = "memscan" => /\ acc'.type = "MEMORY_READ" /\ acc'.addr = NextAddr
                            /\ acc'.word = NextWord
                            /\ acc'.init => acc'.val = Contents(NextAddr)
  <2> DEFINE w == Contents(NextAddr)
  <2> SUFFICES ASSUME phase' = "memscan"
               PROVE  /\ acc'.type = "MEMORY_READ" /\ acc'.addr = NextAddr
                      /\ acc'.word = NextWord
                      /\ acc'.init => acc'.val = w
    OBVIOUS
  <2>1. PICK val \in IF w = Undef THEN Garbage ELSE {w} :
                acc' = [type |-> "MEMORY_READ", addr |-> NextAddr, val |-> val,
                        init |-> w # Undef, word |-> NextWord]
    BY DEF ExecLoad
  <2> HIDE DEF w
  <2>2. acc'.type = "MEMORY_READ" /\ acc'.addr = NextAddr /\ acc'.word = NextWord
        /\ acc'.val = val /\ acc'.init = (w # Undef)
    BY <2>1
  <2> QED
    BY <2>1, <2>2
<1>5. NextAddr \in MainAddr => Contents(NextAddr) = mem[NextAddr]
  BY TransparentAssumption, SimulatorAssumption DEF Contents, ReadableDevice, DeviceRegs, TimerRegs
<1>6. InHand'
  BY <1>1, <1>2, <1>3, <1>4, <1>5 DEF InHand
<1>7. ~Storing /\ ~Storing'
  BY <1>0, <1>1, <1>3, <1>4 DEF Storing, TypeAndControl, ControlOK, LoadOps, StoreOps
<1>8. instr.op = "lmw" => \A k \in 1 .. acc.word : cpu.regs[instr.list[k]] = mem[WordAddr(instr, k)]
  BY <1>1 DEF TransparentInv, MainInv, WordsDone
<1>9. WordsDone'
  <2>1. CASE phase' = "memscan"
    <3>1. acc'.word - 1 = acc.word
      BY <1>1, <1>4, <2>1
    <3> QED
      BY <1>1, <1>7, <1>8, <2>1, <3>1 DEF WordsDone
  <2>2. CASE phase' = "end"
    BY <2>2, HandEmpty
  <2> QED
    BY <1>3, <2>1, <2>2
<1> QED
  BY <1>1, <1>3, <1>6, <1>7, <1>9, MachineSame, MachineInvSame DEF MainInv

LEMMA FinishStoreTransparent ==
    ASSUME TransparentInv, FinishStore
    PROVE  MainInv' /\ MainStutters
<1>1. /\ phase = "memscan" /\ acc.type = "MEMORY_WRITE"
      /\ UNCHANGED <<code, mem, resume, acc, instr, before>>
  BY DEF FinishStore, WalkedAccess, scan
<1>2. /\ instr \in Instr /\ cpu \in Cpu /\ instr.op \in StoreOps
      /\ cpu.pc \in DOMAIN code /\ instr = code[cpu.pc]
      /\ resume = None => MainInstr(instr, cpu.pc)
      /\ resume # None => HandlerInstr(instr, cpu.pc)
  BY <1>1, RulesInHand DEF TransparentInv, TypeAndControl, ControlOK
<1>3. Observing'
  BY ExecuteFrame DEF Execute
<1>4. CASE WordsLeft
  <2>1. phase' = "words" /\ cpu' = cpu
    BY <1>4 DEF FinishStore
  <2>2. InHand' /\ WordsDone'
    BY <1>1, <1>2, <2>1 DEF TransparentInv, MainInv, InHand, WordsDone, Storing, MainContents,
                            StoreOps
  <2>3. HalfStored /\ ~Stored /\ HalfStored' /\ ~Stored'
    BY <1>1, <1>4, <2>1 DEF HalfStored, Stored, Storing, WordsLeft
  <2>4. MainPc' = MainPc /\ MainRegs' = MainRegs
    BY <1>1, <2>1, <2>3 DEF MainPc, MainRegs
  <2>5. MainMem' = MainMem
    BY <1>1, <2>3 DEF MainMem, MainContents
  <2> QED
    BY <1>1, <1>3, <2>1, <2>2, <2>4, <2>5, MachineInvSame DEF MainInv, MainStutters
<1>5. CASE ~WordsLeft
  <2>1. phase' = "end" /\ cpu' = Completed(instr, cpu)
    BY <1>5 DEF FinishStore
  <2>2. instr.op \in Multiple => instr.move = 0
    BY <1>2 DEF MainInstr, HandlerInstr, Multiple
  <2>3. cpu'.regs = cpu.regs /\ cpu'.sr = cpu.sr /\ cpu'.pc = cpu.pc + instr.len
    BY <1>2, <2>1, <2>2, CompletedFields
  <2>4. /\ resume = None => cpu.pc + instr.len \notin Handler
        /\ resume # None => cpu.pc + instr.len \in Handler
    BY <1>2 DEF MainInstr, HandlerInstr, FallsThrough, StoreOps
  <2>5. InHand' /\ WordsDone' /\ ~Storing'
    BY <2>1, HandEmpty
  <2>6. Placed' /\ Separate' /\ ReturnAddress'
    BY <1>1, <2>3, <2>4 DEF TransparentInv, MainInv, Placed, Separate, ReturnAddress, Gie
  <2>7. Stored /\ ~HalfStored
    BY <1>1, <1>5 DEF Stored, HalfStored, Storing
  <2>8. MainPc' = MainPc /\ MainRegs' = MainRegs
    BY <1>1, <2>3, <2>5, <2>7, NotStoringNext DEF MainPc, MainRegs
  <2>9. MainMem' = MainMem
    BY <1>1, <2>5, <2>7, NotStoringNext DEF MainMem
  <2> QED
    BY <1>1, <1>3, <2>5, <2>6, <2>8, <2>9 DEF MainInv, MainStutters
<1> QED
  BY <1>4, <1>5

\* A word goes to its register: a part of the instruction, or its end.
LEMMA FinishLoadTransparent ==
    ASSUME TransparentInv, FinishLoad
    PROVE  MainInv' /\ (Main!Next \/ MainStutters)
<1> DEFINE reg == Words(instr)[acc.word]
           n == Len(Words(instr))
           c == LoadedWord(instr, cpu, acc.word, acc.val)
<1>1. /\ phase = "memscan" /\ acc.type = "MEMORY_READ"
      /\ UNCHANGED <<code, mem, resume, acc, instr, before>>
  BY DEF FinishLoad, WalkedAccess, scan
<1>2. /\ WellFormed(instr) /\ instr \in Instr /\ cpu \in Cpu
      /\ cpu.pc \in DOMAIN code /\ instr = code[cpu.pc]
      /\ resume = None => MainInstr(instr, cpu.pc)
      /\ resume # None => HandlerInstr(instr, cpu.pc)
  BY <1>1, RulesInHand
<1>3. /\ instr.op \in LoadOps /\ acc.word \in 1 .. n /\ acc.addr = WordAddr(instr, acc.word)
      /\ acc.val \in Int
  BY <1>1 DEF TransparentInv, TypeAndControl, ControlOK, TypeOK, Access
<1>4. /\ n \in Nat \ {0} /\ reg \in Reg
      /\ \A j, k \in 1 .. n : Words(instr)[j] = Words(instr)[k] => j = k
  BY <1>2, <1>3, WordFacts
<1>5. Observing'
  BY ExecuteFrame DEF Execute
<1>6. ~Storing /\ ~Storing'
  BY <1>1 DEF Storing
<1>7. MainMem' = MainMem
  BY <1>1, <1>6, NotStoring, NotStoringNext
<1>8. /\ c.regs = [cpu.regs EXCEPT ![reg] = acc.val] /\ c.sr = cpu.sr /\ c.pc = cpu.pc
      /\ c \in Cpu
  BY <1>2, <1>3, <1>4, LoadedWordType DEF LoadedWord, Cpu
<1>9. DOMAIN cpu.regs = Reg /\ MainReg \subseteq Reg
  BY <1>2, TransparentAssumption DEF Cpu
<1>10. \A r \in Reg : c.regs[r] = IF r = reg THEN acc.val ELSE cpu.regs[r]
  BY <1>4, <1>8, <1>9
<1>11. /\ resume = None =>
             /\ \A k \in 1 .. n : Words(instr)[k] \in MainReg /\ WordAddr(instr, k) \in MainAddr
             /\ cpu.pc + instr.len \notin Handler
       /\ resume # None => n = 1 /\ reg \notin MainReg /\ cpu.pc + instr.len \in Handler
       /\ instr.op \in Multiple => instr.move = 0
  <2>1. CASE resume # None
    <3>1. /\ instr.op = "lwi" /\ instr.r \notin MainReg /\ cpu.pc + instr.len \in Handler
          /\ instr.op \notin Multiple
      BY <1>2, <1>3, <2>1 DEF HandlerInstr, LoadOps, Multiple, FallsThrough
    <3>2. n = 1 /\ Words(instr)[1] = instr.r
      BY <1>2, <3>1, OneWord
    <3> QED
      BY <1>3, <2>1, <3>1, <3>2
  <2>2. CASE resume = None
    <3>1. /\ \A k \in 1 .. n : WordAddr(instr, k) \in MainAddr
          /\ cpu.pc + instr.len \notin Handler
          /\ instr.op \in Multiple => instr.move = 0
      BY <1>2, <1>3, <2>2 DEF MainInstr, FallsThrough, LoadOps
    <3>2. \A k \in 1 .. n : Words(instr)[k] \in MainReg
      <4>1. CASE instr.op \in Multiple
        BY <1>2, <2>2, <4>1 DEF MainInstr, Words
      <4>2. CASE instr.op \notin Multiple
        BY <1>2, <2>2, <4>2, OneWord DEF MainInstr
      <4> QED
        BY <4>1, <4>2
    <3> QED
      BY <2>2, <3>1, <3>2
  <2> QED
    BY <2>1, <2>2
<1>12. acc.init /\ acc.addr \in MainAddr => acc.val = mem[acc.addr]
  BY <1>1 DEF TransparentInv, MainInv, InHand
<1>13. \A k \in 1 .. acc.word - 1 : cpu.regs[Words(instr)[k]] = mem[WordAddr(instr, k)]
  <2>1. CASE instr.op = "lmw"
    <3>1. Words(instr) = instr.list
      BY <2>1 DEF Words, Multiple
    <3>2. \A k \in 1 .. acc.word - 1 : cpu.regs[instr.list[k]] = mem[WordAddr(instr, k)]
      BY <1>1, <2>1 DEF TransparentInv, MainInv, WordsDone
    <3> QED
      BY <3>1, <3>2
  <2>2. CASE instr.op # "lmw"
    <3>1. instr.op = "lwi"
      BY <1>3, <2>2 DEF LoadOps
    <3>2. instr.op \notin Multiple
      BY <3>1 DEF Multiple
    <3>3. n = 1
      BY <1>2, <3>2, OneWord
    <3>4. acc.word = 1
      BY <1>3, <3>3
    <3> QED
      BY <3>4
  <2> QED
    BY <2>1, <2>2
<1>14. CASE cpu' = cpu /\ phase' = "end"
  BY <1>1, <1>5, <1>6, <1>14, HandEmpty, MachineSame, MachineInvSame DEF MainInv
<1>15. MainPc = IF resume # None THEN resume ELSE cpu.pc
  BY <1>6, NotStoring
<1>16. MainPc' = IF resume # None THEN resume ELSE cpu'.pc
  BY <1>1, <1>6, NotStoringNext
<1>17. ASSUME resume = None, acc.init
       PROVE  /\ acc.val = mem[acc.addr] /\ acc.val \notin Handler
              /\ \A k \in 1 .. acc.word : c.regs[Words(instr)[k]] = mem[WordAddr(instr, k)]
              /\ \A k \in 1 .. acc.word : /\ WordAddr(instr, k) \in MainAddr
                                          /\ MainMem[WordAddr(instr, k)] = mem[WordAddr(instr, k)]
                                          /\ MainMem[WordAddr(instr, k)] # Undef
  <2>1. WordAddr(instr, acc.word) \in MainAddr /\ acc.val = mem[acc.addr]
    BY <1>3, <1>11, <1>12, <1>17
  <2>2. acc.val \notin Handler
    BY <1>3, <2>1 DEF TransparentInv, MainInv, Separate
  <2>3. ASSUME NEW k \in 1 .. acc.word
        PROVE  c.regs[Words(instr)[k]] = mem[WordAddr(instr, k)]
    <3>1. k \in 1 .. n /\ Words(instr)[k] \in Reg
      BY <1>2, <1>3, <1>4, WordFacts
    <3>2. CASE k = acc.word
      BY <1>3, <1>4, <1>10, <2>1, <3>2
    <3>3. CASE k # acc.word
      <4>1. k \in 1 .. acc.word - 1 /\ Words(instr)[k] # reg
        BY <1>3, <1>4, <3>1, <3>3
      <4> QED
        BY <1>10, <1>13, <3>1, <4>1
    <3> QED
      BY <3>2, <3>3
  <2>4. ASSUME NEW k \in 1 .. acc.word
        PROVE  /\ WordAddr(instr, k) \in MainAddr
               /\ MainMem[WordAddr(instr, k)] = mem[WordAddr(instr, k)]
               /\ MainMem[WordAddr(instr, k)] # Undef
    <3>1. k \in 1 .. n /\ Words(instr)[k] \in Reg /\ WordAddr(instr, k) \in MainAddr
      BY <1>2, <1>3, <1>4, <1>11, <1>17, WordFacts
    <3>2. mem[WordAddr(instr, k)] \in Int
      BY <1>8, <2>3, <3>1 DEF Cpu
    <3> QED
      BY <1>6, <3>1, <3>2, NotStoring, SimulatorAssumption DEF MainContents
  <2> QED
    BY <2>1, <2>2, <2>3, <2>4
<1>18. CASE acc.init /\ WordsLeft /\ cpu' = c /\ phase' = "words"
  <2>0. acc.word < n
    BY <1>18 DEF WordsLeft
  <2>1. acc.word < n /\ resume = None
    <3>1. n # 1
      BY <1>3, <1>4, <2>0
    <3> QED
      BY <1>11, <2>0, <3>1
  <2>2. /\ acc.val = mem[acc.addr] /\ acc.val \notin Handler
        /\ \A k \in 1 .. acc.word : c.regs[Words(instr)[k]] = mem[WordAddr(instr, k)]
        /\ \A k \in 1 .. acc.word : /\ WordAddr(instr, k) \in MainAddr
                                    /\ MainMem[WordAddr(instr, k)] = mem[WordAddr(instr, k)]
                                    /\ MainMem[WordAddr(instr, k)] # Undef
    BY <1>17, <1>18, <2>1
  <2>3. reg \in MainReg /\ acc.word \in 1 .. acc.word
    BY <1>3, <1>4, <1>11, <2>1
  <2>4. MainRegs' = [MainRegs EXCEPT ![reg] = acc.val]
    BY <1>9, <1>10, <1>18 DEF MainRegs
  <2>5. instr.op = "lmw" /\ Words(instr) = instr.list
    <3>1. instr.op = "lwi" => n = 1
      BY <1>2, OneWord DEF Multiple
    <3>2. instr.op = "lmw"
      <4>1. n # 1
        BY <1>3, <1>4, <2>0
      <4> QED
        BY <1>3, <3>1, <4>1 DEF LoadOps
    <3> QED
      BY <3>2 DEF Words, Multiple
  <2>6. Main!LoadPart
    <3>1. MainPc = cpu.pc /\ MainPc' = MainPc
      BY <1>8, <1>15, <1>16, <1>18, <2>1
    <3>2. MainRegs' = [MainRegs EXCEPT ![Words(instr)[acc.word]] = MainMem[WordAddr(instr, acc.word)]]
      BY <1>3, <2>2, <2>3, <2>4
    <3> QED
      BY <1>1, <1>2, <1>3, <1>7, <2>2, <2>3, <2>5, <3>1, <3>2, SameWords
      DEF Main!LoadPart, Main!At, Main!Instruction, Main!WordNumbers, Main!Readable
  <2>7. Separate'
    BY <1>1, <1>9, <1>10, <1>18, <2>2 DEF TransparentInv, MainInv, Separate
  <2>8. Placed' /\ ReturnAddress'
    BY <1>1, <1>8, <1>18 DEF TransparentInv, MainInv, Placed, ReturnAddress, Gie
  <2>9. InHand'
    BY <1>1, <1>2, <1>8, <1>18 DEF InHand
  <2>10. WordsDone'
    BY <1>1, <1>6, <1>18, <2>2, <2>5 DEF WordsDone
  <2> QED
    BY <1>5, <2>6, <2>7, <2>8, <2>9, <2>10 DEF MainInv, Main!Next
<1>19. CASE acc.init /\ ~WordsLeft /\ cpu' = Completed(instr, c) /\ phase' = "end"
  <2>1. acc.word = n
    BY <1>3, <1>4, <1>19 DEF WordsLeft
  <2>2. cpu'.regs = c.regs /\ cpu'.sr = cpu.sr /\ cpu'.pc = cpu.pc + instr.len
    BY <1>2, <1>8, <1>11, <1>19, CompletedFields
  <2>3. InHand' /\ WordsDone'
    BY <1>19, HandEmpty
  <2>4. Placed' /\ ReturnAddress'
    BY <1>1, <1>11, <2>2 DEF TransparentInv, MainInv, Placed, ReturnAddress, Gie
  <2>5. CASE resume = None
    <3>1. /\ acc.val \notin Handler
          /\ \A k \in 1 .. n : c.regs[Words(instr)[k]] = mem[WordAddr(instr, k)]
          /\ \A k \in 1 .. n : /\ WordAddr(instr, k) \in MainAddr
                               /\ MainMem[WordAddr(instr, k)] = mem[WordAddr(instr, k)]
                               /\ MainMem[WordAddr(instr, k)] # Undef
      BY <1>17, <1>19, <2>1, <2>5
    <3>2. Separate'
      BY <1>1, <1>9, <1>10, <2>2, <3>1 DEF TransparentInv, MainInv, Separate
    <3>3. MainPc = cpu.pc /\ MainPc' = cpu.pc + instr.len
      BY <1>15, <1>16, <2>2, <2>5
    <3>4. ASSUME NEW r \in MainReg
          PROVE  cpu'.regs[r] =
                     IF \E k \in 1 .. n : Words(instr)[k] = r
                     THEN MainMem[WordAddr(instr, CHOOSE k \in 1 .. n : Words(instr)[k] = r)]
                     ELSE MainRegs[r]
      <4>1. CASE \E k \in 1 .. n : Words(instr)[k] = r
        <5> DEFINE j == CHOOSE k \in 1 .. n : Words(instr)[k] = r
        <5>1. j \in 1 .. n /\ Words(instr)[j] = r
          BY <4>1
        <5> HIDE DEF j
        <5>2. cpu'.regs[r] = MainMem[WordAddr(instr, j)]
          BY <2>2, <3>1, <5>1
        <5> QED
          BY <4>1, <5>2 DEF j
      <4>2. CASE ~\E k \in 1 .. n : Words(instr)[k] = r
        <5>1. r # reg
          BY <1>3, <4>2
        <5> QED
          BY <1>9, <1>10, <2>2, <4>2, <5>1 DEF MainRegs
      <4> QED
        BY <4>1, <4>2
    <3>5. MainRegs' = [r \in MainReg |->
                         IF \E k \in 1 .. n : Words(instr)[k] = r
                         THEN MainMem[WordAddr(instr, CHOOSE k \in 1 .. n : Words(instr)[k] = r)]
                         ELSE MainRegs[r]]
      BY <3>4 DEF MainRegs
    <3>6. Main!Load
      BY <1>1, <1>2, <1>3, <1>7, <3>1, <3>3, <3>5, SameWords
      DEF Main!Load, Main!At, Main!Instruction, Main!WordNumbers, Main!Readable, Main!WordFor
    <3> QED
      BY <1>5, <2>3, <2>4, <3>2, <3>6 DEF MainInv, Main!Next
  <2>6. CASE resume # None
    <3>1. \A r \in MainReg : cpu'.regs[r] = cpu.regs[r]
      BY <1>9, <1>10, <1>11, <2>2, <2>6
    <3>2. Separate'
      BY <1>1, <3>1 DEF TransparentInv, MainInv, Separate
    <3>3. MainRegs' = MainRegs
      BY <3>1 DEF MainRegs
    <3>4. MainPc' = MainPc
      BY <1>15, <1>16, <2>6
    <3> QED
      BY <1>1, <1>5, <1>7, <2>3, <2>4, <3>2, <3>3, <3>4 DEF MainInv, MainStutters
  <2> QED
    BY <2>5, <2>6
<1> QED
  BY <1>14, <1>18, <1>19 DEF FinishLoad

----------------------------------------------------------------------------
LEMMA TransparentInit == Init => TransparentInv /\ Main!Init
<1> SUFFICES ASSUME Init
             PROVE  MainInv /\ Main!Init
  BY TypeInit DEF TransparentInv
<1>1. PICK s \in Sessions : code = s.code /\ bp = s.bp
  BY DEF Init
<1>2. /\ resume = None /\ cpu = CpuReset /\ mem = [a \in Addr |-> NoPage]
      /\ mode = "prompt" /\ phase = "idle"
  BY DEF Init
<1>3. /\ MainReg \subseteq Reg /\ MainAddr \subseteq Addr /\ 0 \notin Handler
      /\ Handler \subseteq Int /\ NoPage \notin Int
  BY TransparentAssumption, SimulatorAssumption
<1>4. cpu.pc = 0 /\ cpu.regs = [r \in Reg |-> 0]
  BY <1>2 DEF CpuReset
<1>5. Observing
  BY <1>1, <1>2, TransparentAssumption DEF Observing
<1>6. Placed /\ Separate /\ InHand /\ WordsDone /\ ReturnAddress /\ ~Storing
  BY <1>2, <1>3, <1>4 DEF Placed, Separate, InHand, WordsDone, Storing, ReturnAddress
<1>7. MainPc = 0 /\ MainRegs = [r \in MainReg |-> 0] /\ MainMem = [a \in MainAddr |-> Undef]
  BY <1>2, <1>3, <1>4, <1>6 DEF MainPc, MainRegs, MainMem, MainContents, Stored, HalfStored
<1>8. Main!Init
  BY <1>1, <1>7 DEF Main!Init, Images
<1> QED
  BY <1>5, <1>6, <1>8 DEF MainInv

LEMMA TransparentStep ==
    ASSUME TransparentInv, [Next]_vars
    PROVE  TransparentInv' /\ (Main!Next \/ MainStutters)
<1>1. TypeAndControl'
  BY TypeNext DEF TransparentInv
<1>2. MainInv' /\ (Main!Next \/ MainStutters)
  BY NeverTaken, LooksOnly, FetchTransparent, RegisterTransparent, StoreTransparent,
     LoadTransparent, FinishStoreTransparent, FinishLoadTransparent
  DEF Next, Simulate, Scan, Execute
<1> QED
  BY <1>1, <1>2 DEF TransparentInv

(***************************************************************************)
(* Interrupts do not nest and IPC keeps the suspended PC until iret.       *)
(***************************************************************************)
THEOREM ReturnsWhereSuspended == Spec => []ReturnAddress
<1>1. TransparentInv => ReturnAddress
  BY DEF TransparentInv, MainInv
<1>2. Init => TransparentInv
  BY TransparentInit
<1>3. TransparentInv /\ [Next]_vars => TransparentInv'
  BY TransparentStep
<1> QED
  BY <1>1, <1>2, <1>3, PTL DEF Spec

(***************************************************************************)
(* The simulator under a debugging session and timer interrupts implements *)
(* the program without them: every step of the session is one instruction  *)
(* of the main program or none.                                            *)
(***************************************************************************)
THEOREM SimulatorImplementsProgram == Spec => DebuggingIsTransparent
<1>1. Init => TransparentInv
  BY TransparentInit
<1>2. Init => Main!Init
  BY TransparentInit
<1>3. TransparentInv /\ [Next]_vars => TransparentInv'
  BY TransparentStep
<1>4. TransparentInv /\ [Next]_vars => [Main!Next]_(Main!mvars)
  BY TransparentStep DEF MainStutters, Main!mvars
<1> QED
  BY <1>1, <1>2, <1>3, <1>4, PTL DEF Spec, DebuggingIsTransparent, Main!Spec
=============================================================================
