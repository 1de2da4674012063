-------------------------- MODULE SimulatorProofs --------------------------
(***************************************************************************)
(* Type correctness and the breakpoint properties of SimProps, for every   *)
(* firmware image, breakpoint table, set of scripts and word size.         *)
(***************************************************************************)
EXTENDS SimProps, TLAPS

----------------------------------------------------------------------------
(* The operators Simulator is built from: the timer, the instructions and  *)
(* the breakpoint table keep to their types, and the table keeps its bound *)
(* and holds no breakpoint twice.                                          *)

\* Reduction modulo a word size stays within a word.
LEMMA ModIsWord ==
    ASSUME NEW v \in Int
    PROVE  v % WordSize \in TimerWord
BY TimerAssumption, SMT DEF TimerWord

LEMMA TimerResetType == TimerReset \in TimerState
BY TimerAssumption DEF TimerReset, TimerState, TimerWord

LEMMA TimerTickType ==
    ASSUME NEW t \in TimerState
    PROVE  TimerTick(t) \in TimerState
<1>1. t.cnt - 1 \in Int /\ Decremented(t) \in TimerWord
  BY ModIsWord, TimerAssumption DEF TimerState, TimerWord, Decremented
<1>2. PrescalerReload \in 1 .. PrescalerReload
  BY TimerAssumption
<1>3. t.prescaler > 1 => t.prescaler - 1 \in 1 .. PrescalerReload
  BY TimerAssumption DEF TimerState
<1> QED
  BY <1>1, <1>2, <1>3 DEF TimerTick, TimerState

LEMMA TimerWriteType ==
    ASSUME NEW t \in TimerState, NEW reg, NEW v \in TimerWord
    PROVE  TimerWrite(t, reg, v) \in TimerState
BY DEF TimerWrite, TimerState, EnableBit

LEMMA TimerClearIrqType ==
    ASSUME NEW t \in TimerState
    PROVE  TimerClearIrq(t) \in TimerState
BY DEF TimerClearIrq, TimerState

----------------------------------------------------------------------------
LEMMA SetGieType ==
    ASSUME NEW sr \in [SpecialReg -> Int], NEW en \in BOOLEAN
    PROVE  SetGie(sr, en) \in [SpecialReg -> Int]
<1>1. sr["PSW"] \in Int /\ (sr["PSW"] - (sr["PSW"] % 2)) + (IF en THEN 1 ELSE 0) \in Int
  BY DEF SpecialReg
<1> QED
  BY <1>1 DEF SetGie

LEMMA TakeInterruptType ==
    ASSUME NEW c \in Cpu, Vector \in Int
    PROVE  TakeInterrupt(c, Vector) \in Cpu
<1> DEFINE sr == [c.sr EXCEPT !["INT_PEND"] = 2, !["IPSW"] = c.sr["PSW"], !["IPC"] = c.pc]
<1>1. sr \in [SpecialReg -> Int]
  BY DEF Cpu, SpecialReg
<1>2. SetGie(sr, FALSE) \in [SpecialReg -> Int]
  BY <1>1, SetGieType
<1>3. TakeInterrupt(c, Vector) = [c EXCEPT !.pc = Vector, !.sr = SetGie(sr, FALSE)]
  BY DEF TakeInterrupt, Cpu
<1> QED
  BY <1>2, <1>3 DEF Cpu

LEMMA AdvanceType ==
    ASSUME NEW c \in Cpu, NEW i \in Instr
    PROVE  /\ Advance(c, i) \in Cpu
           /\ Advance(c, i).regs = c.regs /\ Advance(c, i).sr = c.sr
<1>1. c.pc + i.len \in Int
  BY DEF Cpu, Instr
<1> QED
  BY <1>1 DEF Advance, Cpu

LEMMA RegWriteType ==
    ASSUME NEW c \in Cpu, NEW r \in Reg, NEW v \in Int
    PROVE  [c EXCEPT !.regs[r] = v] \in Cpu
BY DEF Cpu

\* The words of a load or store are registers, and so are their addresses numbers.
LEMMA WordsType ==
    ASSUME NEW i \in Instr
    PROVE  /\ Words(i) \in Seq(Reg) /\ Len(Words(i)) \in Nat
           /\ \A k \in 1 .. Len(Words(i)) : Words(i)[k] \in Reg
           /\ \A k \in Int : WordAddr(i, k) \in Int
<1>1. i.r \in Reg /\ i.list \in Seq(Reg) /\ i.imm \in Int
  BY DEF Instr
<1>2. Words(i) \in Seq(Reg)
  BY <1>1 DEF Words
<1> HIDE DEF Words
<1> QED
  BY <1>1, <1>2 DEF WordAddr

LEMMA LoadedWordType ==
    ASSUME NEW c \in Cpu, NEW i \in Instr, NEW k \in 1 .. Len(Words(i)), NEW v \in Int
    PROVE  LoadedWord(i, c, k, v) \in Cpu
<1>1. Words(i)[k] \in Reg
  BY WordsType
<1> QED
  BY <1>1, RegWriteType DEF LoadedWord

LEMMA CompletedType ==
    ASSUME NEW c \in Cpu, NEW i \in Instr
    PROVE  Completed(i, c) \in Cpu
<1>1. i.s \in Reg /\ c.regs[i.s] + i.move \in Int
  BY DEF Instr, Cpu
<1>2. [c EXCEPT !.regs[i.s] = @ + i.move] = [c EXCEPT !.regs[i.s] = c.regs[i.s] + i.move]
  BY DEF Cpu
<1>3. Moved(i, c) \in Cpu
  BY <1>1, <1>2, RegWriteType DEF Moved
<1> QED
  BY <1>3, AdvanceType DEF Completed

\* Every instruction without a memory access leaves a well-formed processor.
LEMMA ExecutedType ==
    ASSUME NEW c \in Cpu, NEW i \in Instr
    PROVE  Executed(i, c) \in Cpu
<1>1. i.r \in Reg /\ i.s \in Reg /\ i.imm \in Int /\ i.sr \in SpecialReg /\ LP \in Reg
      /\ i.op \in Ops /\ i.len \in Int
  BY IsaAssumption DEF Instr
<1>2. c.pc \in Int /\ c.regs \in [Reg -> Int] /\ c.sr \in [SpecialReg -> Int]
  BY DEF Cpu
<1>3. c.pc + i.imm \in Int /\ c.pc + 4 \in Int /\ c.pc + i.len \in Int
      /\ c.regs[i.s] \in Int /\ c.sr[i.sr] \in Int /\ c.sr["IPC"] \in Int
  BY <1>1, <1>2 DEF SpecialReg
<1>4. \A pc \in Int : [c EXCEPT !.pc = pc] \in Cpu
  BY DEF Cpu
<1>5. CASE i.op = "set"
  BY <1>1, <1>5, RegWriteType, AdvanceType DEF Executed, SetRegister
<1>6. CASE i.op = "beqz"
  BY <1>3, <1>4, <1>6, AdvanceType DEF Executed, Branch
<1>7. CASE i.op = "j"
  BY <1>3, <1>4, <1>7 DEF Executed, Jump
<1>8. CASE i.op = "jal"
  <2> DEFINE d == [c EXCEPT !.pc = c.pc + i.imm]
  <2>1. Executed(i, c) = [d EXCEPT !.regs[LP] = c.pc + 4]
    BY <1>8 DEF Executed, Jump, Cpu
  <2>2. d \in Cpu
    BY <1>3, <1>4
  <2> HIDE DEF d
  <2> QED
    BY <1>1, <1>3, <2>1, <2>2, RegWriteType
<1>9. CASE i.op \in {"jr", "ret"}
  BY <1>3, <1>4, <1>9 DEF Executed, JumpRegister
<1>10. CASE i.op = "jral"
  <2> DEFINE d == [c EXCEPT !.pc = c.regs[i.s]]
  <2>1. Executed(i, c) = [d EXCEPT !.regs[i.r] = c.pc + i.len]
    BY <1>10 DEF Executed, JumpRegister, Cpu
  <2>2. d \in Cpu
    BY <1>3, <1>4
  <2> HIDE DEF d
  <2> QED
    BY <1>1, <1>3, <2>1, <2>2, RegWriteType
<1>11. CASE i.op = "mfsr"
  BY <1>1, <1>3, <1>11, RegWriteType, AdvanceType DEF Executed, Special
<1>12. CASE i.op = "mtsr"
  <2>1. [c EXCEPT !.sr[i.sr] = c.regs[i.s]] \in Cpu
    BY <1>1, <1>3 DEF Cpu
  <2> QED
    BY <1>12, <2>1, AdvanceType DEF Executed, Special
<1>13. CASE i.op = "setgie"
  <2>1. SetGie(c.sr, i.imm # 0) \in [SpecialReg -> Int]
    BY <1>2, SetGieType
  <2>2. [c EXCEPT !.sr = SetGie(@, i.imm # 0)] \in Cpu
    BY <2>1 DEF Cpu
  <2> QED
    BY <1>13, <2>2, AdvanceType DEF Executed, Special
<1>14. CASE i.op = "iret"
  <2>1. SetGie(c.sr, TRUE) \in [SpecialReg -> Int]
    BY <1>2, SetGieType
  <2> QED
    BY <1>3, <1>14, <2>1 DEF Executed, Special, Cpu
<1>15. CASE i.op \in MemOps \cup {"unimpl"}
  BY <1>15 DEF Executed, MemOps, LoadOps, StoreOps
<1> QED
  BY <1>1, <1>5, <1>6, <1>7, <1>8, <1>9, <1>10, <1>11, <1>12, <1>13, <1>14, <1>15
  DEF Ops, MemOps, LoadOps, StoreOps
----------------------------------------------------------------------------
TableType(table) == table \in Seq(Event) /\ Len(table) <= MaxBp /\ NoDuplicates(table)

LEMMA CompareSymmetric ==
    ASSUME NEW e1 \in Event, NEW e2 \in Event, EventCompare(e1, e2)
    PROVE  EventCompare(e2, e1)
BY DEF EventCompare, MemTypes, RegTypes

LEMMA CompareIgnoresDisabled ==
    ASSUME NEW e1 \in Event, NEW e2 \in Event, NEW b1 \in BOOLEAN, NEW b2 \in BOOLEAN,
           EventCompare([e1 EXCEPT !.disabled = b1], [e2 EXCEPT !.disabled = b2])
    PROVE  EventCompare(e1, e2)
BY DEF EventCompare, Event, EventFields

LEMMA DisabledType ==
    ASSUME NEW ev \in Event, NEW b \in BOOLEAN
    PROVE  [ev EXCEPT !.disabled = b] \in Event
BY DEF Event, EventFields

\* "bp create" adds an entry only where there is room and no equal one.
LEMMA RegisterKeepsTable ==
    ASSUME NEW table, TableType(table), NEW ev \in Event
    PROVE  TableType(RegisterBreakpoint(table, ev))
<1>1. CASE Refused(table, ev)
  BY <1>1 DEF RegisterBreakpoint
<1>2. CASE ~Refused(table, ev)
  <2> DEFINE new == Append(table, ev)
  <2>1. table \in Seq(Event) /\ Len(table) \in Nat /\ Len(table) < MaxBp /\ MaxBp \in Nat
    BY <1>2, BpAssumption DEF TableType, Refused
  <2>2. /\ new \in Seq(Event) /\ Len(new) = Len(table) + 1
        /\ new[Len(table) + 1] = ev
        /\ \A i \in 1 .. Len(table) : new[i] = table[i] /\ table[i] \in Event
    BY <2>1
  <2> HIDE DEF new
  <2>3. \A i \in 1 .. Len(table) : ~EventCompare(table[i], ev) /\ ~EventCompare(ev, table[i])
    BY <1>2, <2>2, CompareSymmetric DEF Refused
  <2>4. ASSUME NEW i \in 1 .. Len(new), NEW j \in 1 .. Len(new), i # j
        PROVE  ~EventCompare(new[i], new[j])
    <3>1. i \in 1 .. Len(table) \/ i = Len(table) + 1
      BY <2>1, <2>2
    <3>2. j \in 1 .. Len(table) \/ j = Len(table) + 1
      BY <2>1, <2>2
    <3> QED
      BY <2>2, <2>3, <2>4, <3>1, <3>2 DEF TableType, NoDuplicates
  <2>5. NoDuplicates(new)
    BY <2>4 DEF NoDuplicates
  <2>6. RegisterBreakpoint(table, ev) = new
    BY <1>2 DEF RegisterBreakpoint, new
  <2> QED
    BY <2>1, <2>2, <2>5, <2>6 DEF TableType
<1> QED
  BY <1>1, <1>2

\* "bp remove" moves the entries behind up and repeats none of them.
LEMMA RemoveKeepsTable ==
    ASSUME NEW table, TableType(table), NEW n \in Int
    PROVE  TableType(RemoveBreakpoint(table, n))
<1>1. CASE ~ValidNumber(table, n)
  BY <1>1 DEF RemoveBreakpoint
<1>2. CASE ValidNumber(table, n)
  <2> DEFINE k == BpNumber(n)
             new == [i \in 1 .. Len(table) - 1 |-> IF i < k THEN table[i] ELSE table[i + 1]]
  <2>1. table \in Seq(Event) /\ Len(table) \in Nat /\ MaxBp \in Nat /\ Len(table) <= MaxBp
    BY BpAssumption DEF TableType
  <2>2. k \in 1 .. Len(table)
    BY <1>2 DEF ValidNumber
  <2> HIDE DEF k
  <2>3. Len(table) - 1 \in Nat
    BY <2>1, <2>2
  <2>4. \A i \in 1 .. Len(table) - 1 : new[i] \in Event
    BY <2>1, <2>2
  <2>5. new \in Seq(Event) /\ Len(new) = Len(table) - 1
    BY <2>3, <2>4
  <2>6. ASSUME NEW i \in 1 .. Len(new), NEW j \in 1 .. Len(new), i # j
        PROVE  ~EventCompare(new[i], new[j])
    <3> DEFINE old(m) == IF m < k THEN m ELSE m + 1
    <3>1. /\ old(i) \in 1 .. Len(table) /\ old(j) \in 1 .. Len(table) /\ old(i) # old(j)
          /\ new[i] = table[old(i)] /\ new[j] = table[old(j)]
      BY <2>1, <2>2, <2>5, <2>6
    <3> HIDE DEF old, new
    <3> QED
      BY <3>1 DEF TableType, NoDuplicates
  <2>7. RemoveBreakpoint(table, n) = new
    BY <1>2 DEF RemoveBreakpoint, k
  <2> HIDE DEF new
  <2>8. NoDuplicates(new)
    BY <2>6 DEF NoDuplicates
  <2> QED
    BY <2>1, <2>3, <2>5, <2>7, <2>8 DEF TableType
<1> QED
  BY <1>1, <1>2

\* Tables that differ in the disabled flags only.
LEMMA FlagsKeepTable ==
    ASSUME NEW table, TableType(table), NEW new, NEW flag \in [1 .. Len(table) -> BOOLEAN],
           new = [i \in 1 .. Len(table) |-> [table[i] EXCEPT !.disabled = flag[i]]]
    PROVE  TableType(new)
<1>1. table \in Seq(Event) /\ Len(table) \in Nat
  BY DEF TableType
<1>2. \A i \in 1 .. Len(table) : table[i] \in Event /\ new[i] \in Event
  BY <1>1, DisabledType
<1>3. new \in Seq(Event) /\ Len(new) = Len(table)
  BY <1>1, <1>2
<1>4. ASSUME NEW i \in 1 .. Len(new), NEW j \in 1 .. Len(new), i # j
      PROVE  ~EventCompare(new[i], new[j])
  <2>1. new[i] = [table[i] EXCEPT !.disabled = flag[i]]
        /\ new[j] = [table[j] EXCEPT !.disabled = flag[j]]
    BY <1>3
  <2>2. ~EventCompare(table[i], table[j])
    BY <1>3, <1>4 DEF TableType, NoDuplicates
  <2>3. table[i] \in Event /\ table[j] \in Event /\ flag[i] \in BOOLEAN /\ flag[j] \in BOOLEAN
    BY <1>2, <1>3
  <2> QED
    BY <2>1, <2>2, <2>3, CompareIgnoresDisabled
<1>5. NoDuplicates(new)
  BY <1>4 DEF NoDuplicates
<1> QED
  BY <1>3, <1>5 DEF TableType

LEMMA SetAllDisabledKeepsTable ==
    ASSUME NEW table, TableType(table), NEW d \in BOOLEAN
    PROVE  TableType(SetAllDisabled(table, d))
<1> DEFINE flag == [i \in 1 .. Len(table) |-> d]
<1>1. flag \in [1 .. Len(table) -> BOOLEAN]
  OBVIOUS
<1>2. SetAllDisabled(table, d) = [i \in 1 .. Len(table) |-> [table[i] EXCEPT !.disabled = flag[i]]]
  BY DEF SetAllDisabled
<1> QED
  BY <1>1, <1>2, FlagsKeepTable

LEMMA SameFlag ==
    ASSUME NEW ev \in Event
    PROVE  ev.disabled \in BOOLEAN /\ [ev EXCEPT !.disabled = ev.disabled] = ev
BY DEF Event, EventFields

LEMMA SetDisabledKeepsTable ==
    ASSUME NEW table, TableType(table), NEW n \in Int, NEW d \in BOOLEAN
    PROVE  TableType(SetDisabled(table, n, d))
<1>1. CASE ~ValidNumber(table, n)
  BY <1>1 DEF SetDisabled
<1>2. CASE ValidNumber(table, n)
  <2> DEFINE k == BpNumber(n)
             flag == [i \in 1 .. Len(table) |-> IF i = k THEN d ELSE table[i].disabled]
             new == [table EXCEPT ![k].disabled = d]
  <2>1. table \in Seq(Event) /\ Len(table) \in Nat
    BY DEF TableType
  <2>2. k \in 1 .. Len(table)
    BY <1>2 DEF ValidNumber
  <2> HIDE DEF k
  <2>3. \A i \in 1 .. Len(table) : table[i] \in Event /\ table[i].disabled \in BOOLEAN
                                   /\ [table[i] EXCEPT !.disabled = table[i].disabled] = table[i]
    BY <2>1, SameFlag
  <2>4. flag \in [1 .. Len(table) -> BOOLEAN]
    BY <2>3
  <2>5. DOMAIN table = 1 .. Len(table)
    BY <2>1
  <2>6. new = [i \in 1 .. Len(table) |-> [table[i] EXCEPT !.disabled = flag[i]]]
    BY <2>1, <2>2, <2>3, <2>5
  <2>7. SetDisabled(table, n, d) = new
    BY <1>2 DEF SetDisabled, k
  <2> QED
    BY <2>4, <2>6, <2>7, FlagsKeepTable
<1> QED
  BY <1>1, <1>2

----------------------------------------------------------------------------
(* Lemmas about the shared operations.                                     *)

LEMMA NoInstrType == NoInstr \in Instr /\ NoAccess \in Access
BY BpAssumption DEF NoInstr, Instr, Ops, SpecialReg, NoAccess, Access, MemTypes

LEMMA IoResetType == IoReset \in IoState
BY DEF IoReset, IoState

LEMMA CpuResetType == CpuReset \in Cpu
BY DEF CpuReset, Cpu

LEMMA CommandType ==
    ASSUME NEW c \in Command
    PROVE  c.n \in Int /\ c.v \in Int /\ c.ev \in Event
BY DEF Command

LEMMA StoreWordType ==
    ASSUME TypeOK, NEW a \in Addr, NEW v \in Int, StoreWord(a, v)
    PROVE  mem' \in Memory /\ tmr' \in TimerState /\ io' \in IoState
<1>1. mem \in Memory /\ tmr \in TimerState /\ io \in IoState
  BY DEF TypeOK
<1>2. CASE Device[a] # NoDevice
  <2>1. v % WordSize \in TimerWord
    BY ModIsWord
  <2>2. DeviceWritten(a, v) \in TimerState
    BY <1>1, <2>1, TimerClearIrqType, TimerWriteType DEF DeviceWritten
  <2>3. [io EXCEPT !.clear = v] \in IoState
    BY <1>1 DEF IoState
  <2> QED
    BY <1>1, <1>2, <2>2, <2>3 DEF StoreWord
<1>3. CASE Device[a] = NoDevice
  BY <1>1, <1>3 DEF StoreWord, Memory, Word
<1> QED
  BY <1>2, <1>3

\* A read returns a number, or one of the two marks of an unwritten word.
LEMMA ContentsType ==
    ASSUME TypeOK, NEW a \in Addr
    PROVE  Contents(a) \in Word
<1>1. io.clear \in Int /\ io.rx \in Seq(Int)
  BY DEF TypeOK, IoState
<1>2. (IF io.rx = <<>> THEN 0 ELSE Head(io.rx)) \in Int
  BY <1>1
<1>3. tmr.mask \in Int
  BY TimerAssumption DEF TypeOK, TimerState, TimerWord
<1>4. DeviceValue(a) \in Int
  BY <1>1, <1>2, <1>3 DEF DeviceValue, IRQ_MASK_TMR1
<1> QED
  BY <1>4 DEF TypeOK, Contents, Memory, Word

LEMMA IoAfterReadType ==
    ASSUME TypeOK, NEW a \in Addr
    PROVE  IoAfterRead(a) \in IoState
<1>1. io \in IoState /\ io.rx \in Seq(Int)
  BY DEF TypeOK, IoState
<1>2. io.rx # <<>> => Tail(io.rx) \in Seq(Int)
  BY <1>1
<1> QED
  BY <1>1, <1>2 DEF IoAfterRead, IoState

LEMMA PerformType ==
    ASSUME TypeOK, NEW c \in Command, Perform(c)
    PROVE  cpu' \in Cpu /\ mem' \in Memory /\ tmr' \in TimerState /\ io' \in IoState
<1>1. cpu \in Cpu /\ mem \in Memory /\ tmr \in TimerState /\ io \in IoState
  BY DEF TypeOK
<1>2. c.n \in Int /\ c.v \in Int
  BY CommandType
<1>3. CASE c.cmd = "reg"
  BY <1>1, <1>2, <1>3, RegWriteType DEF Perform
<1>4. CASE c.cmd = "setpc"
  BY <1>1, <1>2, <1>4 DEF Perform, Cpu
<1>5. CASE c.cmd = "word"
  BY <1>1, <1>2, <1>5, StoreWordType DEF Perform
<1>6. CASE c.cmd \notin {"reg", "setpc", "word"}
  BY <1>1, <1>6 DEF Perform
<1> QED
  BY <1>3, <1>4, <1>5, <1>6

\* A command leaves a table that is still well formed.
LEMMA PerformTable ==
    ASSUME TableType(bp), NEW c \in Command, Perform(c)
    PROVE  TableType(bp')
<1>1. c.n \in Int /\ c.ev \in Event
  BY CommandType
<1>2. CASE bp' = bp
  BY <1>2
<1>3. CASE c.cmd = "create" /\ bp' = RegisterBreakpoint(bp, c.ev)
  BY <1>1, <1>3, RegisterKeepsTable
<1>4. CASE c.cmd = "remove" /\ bp' = RemoveBreakpoint(bp, c.n)
  BY <1>1, <1>4, RemoveKeepsTable
<1>5. CASE c.cmd = "enable" /\ bp' = SetDisabled(bp, c.n, FALSE)
  BY <1>1, <1>5, SetDisabledKeepsTable
<1>6. CASE c.cmd = "disable" /\ bp' = SetDisabled(bp, c.n, TRUE)
  BY <1>1, <1>6, SetDisabledKeepsTable
<1>7. CASE bp' = SetAllDisabled(bp, c.cmd = "disableall")
  BY <1>7, SetAllDisabledKeepsTable
<1> QED
  BY <1>2, <1>3, <1>4, <1>5, <1>6, <1>7 DEF Perform

LEMMA ScriptCommand ==
    ASSUME NEW ev \in Event, ev.action = "SCRIPT"
    PROVE  Scripts[ev.script] \in Command
BY SimulatorAssumption DEF Event

----------------------------------------------------------------------------
(* Type correctness.  ControlOK comes along: the step counter of run_sim   *)
(* is positive while there is a step, and a walk always has its snapshot.  *)

TypeAndControl == TypeOK /\ ControlOK /\ TableOK

LEMMA TableIsType == TypeOK /\ TableOK <=> TypeOK /\ TableType(bp)
BY DEF TypeOK, TableOK, TableType

LEMMA TypeInit == Init => TypeAndControl
<1> SUFFICES ASSUME Init
             PROVE  TypeAndControl
  OBVIOUS
<1>1. cpu \in Cpu /\ tmr \in TimerState /\ instr \in Instr /\ acc \in Access
  BY CpuResetType, TimerResetType, NoInstrType DEF Init
<1>. io \in IoState
  BY IoResetType DEF Init
<1>2. mem \in Memory
  BY DEF Init, Memory, Word
<1>3. code \in Images /\ bp \in Seq(Event)
  BY SimulatorAssumption DEF Init, Images
<1>4. /\ mode \in {"prompt", "run", "single", "crashed"}
      /\ left \in Nat \cup {Forever} /\ idx \in Nat \ {0}
      /\ phase \in {"idle", "fetch", "pcscan", "exec", "memscan", "words", "end"}
      /\ ret \in SimResult /\ resume \in Int \cup {None} /\ before \in Snapshot \cup {None}
  BY DEF Init, SimResult
<1>. sigint \in BOOLEAN /\ stop \in BOOLEAN /\ manip \in BOOLEAN
  BY DEF Init
<1>5. TypeOK
  BY <1>1, <1>2, <1>3, <1>4 DEF TypeOK
<1>6. ControlOK /\ TableOK
  BY SimulatorAssumption DEF Init, ControlOK, InStep, TableOK, NoAccess
<1> QED
  BY <1>5, <1>6 DEF TypeAndControl

LEMMA FetchType ==
    ASSUME TypeAndControl, Fetch
    PROVE  TypeAndControl'
<1>1. /\ cpu \in Cpu /\ mem \in Memory /\ Ticked \in TimerState
      /\ code \in Images /\ instr \in Instr /\ cpu.pc \in Int
  BY TimerTickType DEF TypeAndControl, TypeOK, Ticked, Cpu
<1>2. FetchCpu \in Cpu
  BY <1>1, TakeInterruptType, SimulatorAssumption DEF FetchCpu
<1>3. FetchCpu.pc \in DOMAIN code => code[FetchCpu.pc] \in Instr
  <2>1. PICK s \in Sessions : code = s.code
    BY <1>1 DEF Images
  <2>2. \A a \in DOMAIN s.code : s.code[a] \in Instr
    BY SimulatorAssumption DEF WellFormed
  <2> QED
    BY <2>1, <2>2
<1>4. cpu' \in Cpu /\ tmr' \in TimerState /\ instr' \in Instr /\ before' \in Snapshot
  BY <1>1, <1>2, <1>3 DEF Fetch, Snapshot, TypeAndControl, TypeOK
<1>5. resume' \in Int \cup {None}
  BY <1>1 DEF Fetch, TypeAndControl, TypeOK
<1>6. phase' \in {"exec", "pcscan", "end"} /\ ret' \in SimResult
  BY DEF Fetch, TypeAndControl, TypeOK, SimResult
<1>7. /\ code' \in Images /\ mem' \in Memory /\ io' \in IoState /\ bp' \in Seq(Event)
      /\ mode' \in {"prompt", "run", "single", "crashed"}
      /\ left' \in Nat \cup {Forever} /\ acc' \in Access /\ idx' \in Nat \ {0}
  BY DEF Fetch, TypeAndControl, TypeOK, loop
<1>. sigint' \in BOOLEAN /\ stop' \in BOOLEAN /\ manip' \in BOOLEAN
  BY DEF Fetch, TypeAndControl, TypeOK
<1>10. TypeOK'
  BY <1>4, <1>5, <1>6, <1>7 DEF TypeOK
<1>8. ControlOK'
  BY <1>4 DEF Fetch, TypeAndControl, TypeOK, ControlOK, InStep, loop
<1>9. TableOK'
  BY DEF Fetch, TypeAndControl, TableOK
<1> QED
  BY <1>8, <1>9, <1>10 DEF TypeAndControl

LEMMA ScanScriptType ==
    ASSUME TypeAndControl, ScanScript
    PROVE  TypeAndControl'
<1> DEFINE c == Scripts[bp[idx].script]
<1>1. bp[idx] \in Event
  BY DEF ScanScript, Scanning, TypeAndControl, TypeOK
<1>2. c \in Command /\ Perform(c)
  BY <1>1, ScriptCommand DEF ScanScript
<1> HIDE DEF c
<1>3. cpu' \in Cpu /\ mem' \in Memory /\ tmr' \in TimerState /\ io' \in IoState
  BY <1>2, PerformType DEF TypeAndControl
<1>4. TableType(bp')
  BY <1>2, PerformTable, TableIsType DEF TypeAndControl
<1>5. TypeOK' /\ TableOK'
  BY <1>3, <1>4 DEF ScanScript, TypeAndControl, TypeOK, TableOK, TableType, loop
<1>6. ControlOK'
  BY DEF ScanScript, TypeAndControl, ControlOK, InStep, loop
<1> QED
  BY <1>5, <1>6 DEF TypeAndControl

LEMMA TypeCommandType ==
    ASSUME TypeAndControl, TypeCommand
    PROVE  TypeAndControl'
<1>1. PICK c \in Commands : Perform(c)
  BY DEF TypeCommand
<1>2. c \in Command
  BY SimulatorAssumption
<1>3. cpu' \in Cpu /\ mem' \in Memory /\ tmr' \in TimerState /\ io' \in IoState
  BY <1>1, <1>2, PerformType DEF TypeAndControl
<1>4. TableType(bp')
  BY <1>1, <1>2, PerformTable, TableIsType DEF TypeAndControl
<1>5. TypeOK' /\ TableOK'
  BY <1>3, <1>4 DEF TypeCommand, TypeAndControl, TypeOK, TableOK, TableType, loop, scan
<1>6. ControlOK'
  BY DEF TypeCommand, TypeAndControl, ControlOK, InStep, loop, scan
<1> QED
  BY <1>5, <1>6 DEF TypeAndControl

\* The walk over the table, but for the entries that run a script.
LEMMA ScanType ==
    ASSUME TypeAndControl, ScanPass \/ ScanStop \/ ScanJump \/ ScanJumpNull \/ ScanPcDone
    PROVE  TypeAndControl'
<1>1. TableOK'
  BY DEF TypeAndControl, TableOK, ScanPass, ScanStop, ScanJump, ScanJumpNull, ScanPcDone
<1>2. CASE ScanPass \/ ScanStop \/ ScanJumpNull \/ ScanPcDone
  <2>1. TypeOK'
    <3>1. CASE ScanPass
      BY <3>1 DEF TypeAndControl, TypeOK, ScanPass, loop
    <3>2. CASE ScanStop
      BY <3>2 DEF TypeAndControl, TypeOK, ScanStop, loop
    <3>3. CASE ScanJumpNull
      BY <3>3 DEF TypeAndControl, TypeOK, ScanJumpNull, scan
    <3>4. CASE ScanPcDone
      BY <3>4 DEF TypeAndControl, TypeOK, ScanPcDone, loop, scan, SimResult
    <3> QED
      BY <1>2, <3>1, <3>2, <3>3, <3>4
  <2>2. ControlOK'
    BY <1>2 DEF TypeAndControl, ControlOK, InStep, ScanPass, ScanStop, ScanJumpNull, ScanPcDone,
                loop, scan
  <2> QED
    BY <1>1, <2>1, <2>2 DEF TypeAndControl
<1>3. CASE ScanJump
  <2>1. bp[idx].target \in Int
    BY <1>3 DEF ScanJump, Scanning, TypeAndControl, TypeOK, Event, EventFields
  <2>2. cpu' \in Cpu
    BY <1>3, <2>1 DEF ScanJump, TypeAndControl, TypeOK, Cpu
  <2>3. TypeOK'
    BY <1>3, <2>2 DEF TypeAndControl, TypeOK, ScanJump, loop
  <2>4. ControlOK'
    BY <1>3 DEF TypeAndControl, ControlOK, InStep, ScanJump, loop
  <2> QED
    BY <1>1, <2>3, <2>4 DEF TypeAndControl
<1> QED
  BY <1>2, <1>3

\* The word a load or store comes to, in a well-formed state.
LEMMA NextWordFacts ==
    ASSUME TypeAndControl, NEW ops, AtWord(ops)
    PROVE  /\ acc.word \in Nat /\ NextWord \in 1 .. Len(Words(instr)) /\ NextWord = acc.word + 1
           /\ NextAddr \in Addr /\ NextAddr = WordAddr(instr, NextWord)
           /\ \A k \in 1 .. NextWord : WordAddr(instr, k) \in Addr
           /\ Words(instr)[NextWord] \in Reg
           /\ phase = "exec" => acc.word = 0
           /\ instr.op \in ops
<1>1. acc.word \in Nat /\ instr \in Instr
  BY DEF TypeAndControl, TypeOK, Access
<1>2. Len(Words(instr)) \in Nat
  BY <1>1, WordsType
<1>3. NextWord \in 1 .. Len(Words(instr)) /\ NextWord = acc.word + 1
  BY <1>1, <1>2 DEF AtWord, NextWord
<1>4. NextAddr \in Addr /\ NextAddr = WordAddr(instr, NextWord)
  BY DEF AtWord, NextAddr
<1>5. phase = "exec" => acc.word = 0
  BY DEF TypeAndControl, ControlOK
<1>6. ASSUME NEW k \in 1 .. NextWord
      PROVE  WordAddr(instr, k) \in Addr
  <2>1. CASE k = NextWord
    BY <2>1, <1>4
  <2>2. CASE k # NextWord
    BY <1>1, <1>3, <1>5, <2>2 DEF AtWord, TypeAndControl, ControlOK
  <2> QED
    BY <2>1, <2>2
<1>7. Words(instr)[NextWord] \in Reg
  BY <1>1, <1>3, WordsType
<1> QED
  BY <1>1, <1>3, <1>4, <1>5, <1>6, <1>7 DEF AtWord

LEMMA ExecuteType ==
    ASSUME TypeAndControl, Execute
    PROVE  TypeAndControl'
<1> USE DEF loop, scan
<1>1. /\ cpu \in Cpu /\ instr \in Instr /\ acc \in Access /\ mem \in Memory
      /\ tmr \in TimerState /\ io \in IoState
  BY DEF TypeAndControl, TypeOK
<1>2. TableOK'
  BY DEF TypeAndControl, TableOK, Execute, ExecRegister, ExecUnimplemented, ExecStore,
         ExecLoad, FinishStore, FinishLoad
<1>4. CASE ExecRegister
  <2>1. cpu' \in Cpu
    BY <1>1, <1>4, ExecutedType DEF ExecRegister
  <2>2. ControlOK'
    BY <1>4 DEF ExecRegister, TypeAndControl, ControlOK, InStep
  <2> QED
    BY <1>2, <1>4, <2>1, <2>2 DEF TypeAndControl, TypeOK, ExecRegister, SimResult
<1>5. CASE ExecUnimplemented
  <2>1. ControlOK'
    BY <1>5 DEF ExecUnimplemented, TypeAndControl, ControlOK, InStep
  <2> QED
    BY <1>2, <1>5, <2>1 DEF TypeAndControl, TypeOK, ExecUnimplemented, SimResult
<1>6. CASE ExecStore
  <2> DEFINE v == cpu.regs[Words(instr)[NextWord]]
  <2>0. AtWord(StoreOps)
    BY <1>6 DEF ExecStore
  <2>1. /\ acc.word \in Nat /\ NextWord \in 1 .. Len(Words(instr)) /\ NextWord = acc.word + 1
        /\ NextAddr \in Addr /\ NextAddr = WordAddr(instr, NextWord)
        /\ \A k \in 1 .. NextWord : WordAddr(instr, k) \in Addr
        /\ Words(instr)[NextWord] \in Reg /\ instr.op \in StoreOps
    BY <2>0, NextWordFacts
  <2>2. v \in Int
    BY <1>1, <2>1 DEF Cpu
  <2>3. StoreWord(NextAddr, v)
        /\ acc' = [type |-> "MEMORY_WRITE", addr |-> NextAddr, val |-> v, init |-> TRUE,
                   word |-> NextWord]
    BY <1>6 DEF ExecStore
  <2> HIDE DEF v
  <2>4. mem' \in Memory /\ tmr' \in TimerState /\ io' \in IoState
    BY <2>1, <2>2, <2>3, StoreWordType DEF TypeAndControl
  <2>5. acc' \in Access /\ acc'.word = NextWord /\ acc'.addr = NextAddr
        /\ acc'.type = "MEMORY_WRITE"
    BY <2>1, <2>2, <2>3 DEF Access, MemTypes
  <2>6. /\ phase' = "memscan" /\ idx' = 1
        /\ UNCHANGED <<code, cpu, bp, mode, left, sigint, instr, stop, manip, ret, resume, before>>
    BY <1>6 DEF ExecStore
  <2>7. ControlOK'
    BY <2>0, <2>1, <2>5, <2>6 DEF TypeAndControl, ControlOK, InStep, AtWord
  <2> QED
    BY <1>2, <2>4, <2>5, <2>6, <2>7 DEF TypeAndControl, TypeOK
<1>7. CASE ExecLoad
  <2> DEFINE w == Contents(NextAddr)
  <2>0. AtWord(LoadOps)
    BY <1>7 DEF ExecLoad
  <2>1. /\ acc.word \in Nat /\ NextWord \in 1 .. Len(Words(instr)) /\ NextWord = acc.word + 1
        /\ NextAddr \in Addr /\ NextAddr = WordAddr(instr, NextWord)
        /\ \A k \in 1 .. NextWord : WordAddr(instr, k) \in Addr
        /\ instr.op \in LoadOps
    BY <2>0, NextWordFacts
  <2>. w \in Word /\ IoAfterRead(NextAddr) \in IoState
    BY <2>1, ContentsType, IoAfterReadType DEF TypeAndControl
  <2> HIDE DEF w
  <2>. UNCHANGED <<code, cpu, mem, tmr, bp, mode, left, sigint, instr, stop, manip, resume, before>>
    BY <1>7 DEF ExecLoad
  <2>2. CASE UNCHANGED <<io, acc, idx>> /\ ret' = "READ_FROM_UNINITIALIZED" /\ phase' = "end"
    <3>1. ControlOK'
      BY <2>0, <2>2 DEF TypeAndControl, ControlOK, InStep, AtWord
    <3> QED
      BY <1>2, <2>2, <3>1 DEF TypeAndControl, TypeOK, SimResult
  <2>3. CASE /\ w # NoPage /\ io' = IoAfterRead(NextAddr) /\ idx' = 1
             /\ phase' = "memscan" /\ ret' = ret
             /\ \E val \in IF w = Undef THEN Garbage ELSE {w} :
                   acc' = [type |-> "MEMORY_READ", addr |-> NextAddr, val |-> val,
                           init |-> w # Undef, word |-> NextWord]
    <3>1. PICK val \in IF w = Undef THEN Garbage ELSE {w} :
               acc' = [type |-> "MEMORY_READ", addr |-> NextAddr, val |-> val,
                       init |-> w # Undef, word |-> NextWord]
      BY <2>3
    <3>2. val \in Int
      BY <2>3, <3>1, SimulatorAssumption DEF Word
    <3>3. acc' \in Access /\ acc'.word = NextWord /\ acc'.addr = NextAddr
          /\ acc'.type = "MEMORY_READ"
      BY <2>1, <3>1, <3>2 DEF Access, MemTypes
    <3>4. ControlOK'
      BY <2>0, <2>1, <2>3, <3>3 DEF TypeAndControl, ControlOK, InStep, AtWord
    <3> QED
      BY <1>2, <2>3, <3>3, <3>4 DEF TypeAndControl, TypeOK
  <2> QED
    BY <1>7, <2>2, <2>3 DEF ExecLoad, w
<1>8. CASE FinishStore
  <2>1. cpu' \in Cpu
    BY <1>1, <1>8, CompletedType DEF FinishStore
  <2>2. /\ phase = "memscan" /\ phase' \in {"words", "end"}
        /\ phase' = "words" => acc.word < Len(Words(instr))
        /\ ret' \in SimResult
        /\ UNCHANGED <<code, mem, tmr, io, bp, mode, left, sigint, instr, acc, idx, stop, manip,
                      resume, before>>
    BY <1>8 DEF FinishStore, WalkedAccess, WordsLeft, TypeAndControl, TypeOK, SimResult
  <2>3. ControlOK'
    BY <2>2 DEF TypeAndControl, ControlOK, InStep
  <2> QED
    BY <1>2, <2>1, <2>2, <2>3 DEF TypeAndControl, TypeOK
<1>9. CASE FinishLoad
  <2> DEFINE c == LoadedWord(instr, cpu, acc.word, acc.val)
  <2>1. acc.val \in Int /\ acc.word \in 1 .. Len(Words(instr))
    BY <1>1, <1>9 DEF Access, FinishLoad, WalkedAccess, TypeAndControl, ControlOK
  <2>2. c \in Cpu
    BY <1>1, <2>1, LoadedWordType
  <2>3. Completed(instr, c) \in Cpu
    BY <1>1, <2>2, CompletedType
  <2>4. cpu' \in {cpu, c, Completed(instr, c)}
    BY <1>9 DEF FinishLoad
  <2>5. /\ phase = "memscan" /\ phase' \in {"words", "end"}
        /\ phase' = "words" => acc.word < Len(Words(instr))
        /\ ret' \in SimResult
        /\ UNCHANGED <<code, mem, tmr, io, bp, mode, left, sigint, instr, acc, idx, stop, manip,
                      resume, before>>
    BY <1>9 DEF FinishLoad, WalkedAccess, WordsLeft, TypeAndControl, TypeOK, SimResult
  <2>6. ControlOK'
    BY <2>5 DEF TypeAndControl, ControlOK, InStep
  <2>7. cpu' \in Cpu
    BY <1>1, <2>2, <2>3, <2>4
  <2> QED
    BY <1>2, <2>5, <2>6, <2>7 DEF TypeAndControl, TypeOK
<1> QED
  BY <1>4, <1>5, <1>6, <1>7, <1>8, <1>9 DEF Execute

LEMMA StutterType ==
    ASSUME TypeAndControl, UNCHANGED vars
    PROVE  TypeAndControl'
BY DEF vars, TypeAndControl, TypeOK, ControlOK, InStep, TableOK

\* What the user and the signal handler do, and the end of an iteration.
LEMMA OutsideType ==
    ASSUME TypeAndControl, TypeKey \/ TypeRun \/ TypeStep \/ CtrlC \/ EndIteration \/ Restart
    PROVE  TypeAndControl'
<1>1. CASE TypeRun
  <2>1. left' \in Nat \cup {Forever} /\ (left' = Forever \/ left' > 0)
    BY <1>1, SimulatorAssumption DEF TypeRun
  <2>2. TypeOK'
    BY <1>1, <2>1 DEF TypeRun, TypeAndControl, TypeOK, scan
  <2> QED
    BY <1>1, <2>1, <2>2 DEF TypeRun, TypeAndControl, ControlOK, InStep, TableOK, scan
<1>2. CASE TypeStep
  <2>1. TypeOK'
    BY <1>2 DEF TypeStep, TypeAndControl, TypeOK, scan
  <2> QED
    BY <1>2, <2>1 DEF TypeStep, TypeAndControl, ControlOK, InStep, TableOK, scan
<1>3. CASE CtrlC
  <2>1. TypeOK'
    BY <1>3 DEF CtrlC, TypeAndControl, TypeOK, loop, scan
  <2> QED
    BY <1>3, <2>1 DEF CtrlC, TypeAndControl, ControlOK, InStep, TableOK, loop, scan
<1>4. CASE EndIteration
  <2>1. /\ instr' \in Instr /\ acc' \in Access /\ idx' \in Nat \ {0}
        /\ ret' \in SimResult /\ before' \in Snapshot \cup {None}
    BY <1>4, NoInstrType DEF EndIteration, ForgetStep, SimResult
  <2>. stop' \in BOOLEAN /\ manip' \in BOOLEAN
    BY <1>4 DEF EndIteration, ForgetStep
  <2>2. /\ phase' \in {"idle", "fetch"} /\ phase' = "idle" <=> mode' \in {"prompt", "crashed"}
        /\ mode' \in {"prompt", mode}
    BY <1>4 DEF EndIteration, TypeAndControl, TypeOK, ControlOK, InStep
  <2>3. left' \in Nat \cup {Forever} /\ (phase' # "idle" => left' = Forever \/ left' > 0)
    BY <1>4, SimulatorAssumption
    DEF EndIteration, TypeAndControl, TypeOK, ControlOK, InStep, LastStep
  <2>4. sigint' \in BOOLEAN
    BY <1>4 DEF EndIteration, TypeAndControl, TypeOK, Interrupted
  <2>5. TypeOK'
    BY <1>4, <2>1, <2>2, <2>3, <2>4 DEF EndIteration, TypeAndControl, TypeOK
  <2> QED
    BY <1>4, <2>2, <2>3, <2>5 DEF EndIteration, ForgetStep, NoAccess, TypeAndControl, ControlOK, InStep,
                                        TableOK
<1>5. CASE Restart
  <2>1. /\ instr' \in Instr /\ acc' \in Access /\ idx' \in Nat \ {0}
        /\ ret' \in SimResult /\ before' \in Snapshot \cup {None}
    BY <1>5, NoInstrType DEF Restart, ForgetStep, SimResult
  <2>. stop' \in BOOLEAN /\ manip' \in BOOLEAN
    BY <1>5 DEF Restart, ForgetStep
  <2>2. /\ cpu' \in Cpu /\ tmr' \in TimerState /\ mem' \in Memory /\ io' \in IoState
        /\ bp' \in Seq(Event)
    BY <1>5, CpuResetType, TimerResetType, IoResetType DEF Restart, Memory, Word
  <2>3. TypeOK'
    BY <1>5, <2>1, <2>2 DEF Restart, TypeAndControl, TypeOK
  <2>4. ControlOK'
    BY <1>5 DEF Restart, ForgetStep, NoAccess, ControlOK, InStep
  <2>5. bp' = <<>>
    BY <1>5 DEF Restart
  <2>6. TableOK'
    BY <2>5, BpAssumption DEF TableOK, NoDuplicates
  <2> QED
    BY <2>3, <2>4, <2>6 DEF TypeAndControl
<1>6. CASE TypeKey
  <2>1. PICK k \in Keys : io' = [io EXCEPT !.rx = FifoPush(@, k)]
    BY <1>6 DEF TypeKey
  <2>2. io \in IoState /\ io.rx \in Seq(Int) /\ k \in Int /\ FifoSize \in Nat \ {0}
    BY SimulatorAssumption DEF TypeAndControl, TypeOK, IoState
  <2>3. Len(io.rx) < FifoSize \/ io.rx # <<>>
    BY <2>2
  <2>4. FifoPush(io.rx, k) \in Seq(Int)
    BY <2>2, <2>3 DEF FifoPush
  <2>5. io' \in IoState
    BY <2>1, <2>2, <2>4 DEF IoState
  <2>6. TypeOK'
    BY <1>6, <2>5 DEF TypeKey, TypeAndControl, TypeOK, loop, scan
  <2> QED
    BY <1>6, <2>6 DEF TypeKey, TypeAndControl, ControlOK, InStep, TableOK, loop, scan
<1> QED
  BY <1>1, <1>2, <1>3, <1>4, <1>5, <1>6

LEMMA TypeNext == TypeAndControl /\ [Next]_vars => TypeAndControl'
BY TypeCommandType, OutsideType, FetchType, ScanType, ScanScriptType, ExecuteType, StutterType
DEF Next, Simulate, Scan

(***************************************************************************)
(* Every variable keeps its type and the phases of a step come in their    *)
(* order, in every session with every image: no script run in the middle   *)
(* of a walk leaves the table, the registers or the walk malformed.        *)
(***************************************************************************)
THEOREM TypeCorrect == Spec => []TypeOK
<1>1. TypeAndControl => TypeOK
  BY DEF TypeAndControl
<1> QED
  BY <1>1, TypeInit, TypeNext, PTL DEF Spec

(***************************************************************************)
(* The breakpoint table holds at most NB_BREAKPOINTS_MAX entries and no    *)
(* breakpoint twice.                                                       *)
(***************************************************************************)
THEOREM TableCorrect == Spec => []TableOK
<1>1. TypeAndControl => TableOK
  BY DEF TypeAndControl
<1> QED
  BY <1>1, TypeInit, TypeNext, PTL DEF Spec
----------------------------------------------------------------------------
(* The breakpoint properties.  StopBeforeInstr and FailedStepIsAtomic are  *)
(* not inductive: WalkOK says what the part of the table already walked    *)
(* over has shown, ProgressOK what the step has done to the machine so far.*)

WalkInv == StopBeforeInstr /\ WalkOK
EffectInv == ProgressOK /\ FailedStepIsAtomic

SafetyInv == TypeAndControl /\ WalkInv /\ EffectInv

\* Outside a step nothing is claimed.
LEMMA IdleSafe ==
    ASSUME phase' \in {"idle", "fetch"}
    PROVE  WalkInv' /\ EffectInv'
BY DEF WalkInv, EffectInv, StopBeforeInstr, WalkOK, ProgressOK, FailedStepIsAtomic, Quiet, InStep

\* Nothing the claims are about has changed.
LEMMA SameSafe ==
    ASSUME WalkInv, EffectInv,
           UNCHANGED <<cpu, mem, tmr, io, bp, mode, phase, instr, idx, acc, stop, manip, ret,
                       before>>
    PROVE  WalkInv' /\ EffectInv'
<1>1. (Quiet <=> Quiet') /\ Now' = Now
  BY DEF Quiet, InStep, Now
<1>2. WalkInv'
  BY <1>1 DEF WalkInv, StopBeforeInstr, WalkOK, Halts, FiresBeforeInstr
<1>3. \A n : StoredWords(n)' <=> StoredWords(n)
  BY DEF StoredWords, InMemory
<1>4. \A n : LoadedOnly(n)' <=> LoadedOnly(n)
  BY DEF LoadedOnly, OnlyLoaded, OnlyTaken, InMemory
<1>5. StoreDone' <=> StoreDone
  BY <1>3 DEF StoreDone
<1>6. EffectInv'
  BY <1>1, <1>3, <1>4, <1>5 DEF EffectInv, ProgressOK, FailedStepIsAtomic, InMemory
<1> QED
  BY <1>2, <1>6

LEMMA OutsideSafe ==
    ASSUME SafetyInv,
           \/ TypeCommand \/ TypeKey \/ TypeRun \/ TypeStep \/ CtrlC \/ EndIteration \/ Restart
           \/ ScanJumpNull \/ UNCHANGED vars
    PROVE  WalkInv' /\ EffectInv'
<1>1. CASE \/ TypeCommand \/ TypeKey \/ TypeRun \/ TypeStep \/ EndIteration \/ Restart
           \/ ScanJumpNull
  <2>1. phase' \in {"idle", "fetch"}
    BY <1>1 DEF TypeCommand, TypeKey, TypeRun, TypeStep, EndIteration, Restart, ScanJumpNull,
                SafetyInv, TypeAndControl, ControlOK
  <2> QED
    BY <2>1, IdleSafe
<1>2. CASE CtrlC \/ UNCHANGED vars
  BY <1>2, SameSafe DEF CtrlC, vars, loop, scan, SafetyInv
<1> QED
  BY <1>1, <1>2

LEMMA FetchSafe ==
    ASSUME SafetyInv, Fetch
    PROVE  WalkInv' /\ EffectInv'
<1>1. /\ Now' = before' /\ bp' = before'.bp /\ idx' = 1 /\ ~manip'
      /\ phase' \in {"end", "exec", "pcscan"}
      /\ phase' = "exec" => mode' # "run"
  BY DEF Fetch, Now, loop
<1>2. \A i \in 1 .. Len(bp') : ~(i < 1)
  BY DEF SafetyInv, TypeAndControl, TypeOK
<1>3. WalkInv'
  BY <1>1, <1>2 DEF WalkInv, StopBeforeInstr, WalkOK
<1>4. EffectInv'
  BY <1>1 DEF EffectInv, ProgressOK, FailedStepIsAtomic
<1> QED
  BY <1>3, <1>4

\* With no scripts about, an entry that fires is not one.
LEMMA NoScriptFires ==
    ASSUME SafetyInv, Quiet, Scanning
    PROVE  ~ScanScript
<1>1. bp = before.bp /\ idx \in 1 .. Len(bp)
  BY DEF SafetyInv, EffectInv, ProgressOK, Scanning, TypeAndControl, TypeOK
<1> QED
  BY <1>1 DEF Quiet, ScanScript

LEMMA ScanScriptSafe ==
    ASSUME SafetyInv, ScanScript
    PROVE  WalkInv' /\ EffectInv'
<1>1. ~Quiet
  BY NoScriptFires DEF ScanScript
<1>2. before' = before /\ phase' = phase /\ InStep
  BY DEF ScanScript, Scanning, InStep
<1>3. ~Quiet'
  BY <1>1, <1>2 DEF Quiet, InStep
<1> QED
  BY <1>2, <1>3 DEF WalkInv, EffectInv, StopBeforeInstr, WalkOK, ProgressOK,
                    FailedStepIsAtomic, ScanScript, Scanning

\* An entry that stops, jumps or does nothing.
LEMMA ScanEntrySafe ==
    ASSUME SafetyInv, ScanPass \/ ScanStop \/ ScanJump
    PROVE  WalkInv' /\ EffectInv'
<1>1. /\ idx' = idx + 1 /\ idx \in 1 .. Len(bp) /\ idx \in Nat /\ bp[idx] \in Event
      /\ UNCHANGED <<bp, phase, before, instr, acc, mode, mem, tmr, io, ret>>
      /\ phase \in {"pcscan", "memscan"}
  BY DEF ScanPass, ScanStop, ScanJump, Scanning, SafetyInv, TypeAndControl, TypeOK, loop
<1>2. Quiet' <=> Quiet
  BY <1>1 DEF Quiet, InStep
<1>3. WalkInv'
  <2>1. StopBeforeInstr'
    BY <1>1 DEF StopBeforeInstr
  <2>2. SUFFICES ASSUME phase = "pcscan", Quiet, ~stop', ~manip', NEW i \in 1 .. Len(bp), i < idx + 1
                 PROVE  ~(Halts(bp[i]))'
    BY <1>1, <1>2, <2>1 DEF WalkInv, WalkOK
  <2>3. ScanPass /\ UNCHANGED <<cpu, stop, manip>>
    BY <2>2 DEF ScanPass, ScanStop, ScanJump
  <2>4. CASE i < idx
    BY <1>1, <2>2, <2>3, <2>4 DEF SafetyInv, WalkInv, WalkOK, Halts
  <2>5. CASE i = idx
    BY <1>1, <2>2, <2>3, <2>5 DEF ScanPass, Fires, Halts
  <2> QED
    BY <1>1, <2>2, <2>4, <2>5
<1>4. EffectInv'
  <2>1. FailedStepIsAtomic'
    BY <1>1 DEF FailedStepIsAtomic
  <2>2. SUFFICES ASSUME Quiet
                 PROVE  ProgressOK'
    BY <1>2, <2>1 DEF EffectInv, ProgressOK
  <2>3. ProgressOK /\ bp = before.bp
    BY <2>2 DEF SafetyInv, EffectInv, ProgressOK
  <2>4. CASE ScanPass \/ ScanStop
    <3>1. UNCHANGED <<cpu, manip>>
      BY <2>4 DEF ScanPass, ScanStop
    <3>2. Now' = Now /\ (Quiet <=> Quiet')
      BY <1>1, <1>2, <3>1 DEF Now
    <3>3. \A n : StoredWords(n)' <=> StoredWords(n)
      BY <1>1, <3>1 DEF StoredWords, InMemory
    <3>4. \A n : LoadedOnly(n)' <=> LoadedOnly(n)
      BY <1>1, <3>1 DEF LoadedOnly, OnlyLoaded, OnlyTaken, InMemory
    <3> QED
      BY <1>1, <2>3, <3>1, <3>2, <3>3, <3>4 DEF ProgressOK, InMemory
  <2>5. CASE ScanJump
    <3>1. /\ phase = "pcscan" /\ manip' /\ cpu' = [cpu EXCEPT !.pc = bp[idx].target]
          /\ ~bp[idx].disabled /\ bp[idx].action = "JUMP" /\ cpu'.pc = bp[idx].target
      BY <2>5 DEF ScanJump, Scanning, Fires, FiresBeforeInstr, SafetyInv, TypeAndControl, TypeOK, Cpu
    <3>2. Now = before \/ Now = [before EXCEPT !.cpu.pc = cpu.pc]
      BY <2>2, <2>3, <3>1 DEF ProgressOK
    <3>3. before \in Snapshot /\ cpu \in Cpu
      BY <2>2 DEF Quiet, SafetyInv, TypeAndControl, ControlOK, TypeOK
    <3>4. /\ mem = before.mem /\ tmr = before.tmr /\ io = before.io
          /\ cpu.regs = before.cpu.regs /\ cpu.sr = before.cpu.sr
      <4>1. /\ Now.cpu = cpu /\ Now.mem = mem /\ Now.tmr = tmr /\ Now.io = io
        BY DEF Now
      <4>2. CASE Now = before
        BY <4>1, <4>2
      <4>3. CASE Now = [before EXCEPT !.cpu.pc = cpu.pc]
        <5>1. Now.mem = before.mem /\ Now.tmr = before.tmr /\ Now.io = before.io
              /\ Now.cpu = [before.cpu EXCEPT !.pc = cpu.pc]
          BY <3>3, <4>3 DEF Snapshot
        <5> QED
          BY <3>3, <4>1, <5>1 DEF Snapshot, Cpu
      <4> QED
        BY <3>2, <4>2, <4>3
    <3>5. cpu' = [before.cpu EXCEPT !.pc = cpu'.pc]
      BY <3>1, <3>3, <3>4 DEF Snapshot, Cpu
    <3>6. Now' = [before EXCEPT !.cpu = cpu']
      BY <1>1, <2>3, <3>3, <3>4 DEF Now, Snapshot
    <3>7. Now' = [before EXCEPT !.cpu.pc = cpu'.pc]
      BY <3>3, <3>5, <3>6 DEF Snapshot
    <3> QED
      BY <1>1, <2>3, <3>1, <3>7 DEF ProgressOK
  <2> QED
    BY <2>4, <2>5
<1> QED
  BY <1>3, <1>4

\* The walk is over and has found an instruction to execute or a reason not to.
LEMMA ScanPcDoneSafe ==
    ASSUME SafetyInv, ScanPcDone
    PROVE  WalkInv' /\ EffectInv'
<1>1. /\ phase = "pcscan" /\ idx > Len(bp) /\ phase' \in {"end", "exec"}
      /\ UNCHANGED <<cpu, mem, tmr, io, bp, mode, before, instr, acc, manip, stop>>
  BY DEF ScanPcDone, scan, loop
<1>2. Quiet' <=> Quiet
  BY <1>1 DEF Quiet, InStep
<1>3. WalkInv'
  <2>1. WalkOK'
    BY <1>1 DEF WalkOK
  <2>2. SUFFICES ASSUME phase' = "exec", Quiet, NEW i \in 1 .. Len(bp)
                 PROVE  ~(Halts(bp[i]))'
    BY <1>1, <1>2, <2>1 DEF WalkInv, StopBeforeInstr
  <2>3. ~stop /\ ~manip /\ i < idx
    BY <1>1, <2>2 DEF ScanPcDone, SafetyInv, TypeAndControl, TypeOK
  <2> QED
    BY <1>1, <2>2, <2>3 DEF SafetyInv, WalkInv, WalkOK, Halts
<1>4. EffectInv'
  <2>1. SUFFICES ASSUME Quiet
                 PROVE  ProgressOK' /\ FailedStepIsAtomic'
    BY <1>2 DEF EffectInv, ProgressOK, FailedStepIsAtomic
  <2>2. ProgressOK
    BY DEF SafetyInv, EffectInv
  <2>3. manip => ret' = "NO_ERROR" /\ phase' = "end"
    BY DEF ScanPcDone
  <2> QED
    BY <1>1, <2>1, <2>2, <2>3 DEF ProgressOK, FailedStepIsAtomic, Failures, Now
<1> QED
  BY <1>3, <1>4

\* A store leaves the words before it where they are.
LEMMA StoredWordsGrow ==
    ASSUME SafetyInv, Quiet, ExecStore
    PROVE  UNCHANGED <<cpu, before, instr>> /\ cpu = before.cpu /\ StoredWords(acc.word)'
<1> DEFINE v == cpu.regs[Words(instr)[NextWord]]
<1>0. AtWord(StoreOps) /\ TypeAndControl
  BY DEF ExecStore, SafetyInv
<1>1. /\ acc.word \in Nat /\ NextWord \in 1 .. Len(Words(instr)) /\ NextWord = acc.word + 1
      /\ NextAddr \in Addr /\ NextAddr = WordAddr(instr, NextWord)
      /\ \A k \in 1 .. NextWord : WordAddr(instr, k) \in Addr
      /\ phase = "exec" => acc.word = 0
      /\ instr.op \in StoreOps
  BY <1>0, NextWordFacts
<1>2. /\ StoreWord(NextAddr, v) /\ UNCHANGED <<cpu, before, instr>>
      /\ acc' = [type |-> "MEMORY_WRITE", addr |-> NextAddr, val |-> v, init |-> TRUE,
                 word |-> NextWord]
  BY DEF ExecStore
<1>3. acc'.word = NextWord
  BY <1>2
<1>4. cpu = before.cpu /\ (acc.word # 0 => StoredWords(acc.word))
  BY <1>0, <1>1 DEF SafetyInv, EffectInv, ProgressOK, AtWord, Now, LoadOps, StoreOps
<1>5. mem \in Memory /\ instr \in Instr /\ cpu \in Cpu
  BY <1>0 DEF TypeAndControl, TypeOK
<1>. /\ Len(Words(instr)) \in Nat /\ instr.imm \in Int
     /\ \A k \in 1 .. Len(Words(instr)) : Words(instr)[k] \in Reg
  BY <1>5, WordsType DEF Instr
<1>6. ASSUME NEW k \in 1 .. NextWord, InMemory(k)
      PROVE  mem'[WordAddr(instr, k)] = before.cpu.regs[Words(instr)[k]]
  <2>1. WordAddr(instr, k) \in Addr /\ Device[WordAddr(instr, k)] = NoDevice
    BY <1>1, <1>6 DEF InMemory
  <2>2. CASE k = NextWord
    BY <1>1, <1>2, <1>4, <2>1, <2>2 DEF StoreWord
  <2>3. CASE k # NextWord
    <3>0. k \in 1 .. acc.word /\ acc.word # 0
      BY <1>1, <2>3
    <3>1. k \in 1 .. acc.word /\ acc.word # 0 /\ WordAddr(instr, k) # NextAddr
      <4>1. NextAddr = instr.imm + 4 * (NextWord - 1) /\ WordAddr(instr, k) = instr.imm + 4 * (k - 1)
        BY <1>1 DEF WordAddr
      <4> QED
        BY <1>1, <2>3, <3>0, <4>1
    <3>2. mem[WordAddr(instr, k)] = before.cpu.regs[Words(instr)[k]]
      BY <1>4, <1>6, <3>1 DEF StoredWords
    <3>3. before.cpu.regs[Words(instr)[k]] \in Int
      BY <1>1, <1>4, <1>5 DEF Cpu
    <3>4. mem[WordAddr(instr, k)] # NoPage
      BY <3>2, <3>3, SimulatorAssumption
    <3> QED
      BY <1>2, <2>1, <3>1, <3>2, <3>4 DEF StoreWord
  <2> QED
    BY <2>2, <2>3
<1>7. StoredWords(acc.word)'
  BY <1>2, <1>3, <1>6 DEF StoredWords, InMemory
<1> QED
  BY <1>2, <1>4, <1>7

\* A load that has loaded nothing yet.
LEMMA NothingLoaded ==
    ASSUME Now = before, instr.op \in LoadOps
    PROVE  LoadedOnly(0)
BY DEF Now, LoadedOnly, OnlyLoaded, OnlyTaken

\* How many words have been loaded when the next one is about to be.
LEMMA LoadedSoFar ==
    ASSUME SafetyInv, Quiet, AtWord(LoadOps)
    PROVE  LoadedOnly(acc.word)
<1>1. instr.op \in LoadOps /\ (phase = "exec" => acc.word = 0)
  BY NextWordFacts DEF SafetyInv, AtWord
<1>2. CASE phase = "exec"
  BY <1>1, <1>2, NothingLoaded DEF SafetyInv, EffectInv, ProgressOK
<1>3. CASE phase = "words"
  BY <1>1, <1>3 DEF SafetyInv, EffectInv, ProgressOK
<1> QED
  BY <1>2, <1>3 DEF AtWord

LEMMA LoadedOnlyGrows ==
    ASSUME NEW m \in Nat, NEW n \in Nat, m <= n, LoadedOnly(m)
    PROVE  LoadedOnly(n)
<1>1. \A k \in 1 .. m : k \in 1 .. n
  OBVIOUS
<1> QED
  BY <1>1 DEF LoadedOnly, OnlyLoaded

\* Reading a word takes a character out of the UART at most.
LEMMA ExecLoadSafe ==
    ASSUME SafetyInv, Quiet, ExecLoad
    PROVE  /\ phase' = "memscan" => /\ LoadedOnly(acc.word - 1)'
                                    /\ acc'.init /\ InMemory(acc.word)' =>
                                          acc'.val = mem'[acc'.addr]
           /\ phase' = "end" => LoadedOnly(Len(Words(instr)) - 1)'
<1>0. AtWord(LoadOps) /\ TypeAndControl /\ instr \in Instr
  BY DEF ExecLoad, SafetyInv, TypeAndControl, TypeOK
<1>1. /\ acc.word \in Nat /\ NextWord \in 1 .. Len(Words(instr)) /\ NextWord = acc.word + 1
      /\ NextAddr \in Addr /\ NextAddr = WordAddr(instr, NextWord)
  BY <1>0, NextWordFacts
<1>2. LoadedOnly(acc.word)
  BY <1>0, LoadedSoFar
<1>3. UNCHANGED <<cpu, mem, tmr, bp, instr, before>>
  BY DEF ExecLoad
<1>4. Len(Words(instr)) \in Nat
  BY <1>0, WordsType
<1>5. CASE phase' = "end"
  <2>1. UNCHANGED io
    BY <1>5 DEF ExecLoad
  <2>2. LoadedOnly(Len(Words(instr)) - 1)
    BY <1>1, <1>2, <1>4, LoadedOnlyGrows
  <2>3. LoadedOnly(Len(Words(instr)) - 1)'
    BY <1>3, <2>1, <2>2 DEF LoadedOnly, OnlyLoaded, OnlyTaken, InMemory
  <2> QED
    BY <1>5, <2>3
<1>6. CASE phase' = "memscan"
  <2> DEFINE w == Contents(NextAddr)
  <2>1. PICK val \in IF w = Undef THEN Garbage ELSE {w} :
             acc' = [type |-> "MEMORY_READ", addr |-> NextAddr, val |-> val,
                     init |-> w # Undef, word |-> NextWord]
    BY <1>6 DEF ExecLoad
  <2>2. io' = IoAfterRead(NextAddr)
    BY <1>6 DEF ExecLoad
  <2>3. acc'.word - 1 = acc.word
    BY <1>1, <2>1
  <2>4. io'.clear = io.clear /\ (Device[NextAddr] # "UART_RX" => io' = io)
    BY <2>2 DEF IoAfterRead, SafetyInv, TypeAndControl, TypeOK, IoState
  <2>5. OnlyTaken'
    BY <1>1, <1>2, <1>3, <2>4 DEF LoadedOnly, OnlyTaken
  <2>6. OnlyLoaded(acc.word - 1)'
    BY <1>2, <1>3, <2>3 DEF LoadedOnly, OnlyLoaded, InMemory
  <2>7. LoadedOnly(acc.word - 1)'
    BY <1>2, <1>3, <2>5, <2>6 DEF LoadedOnly
  <2>8. ASSUME acc'.init, InMemory(acc.word)'
        PROVE  acc'.val = mem'[acc'.addr]
    <3>1. Device[NextAddr] = NoDevice
      BY <1>1, <1>3, <2>1, <2>8 DEF InMemory
    <3>2. w = mem[NextAddr]
      BY <1>1, <3>1, SimulatorAssumption DEF Contents, ReadableDevice, DeviceRegs, TimerRegs
    <3>3. val = w
      BY <2>1, <2>8
    <3> QED
      BY <1>3, <2>1, <3>2, <3>3
  <2> QED
    BY <1>6, <2>7, <2>8
<1> QED
  BY <1>5, <1>6

\* A word goes to its register, or the instruction ends without it.
LEMMA FinishLoadSafe ==
    ASSUME SafetyInv, Quiet, FinishLoad
    PROVE  /\ phase' = "words" => LoadedOnly(acc.word)'
           /\ phase' = "end" /\ ret' \in Failures => LoadedOnly(Len(Words(instr)) - 1)'
<1>1. /\ acc.word \in 1 .. Len(Words(instr)) /\ instr \in Instr /\ acc.addr = WordAddr(instr, acc.word)
      /\ instr.op \in LoadOps /\ phase = "memscan" /\ cpu \in Cpu
  BY DEF FinishLoad, WalkedAccess, SafetyInv, TypeAndControl, ControlOK, TypeOK
<1>2. Len(Words(instr)) \in Nat /\ Words(instr)[acc.word] \in Reg
  BY <1>1, WordsType
<1>3. LoadedOnly(acc.word - 1)
  BY <1>1 DEF SafetyInv, EffectInv, ProgressOK
<1>4. UNCHANGED <<mem, tmr, io, bp, instr, acc, before>>
  BY DEF FinishLoad, scan
<1>5. CASE phase' = "words"
  <2>1. cpu' = [cpu EXCEPT !.regs[Words(instr)[acc.word]] = acc.val] /\ acc.init
    BY <1>5 DEF FinishLoad, LoadedWord
  <2>2. cpu'.pc = cpu.pc /\ cpu'.sr = cpu.sr
        /\ cpu'.regs = [cpu.regs EXCEPT ![Words(instr)[acc.word]] = acc.val]
    BY <1>1, <2>1 DEF Cpu
  <2>3. InMemory(acc.word) => acc.val = mem[WordAddr(instr, acc.word)]
    BY <1>1, <2>1 DEF SafetyInv, EffectInv, ProgressOK
  <2>4. ASSUME NEW r \in Reg, cpu'.regs[r] # before.cpu.regs[r]
        PROVE  \E k \in 1 .. acc.word : /\ Words(instr)[k] = r
                                        /\ InMemory(k) => cpu'.regs[r] = mem[WordAddr(instr, k)]
    <3>1. CASE r = Words(instr)[acc.word]
      <4>1. cpu'.regs[r] = acc.val /\ acc.word \in 1 .. acc.word
        BY <1>1, <1>2, <2>2, <3>1 DEF Cpu
      <4> QED
        BY <2>3, <3>1, <4>1
    <3>2. CASE r # Words(instr)[acc.word]
      <4>1. cpu'.regs[r] = cpu.regs[r]
        BY <1>1, <1>2, <2>2, <3>2 DEF Cpu
      <4>2. PICK k \in 1 .. acc.word - 1 :
                /\ Words(instr)[k] = r /\ (InMemory(k) => cpu.regs[r] = mem[WordAddr(instr, k)])
        BY <1>3, <2>4, <4>1 DEF LoadedOnly, OnlyLoaded
      <4>3. k \in 1 .. acc.word
        BY <1>1, <1>2
      <4> QED
        BY <4>1, <4>2, <4>3
    <3> QED
      BY <3>1, <3>2
  <2>5. OnlyLoaded(acc.word)'
    BY <1>4, <2>4 DEF OnlyLoaded, InMemory
  <2>6. LoadedOnly(acc.word)'
    BY <1>3, <1>4, <2>2, <2>5 DEF LoadedOnly, OnlyTaken
  <2>7. LoadedOnly(acc.word)'
    BY <1>4, <2>6 DEF LoadedOnly, OnlyLoaded
  <2> QED
    BY <1>5, <2>7
<1>6. CASE phase' = "end" /\ ret' \in Failures
  <2>1. UNCHANGED cpu
    BY <1>6 DEF FinishLoad, Failures
  <2>2. LoadedOnly(Len(Words(instr)) - 1)
    BY <1>1, <1>2, <1>3, LoadedOnlyGrows
  <2>3. LoadedOnly(Len(Words(instr)) - 1)'
    BY <1>4, <2>1, <2>2 DEF LoadedOnly, OnlyLoaded, OnlyTaken, InMemory
  <2> QED
    BY <1>6, <2>3
<1> QED
  BY <1>5, <1>6

LEMMA FinishStoreSafe ==
    ASSUME SafetyInv, Quiet, FinishStore
    PROVE  /\ phase' = "words" => cpu' = before'.cpu /\ StoredWords(acc.word)'
           /\ phase' = "end" => StoreDone'
<1>1. /\ acc.word \in 1 .. Len(Words(instr)) /\ instr \in Instr
      /\ instr.op \in StoreOps /\ phase = "memscan"
  BY DEF FinishStore, WalkedAccess, SafetyInv, TypeAndControl, ControlOK, TypeOK
<1>2. cpu = before.cpu /\ StoredWords(acc.word) /\ Len(Words(instr)) \in Nat
  BY <1>1, WordsType DEF SafetyInv, EffectInv, ProgressOK
<1>3. UNCHANGED <<mem, instr, acc, before>>
  BY DEF FinishStore, scan
<1>4. StoredWords(acc.word)'
  BY <1>2, <1>3 DEF StoredWords, InMemory
<1>5. CASE phase' = "words"
  <2>1. UNCHANGED cpu
    BY <1>5 DEF FinishStore
  <2>2. cpu' = before'.cpu
    BY <1>2, <1>3, <2>1
  <2> QED
    BY <1>4, <1>5, <2>2
<1>6. CASE phase' = "end"
  <2>1. ~WordsLeft /\ cpu' = Completed(instr, cpu)
    BY <1>6 DEF FinishStore
  <2>2. acc.word = Len(Words(instr))
    BY <1>1, <1>2, <2>1 DEF WordsLeft
  <2>3. StoredWords(Len(Words(instr)))'
    BY <1>2, <1>3, <2>2 DEF StoredWords, InMemory
  <2>4. (cpu = Completed(instr, before.cpu))'
    BY <1>2, <1>3, <2>1
  <2>5. StoreDone'
    BY <1>1, <1>3, <2>3, <2>4 DEF StoreDone
  <2> QED
    BY <1>6, <2>5
<1> QED
  BY <1>5, <1>6

LEMMA ExecuteSafe ==
    ASSUME SafetyInv, Execute
    PROVE  WalkInv' /\ EffectInv'
<1>1. /\ phase \in {"exec", "memscan", "words"} /\ phase' \in {"memscan", "words", "end"}
      /\ UNCHANGED <<bp, mode, before, instr, manip>>
  BY DEF Execute, ExecRegister, ExecUnimplemented, ExecStore, ExecLoad, FinishStore,
         FinishLoad, scan, loop, AtWord, WalkedAccess
<1>2. Quiet' <=> Quiet
  BY <1>1 DEF Quiet, InStep
<1>3. WalkInv'
  BY <1>1 DEF WalkInv, StopBeforeInstr, WalkOK
<1>4. SUFFICES ASSUME Quiet
               PROVE  ProgressOK' /\ FailedStepIsAtomic'
  BY <1>2, <1>3 DEF EffectInv, ProgressOK, FailedStepIsAtomic
<1>5. ProgressOK /\ bp = before.bp /\ bp' = before'.bp /\ ~manip' /\ ~manip
  BY <1>1, <1>4 DEF SafetyInv, EffectInv, ProgressOK
<1> USE DEF LoadOps, StoreOps
<1>6. CASE ExecRegister
  BY <1>1, <1>5, <1>6 DEF ExecRegister, ProgressOK, FailedStepIsAtomic, Failures
<1>7. CASE ExecUnimplemented
  <2>1. Now = before /\ phase' = "end"
    BY <1>4, <1>5, <1>7 DEF ExecUnimplemented, ProgressOK
  <2>2. Now' = before'
    BY <1>1, <1>7, <2>1 DEF ExecUnimplemented, Now
  <2> QED
    BY <1>1, <1>5, <2>1, <2>2 DEF ProgressOK, FailedStepIsAtomic
<1>8. CASE ExecStore
  <2>1. /\ UNCHANGED <<cpu, before, instr>> /\ cpu = before.cpu /\ StoredWords(acc.word)'
        /\ instr.op \in StoreOps /\ phase' = "memscan"
    BY <1>4, <1>8, StoredWordsGrow DEF ExecStore, AtWord
  <2> QED
    BY <1>1, <1>5, <2>1 DEF ProgressOK, FailedStepIsAtomic
<1>9. CASE ExecLoad
  <2>1. /\ phase' = "memscan" => /\ LoadedOnly(acc.word - 1)'
                                 /\ acc'.init /\ InMemory(acc.word)' => acc'.val = mem'[acc'.addr]
        /\ phase' = "end" => LoadedOnly(Len(Words(instr)) - 1)'
        /\ instr.op \in LoadOps /\ phase' \in {"memscan", "end"}
    BY <1>4, <1>9, ExecLoadSafe DEF ExecLoad, AtWord
  <2> QED
    BY <1>1, <1>5, <2>1 DEF ProgressOK, FailedStepIsAtomic
<1>10. CASE FinishStore
  <2>1. /\ phase' = "words" => cpu' = before'.cpu /\ StoredWords(acc.word)'
        /\ phase' = "end" => StoreDone'
        /\ phase' \in {"words", "end"} /\ instr.op \in StoreOps
    BY <1>4, <1>10, FinishStoreSafe
    DEF FinishStore, WalkedAccess, SafetyInv, TypeAndControl, ControlOK
  <2> QED
    BY <1>1, <1>5, <2>1 DEF ProgressOK, FailedStepIsAtomic
<1>11. CASE FinishLoad
  <2>1. /\ phase' = "words" => LoadedOnly(acc.word)'
        /\ phase' = "end" /\ ret' \in Failures => LoadedOnly(Len(Words(instr)) - 1)'
        /\ phase' \in {"words", "end"} /\ instr.op \in LoadOps
    BY <1>4, <1>11, FinishLoadSafe
    DEF FinishLoad, WalkedAccess, SafetyInv, TypeAndControl, ControlOK
  <2> QED
    BY <1>1, <1>5, <2>1 DEF ProgressOK, FailedStepIsAtomic, Failures
<1> QED
  BY <1>6, <1>7, <1>8, <1>9, <1>10, <1>11 DEF Execute

LEMMA SafetyInit == Init => SafetyInv
<1> SUFFICES ASSUME Init
             PROVE  SafetyInv
  OBVIOUS
<1>1. phase = "idle"
  BY DEF Init
<1> QED
  BY <1>1, TypeInit DEF SafetyInv, WalkInv, EffectInv, StopBeforeInstr, WalkOK, ProgressOK,
                        FailedStepIsAtomic, Quiet, InStep

LEMMA SafetyNext == SafetyInv /\ [Next]_vars => SafetyInv'
<1> SUFFICES ASSUME SafetyInv, [Next]_vars
             PROVE  SafetyInv'
  OBVIOUS
<1>1. TypeAndControl'
  BY TypeNext DEF SafetyInv
<1>2. WalkInv' /\ EffectInv'
  BY OutsideSafe, FetchSafe, ScanEntrySafe, ScanScriptSafe, ScanPcDoneSafe, ExecuteSafe
  DEF Next, Simulate, Scan
<1> QED
  BY <1>1, <1>2 DEF SafetyInv

(***************************************************************************)
(* run never executes an instruction over a stop or jump breakpoint that   *)
(* holds: for tables of any length, in any order of entries.               *)
(***************************************************************************)
THEOREM StopBeforeInstrHolds == Spec => []StopBeforeInstr
<1>1. SafetyInv => StopBeforeInstr
  BY DEF SafetyInv, WalkInv
<1> QED
  BY <1>1, SafetyInit, SafetyNext, PTL DEF Spec

(***************************************************************************)
(* A step stopped by a breakpoint or an error has done nothing, is a store *)
(* with all its words, or is a load that has not reached its last word and *)
(* has changed nothing but the registers of the words before.              *)
(***************************************************************************)
THEOREM FailedStepIsAtomicHolds == Spec => []FailedStepIsAtomic
<1>1. SafetyInv => FailedStepIsAtomic
  BY DEF SafetyInv, EffectInv
<1> QED
  BY <1>1, SafetyInit, SafetyNext, PTL DEF Spec

(***************************************************************************)
(* A jump breakpoint changes the PC and nothing else.                      *)
(***************************************************************************)
THEOREM JumpOnlyMovesPcHolds == Spec => []JumpOnlyMovesPc
<1>1. SafetyInv => JumpOnlyMovesPc
  BY DEF SafetyInv, EffectInv, ProgressOK, JumpOnlyMovesPc
<1> QED
  BY <1>1, SafetyInit, SafetyNext, PTL DEF Spec
=============================================================================
