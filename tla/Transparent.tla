---------------------------- MODULE Transparent ----------------------------
(***************************************************************************)
(* What the firmware's main program computes under the simulator,          *)
(* interrupted by its timer and by a user who steps, stops at breakpoints  *)
(* and edits the breakpoint table, is what the program says (MainProgram). *)
(* This is a promise to sessions that only look (ObservingCommand), and to *)
(* images whose interrupt handler keeps out of the main program's way, as  *)
(* a handler that saves what it uses does.                                 *)
(***************************************************************************)
EXTENDS SimProps

CONSTANTS
    MainReg,    \* registers of the main program
    MainAddr,   \* memory of the main program
    Handler     \* the instructions of the interrupt handler, by address

\* An entry that shows a message or stops, and a command that pokes nothing.
ObservingEntry(ev) == ev.action \in {"MESSAGE", "STOP"}
ObservingCommand(c) ==
    /\ c.cmd \notin {"reg", "word", "setpc"}
    /\ c.cmd = "create" => ObservingEntry(c.ev)

\* Instruction i at a does not end the straight line it is on.
FallsThrough(i) == i.op \notin {"j", "jr", "ret", "iret", "unimpl"}

\* The handler works on registers and words of its own, leaves the interrupt
\* enable alone and is left by iret only.
HandlerInstr(i, a) ==
    /\ i.op \in {"set", "beqz", "j", "mfsr", "iret", "lwi", "swi", "unimpl"}
    /\ i.op \in {"set", "mfsr", "lwi"} => i.r \notin MainReg
    /\ i.op = "swi" => i.imm \notin MainAddr
    /\ i.op \in {"beqz", "j"} => a + i.imm \in Handler
    /\ FallsThrough(i) => a + i.len \in Handler

\* The main program has its own registers, reads its own memory, does not look
\* at special registers and does not compute addresses of the handler.  Loads and
\* stores multiple leave their base register alone.
MainInstr(i, a) ==
    /\ i.op \notin {"mfsr", "mtsr", "iret"}
    /\ i.r \in MainReg /\ i.s \in MainReg
    /\ i.op = "set" => i.imm \notin Handler
    /\ i.op \in LoadOps => \A k \in 1 .. Len(Words(i)) : WordAddr(i, k) \in MainAddr
    /\ i.op \in Multiple => /\ \A k \in 1 .. Len(i.list) : i.list[k] \in MainReg
                            /\ i.move = 0
    /\ i.op \in {"beqz", "j", "jal"} => a + i.imm \notin Handler
    /\ i.op = "jal" => a + 4 \notin Handler
    /\ FallsThrough(i) => a + i.len \notin Handler

ASSUME TransparentAssumption ==
    /\ LP \in MainReg /\ MainReg \subseteq Reg
    /\ MainAddr \subseteq Addr /\ \A a \in MainAddr : Device[a] = NoDevice
    /\ Handler \subseteq Int /\ Vector \in Handler /\ 0 \notin Handler
    /\ \A s \in Sessions :
          /\ \A i \in 1 .. Len(s.bp) : ObservingEntry(s.bp[i])
          /\ \A a \in DOMAIN s.code : IF a \in Handler THEN HandlerInstr(s.code[a], a)
                                                       ELSE MainInstr(s.code[a], a)
    /\ \A c \in Commands : ObservingCommand(c)

----------------------------------------------------------------------------
\* A store that has written all its words, or only some of them.
Storing    == phase \in {"memscan", "words"} /\ acc.type = "MEMORY_WRITE"
Stored     == Storing /\ ~WordsLeft
HalfStored == Storing /\ WordsLeft

\* The PC of the main program: the one the interrupt suspended, and behind a
\* store as soon as memory has changed.
MainPc ==
    IF resume # None THEN resume
    ELSE IF Stored THEN cpu.pc + instr.len
    ELSE cpu.pc

MainRegs == [r \in MainReg |-> cpu.regs[r]]

\* Its memory: a store multiple counts when all of its words are written.
MainContents(m, a) == IF m[a] = NoPage THEN Undef ELSE m[a]
MainMem == [a \in MainAddr |-> MainContents(IF HalfStored THEN before.mem ELSE mem, a)]

Main == INSTANCE MainProgram WITH
            prog <- code, pc <- MainPc, regs <- MainRegs, mem <- MainMem

(***************************************************************************)
(* Debugging is transparent: interrupt entry and return, stops before and  *)
(* after an access, retried instructions, single steps and edits of the    *)
(* table neither skip nor repeat an instruction of the main program and    *)
(* never change a value it sees.                                           *)
(***************************************************************************)
DebuggingIsTransparent == Main!Spec

(***************************************************************************)
(* Interrupts do not nest, and while the handler runs the return address   *)
(* kept in IPC is the PC that was suspended.                               *)
(***************************************************************************)
ReturnAddress == resume # None => cpu.sr["IPC"] = resume /\ ~Gie(cpu)

----------------------------------------------------------------------------
(* The inductive invariant of the refinement.                              *)

Observing ==
    /\ mode # "crashed"
    /\ \A i \in 1 .. Len(bp) : ObservingEntry(bp[i])

\* Whose instruction the PC is at.
Placed ==
    /\ resume = None => cpu.pc \notin Handler
    /\ resume # None => cpu.pc \in Handler /\ resume \notin Handler

\* No indirect jump of the main program can lead into the handler.
Separate ==
    /\ \A r \in MainReg : cpu.regs[r] \notin Handler
    /\ \A a \in MainAddr : mem[a] \notin Handler

\* The instruction in hand is the one at the PC, on the memory the step began
\* with, and the access that is being looked at is its access.
InHand ==
    /\ phase \in {"pcscan", "exec", "memscan", "words"} =>
          cpu.pc \in DOMAIN code /\ instr = code[cpu.pc]
    /\ phase \in {"pcscan", "exec"} => mem = before.mem
    /\ phase = "memscan" /\ acc.type = "MEMORY_READ" /\ acc.init /\ acc.addr \in MainAddr =>
          acc.val = mem[acc.addr]

\* The words a load has brought so far are in their registers, and those a store
\* has written so far are all that has changed.
WordsDone ==
    /\ phase \in {"memscan", "words"} /\ instr.op = "lmw" =>
          \A k \in 1 .. IF phase = "memscan" THEN acc.word - 1 ELSE acc.word :
              cpu.regs[instr.list[k]] = mem[WordAddr(instr, k)]
    /\ Storing =>
          /\ \A k \in 1 .. acc.word : WordAddr(instr, k) \in MainAddr =>
                 mem[WordAddr(instr, k)] = cpu.regs[Words(instr)[k]]
          /\ \A a \in MainAddr :
                 \/ \E k \in 1 .. acc.word : WordAddr(instr, k) = a
                 \/ MainContents(mem, a) = MainContents(before.mem, a)

MainInv == Observing /\ Placed /\ Separate /\ InHand /\ WordsDone /\ ReturnAddress
=============================================================================
