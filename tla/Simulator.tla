----------------------------- MODULE Simulator -----------------------------
(***************************************************************************)
(* The simulation loop of simulate/: run_sim and single_step, sim_step with *)
(* timer tick and interrupt entry, the walk over the breakpoint table      *)
(* before the instruction and on its memory access, the instruction, and   *)
(* the end of the iteration.  One thread; a step of the program is split   *)
(* where the walk over the table looks at one entry, because an entry can   *)
(* run a script that changes registers, memory or the table itself.  The   *)
(* SIGINT handler is the only asynchronous actor.                          *)
(*                                                                         *)
(*   idle --run,s--> fetch --> pcscan* --> exec --> memscan* --> end       *)
(*                     ^                    words <--'            |        *)
(*                     +------------------------------------------+        *)
(* A load or store multiple goes round memscan and words once per word.    *)
(***************************************************************************)
EXTENDS Timer, BpTable

CONSTANTS
    Sessions,     \* firmware images (functions from address to instruction), each
                  \* with the breakpoint table the session starts with
    Vector,       \* INT_VECT_TABLE_ADDR + 10 * INT_VECT_TABLE_BYTES_PER_ENTRY
    Addr,         \* data and device addresses
    Page,         \* the 16MB page of an address
    Device,       \* the device register behind an address, or NoDevice
    NoDevice,
    Keys,         \* characters the user types in the UART window
    FifoSize,     \* FIFO_RX_SIZE: 32
    Undef,        \* content of a word nobody wrote, in an allocated page
    NoPage,       \* content of a word in a page not allocated yet
    Garbage,      \* what an uninitialised local variable can hold
    Scripts,      \* the command each script file holds
    Commands,     \* commands the user types at the prompt
    RunLengths,   \* numbers of steps the user asks for
    Forever,      \* "run forever"
    None

DeviceRegs == TimerRegs \cup {"INT_CLEAR", "IRQ_STATUS", "UART_RX"}

Word == Int \cup {Undef, NoPage}

CommandName == {"reg", "word", "setpc", "remove", "enable", "disable",
                "enableall", "disableall", "create", "bad"}

Command == [cmd : CommandName, n : Int, v : Int, ev : Event]

ASSUME SimulatorAssumption ==
    /\ \A s \in Sessions :
          /\ DOMAIN s.code \subseteq Int
          /\ \A a \in DOMAIN s.code : WellFormed(s.code[a])
          /\ s.bp \in Seq(Event) /\ Len(s.bp) <= MaxBp /\ NoDuplicates(s.bp)
    /\ Vector \in Int
    /\ Addr \subseteq Int
    /\ Device \in [Addr -> DeviceRegs \cup {NoDevice}] /\ NoDevice \notin DeviceRegs
    /\ Keys \subseteq Int /\ FifoSize \in Nat \ {0}
    /\ DOMAIN Page = Addr
    /\ Undef # NoPage /\ Undef \notin Int /\ NoPage \notin Int
    /\ Garbage \subseteq Int /\ Garbage # {}
    /\ Scripts \in [ScriptName -> Command]
    /\ Commands \subseteq Command
    /\ RunLengths \subseteq (Nat \ {0}) \cup {Forever}
    /\ Forever \notin Nat /\ None \notin Int

VARIABLES
    code,    \* the image init_sim has read
    cpu,     \* PC, regs and special registers
    mem,     \* memory words
    tmr,     \* TIMER1
    io,      \* what the other devices keep: int_clear_reg and the UART's fifo_rx
    bp,      \* the breakpoint table
    mode,    \* what main is in: the prompt, run_sim, single_step
    left,    \* steps run_sim still has to do
    sigint,  \* sigint_received
    phase,   \* how far sim_step has come
    instr,   \* the decoded instruction
    idx,     \* the next table entry to look at
    acc,     \* the memory access being checked
    stop,    \* stop
    manip,   \* PC_manipulated
    ret,     \* what sim_step returned last
    resume,  \* history: the PC the last interrupt suspended, or None
    before   \* history: the machine and the table when this step began to execute

\* Field word counts the words of the instruction up to this access.
NoAccess == [type |-> "MEMORY_READ", addr |-> 0, val |-> 0, init |-> TRUE, word |-> 0]
NoInstr == [op |-> "unimpl", r |-> 0, s |-> 0, imm |-> 0, sr |-> "PSW", len |-> 4,
            list |-> <<>>, move |-> 0]
IoReset == [clear |-> 0, rx |-> <<>>]

loop == <<mode, left>>
scan == <<idx, stop, manip>>
vars == <<code, cpu, mem, tmr, io, bp, mode, left, sigint, phase, instr, idx, acc,
          stop, manip, ret, resume, before>>

Init ==
    /\ \E s \in Sessions : code = s.code /\ bp = s.bp
    /\ cpu = CpuReset
    /\ mem = [a \in Addr |-> NoPage]
    /\ tmr = TimerReset /\ io = IoReset
    /\ mode = "prompt" /\ left = 0 /\ sigint = FALSE
    /\ phase = "idle" /\ instr = NoInstr
    /\ idx = 1 /\ acc = NoAccess /\ stop = FALSE /\ manip = FALSE
    /\ ret = "NO_ERROR" /\ resume = None /\ before = None

----------------------------------------------------------------------------
(* Memory and devices: memory_set_word, memory_get_word, peripherals.c.    *)

IRQ_MASK_TMR1 == 524288
TmrBit(val) == (val \div IRQ_MASK_TMR1) % 2 = 1

DeviceWritten(a, val) ==
    IF Device[a] = "INT_CLEAR" THEN (IF TmrBit(val) THEN TimerClearIrq(tmr) ELSE tmr)
    ELSE TimerWrite(tmr, Device[a], val % WordSize)

\* A store: to the device behind the address, else to memory, where the first
\* store to a page allocates all of it.
StoreWord(a, val) ==
    IF Device[a] # NoDevice
    THEN /\ tmr' = DeviceWritten(a, val)
         /\ io' = IF Device[a] = "INT_CLEAR" THEN [io EXCEPT !.clear = val] ELSE io
         /\ UNCHANGED mem
    ELSE /\ mem' = [b \in Addr |-> IF b = a THEN val
                                   ELSE IF mem[b] = NoPage /\ Page[b] = Page[a]
                                   THEN Undef ELSE mem[b]]
         /\ UNCHANGED <<tmr, io>>

\* fifo_push, which drops the oldest character of a full FIFO.
FifoPush(f, key) == Append(IF Len(f) < FifoSize THEN f ELSE Tail(f), key)

\* A device answers a read of these registers only; any other read falls
\* through to the memory page.
ReadableDevice == {"INT_MASK", "IRQ_STATUS", "INT_CLEAR", "UART_RX"}
DeviceValue(a) ==
    CASE Device[a] = "IRQ_STATUS" -> IRQ_MASK_TMR1
      [] Device[a] = "INT_CLEAR"  -> io.clear
      [] Device[a] = "UART_RX"    -> IF io.rx = <<>> THEN 0 ELSE Head(io.rx)
      [] OTHER                    -> tmr.mask

\* fifo_pop: reading the UART takes the character out, whatever the breakpoints
\* say about the read afterwards.
IoAfterRead(a) ==
    IF Device[a] = "UART_RX" /\ io.rx # <<>> THEN [io EXCEPT !.rx = Tail(@)] ELSE io
Contents(a) == IF Device[a] \in ReadableDevice THEN DeviceValue(a) ELSE mem[a]

----------------------------------------------------------------------------
(* Commands: typed at the prompt or found in the script of a breakpoint.   *)
(* "bad" is a line parse_input rejects, or a file that cannot be opened.   *)

Perform(c) ==
    \/ /\ c.cmd = "reg" /\ c.n \in Reg
       /\ cpu' = [cpu EXCEPT !.regs[c.n] = c.v]
       /\ UNCHANGED <<mem, tmr, io, bp>>
    \/ /\ c.cmd = "setpc"
       /\ cpu' = [cpu EXCEPT !.pc = c.n]
       /\ UNCHANGED <<mem, tmr, io, bp>>
    \/ /\ c.cmd = "word" /\ c.n \in Addr
       /\ StoreWord(c.n, c.v)
       /\ UNCHANGED <<cpu, bp>>
    \/ /\ c.cmd \in {"remove", "enable", "disable", "enableall", "disableall", "create"}
       /\ bp' = CASE c.cmd = "create"  -> RegisterBreakpoint(bp, c.ev)
                  [] c.cmd = "remove"  -> RemoveBreakpoint(bp, c.n)
                  [] c.cmd = "enable"  -> SetDisabled(bp, c.n, FALSE)
                  [] c.cmd = "disable" -> SetDisabled(bp, c.n, TRUE)
                  [] OTHER             -> SetAllDisabled(bp, c.cmd = "disableall")
       /\ UNCHANGED <<cpu, mem, tmr, io>>
    \/ c.cmd = "bad" /\ UNCHANGED <<cpu, mem, tmr, io, bp>>

\* One line at the prompt.
TypeCommand ==
    /\ mode = "prompt"
    /\ \E c \in Commands : Perform(c)
    /\ UNCHANGED <<code, loop, sigint, phase, instr, acc, scan, ret, resume, before>>

\* Bound: keys are typed for programs that read them, no other sees them.
ReadsKeys ==
    \E a \in DOMAIN code : code[a].op \in LoadOps /\ code[a].imm \in Addr
                                                 /\ Device[code[a].imm] = "UART_RX"

\* A key pressed in the UART window (uart_keypress).
TypeKey ==
    /\ mode = "prompt" /\ ReadsKeys
    /\ \E k \in Keys : io' = [io EXCEPT !.rx = FifoPush(@, k)]
    /\ UNCHANGED <<code, cpu, mem, tmr, bp, loop, sigint, phase, instr, acc, scan, ret,
                   resume, before>>

\* run_sim and single_step.
TypeRun ==
    /\ mode = "prompt"
    /\ mode' = "run" /\ left' \in RunLengths /\ phase' = "fetch"
    /\ UNCHANGED <<code, cpu, mem, tmr, io, bp, sigint, instr, acc, scan, ret, resume, before>>

TypeStep ==
    /\ mode = "prompt"
    /\ mode' = "single" /\ left' = 1 /\ phase' = "fetch"
    /\ UNCHANGED <<code, cpu, mem, tmr, io, bp, sigint, instr, acc, scan, ret, resume, before>>

\* handler_sigint: Ctrl+C, at any moment.
CtrlC ==
    /\ mode # "crashed" /\ ~sigint
    /\ sigint' = TRUE
    /\ UNCHANGED <<code, cpu, mem, tmr, io, bp, loop, phase, instr, acc, scan, ret, resume, before>>

----------------------------------------------------------------------------
(* sim_step: tick, interrupt, decode.  The instruction is decoded before   *)
(* the breakpoints are looked at.                                          *)

Ticked == TimerTick(tmr)
InterruptTaken == Gie(cpu) /\ Ticked.pending
FetchCpu == IF InterruptTaken THEN TakeInterrupt(cpu, Vector) ELSE cpu

Fetch ==
    /\ phase = "fetch"
    /\ tmr' = Ticked
    /\ cpu' = FetchCpu
    /\ resume' = IF InterruptTaken THEN cpu.pc ELSE resume
    /\ before' = [cpu |-> FetchCpu, mem |-> mem, tmr |-> Ticked, io |-> io, bp |-> bp]
    /\ idx' = 1 /\ stop' = FALSE /\ manip' = FALSE
    /\ \/ /\ FetchCpu.pc \notin DOMAIN code
          /\ ret' = "ERROR_DECODE_INSTR" /\ phase' = "end"
          /\ UNCHANGED instr
       \/ /\ FetchCpu.pc \in DOMAIN code
          /\ instr' = code[FetchCpu.pc]
          /\ phase' = IF mode = "single" THEN "exec" ELSE "pcscan"
          /\ UNCHANGED ret
    /\ UNCHANGED <<code, mem, io, bp, loop, sigint, acc>>

----------------------------------------------------------------------------
(* The walk over the breakpoint table, one entry per step:                 *)
(* simulate_check_for_breakpoints and mem_rw_check_for_breakpoints with    *)
(* handle_breakpoint.                                                      *)

Scanning == phase \in {"pcscan", "memscan"} /\ idx <= Len(bp)

Fires == IF phase = "pcscan" THEN FiresBeforeInstr(bp[idx], cpu.pc, cpu.regs)
                             ELSE FiresOnAccess(bp[idx], acc)

\* The entry does not fire, or it only shows a message.
ScanPass ==
    /\ Scanning
    /\ ~Fires \/ bp[idx].action = "MESSAGE"
    /\ idx' = idx + 1
    /\ UNCHANGED <<code, cpu, mem, tmr, io, bp, loop, sigint, phase, instr, acc,
                   stop, manip, ret, resume, before>>

ScanStop ==
    /\ Scanning /\ Fires /\ bp[idx].action = "STOP"
    /\ stop' = TRUE /\ idx' = idx + 1
    /\ UNCHANGED <<code, cpu, mem, tmr, io, bp, loop, sigint, phase, instr, acc,
                   manip, ret, resume, before>>

ScanJump ==
    /\ Scanning /\ Fires /\ bp[idx].action = "JUMP" /\ phase = "pcscan"
    /\ cpu' = [cpu EXCEPT !.pc = bp[idx].target]
    /\ manip' = TRUE /\ idx' = idx + 1
    /\ UNCHANGED <<code, mem, tmr, io, bp, loop, sigint, phase, instr, acc,
                   stop, ret, resume, before>>

\* A jump on a memory access stores through the NULL pointers it is given.
ScanJumpNull ==
    /\ Scanning /\ Fires /\ bp[idx].action = "JUMP" /\ phase = "memscan"
    /\ mode' = "crashed" /\ phase' = "idle"
    /\ UNCHANGED <<code, cpu, mem, tmr, io, bp, left, sigint, instr, acc, scan, ret, resume, before>>

\* The script runs inside the walk, which goes on with the table it leaves.
ScanScript ==
    /\ Scanning /\ Fires /\ bp[idx].action = "SCRIPT"
    /\ Perform(Scripts[bp[idx].script])
    /\ stop' = (stop \/ Scripts[bp[idx].script].cmd = "bad")
    /\ idx' = idx + 1
    /\ UNCHANGED <<code, loop, sigint, phase, instr, acc, manip, ret, resume, before>>

\* Variant of ScanPcDone: the walk forgets the last entry.
ScanPcDoneEarly ==
    /\ phase = "pcscan" /\ idx >= Len(bp)
    /\ phase' = IF manip \/ stop THEN "end" ELSE "exec"
    /\ ret' = IF manip THEN "NO_ERROR" ELSE IF stop THEN "STOPPED_ON_BP" ELSE ret
    /\ UNCHANGED <<code, cpu, mem, tmr, io, bp, loop, sigint, instr, acc, scan, resume, before>>

\* Variant of ScanPcDone: a jump goes on with the instruction in hand.
ScanPcDoneNoReturn ==
    /\ phase = "pcscan" /\ idx > Len(bp)
    /\ phase' = IF stop /\ ~manip THEN "end" ELSE "exec"
    /\ ret' = IF stop /\ ~manip THEN "STOPPED_ON_BP" ELSE ret
    /\ UNCHANGED <<code, cpu, mem, tmr, io, bp, loop, sigint, instr, acc, scan, resume, before>>

\* The walk before the instruction is over: a jump wins over a stop.
ScanPcDone ==
    /\ phase = "pcscan" /\ idx > Len(bp)
    /\ phase' = IF manip \/ stop THEN "end" ELSE "exec"
    /\ ret' = IF manip THEN "NO_ERROR" ELSE IF stop THEN "STOPPED_ON_BP" ELSE ret
    /\ UNCHANGED <<code, cpu, mem, tmr, io, bp, loop, sigint, instr, acc, scan, resume, before>>

----------------------------------------------------------------------------
(* simulate: the instruction.                                              *)

\* Everything but loads, stores and unknown opcodes, with the epilogue.
ExecRegister ==
    /\ phase = "exec" /\ instr.op \notin MemOps \cup {"unimpl"}
    /\ cpu' = Executed(instr, cpu)
    /\ ret' = IF IsGoto(instr, cpu) /\ cpu'.pc = cpu.pc
              THEN "ENDLESS_LOOP" ELSE "NO_ERROR"
    /\ resume' = IF instr.op = "iret" THEN None ELSE resume
    /\ phase' = "end"
    /\ UNCHANGED <<code, mem, tmr, io, bp, loop, sigint, instr, acc, scan, before>>

ExecUnimplemented ==
    /\ phase = "exec" /\ instr.op = "unimpl"
    /\ ret' = "UNIMPLEMENTED" /\ phase' = "end"
    /\ UNCHANGED <<code, cpu, mem, tmr, io, bp, loop, sigint, instr, acc, scan, resume, before>>

\* The word a load or store comes to next.  A script run by a breakpoint on one
\* word does not move the next one (VA of sim_opc_lmw is a local variable).
NextWord == acc.word + 1
NextAddr == WordAddr(instr, NextWord)
AtWord(ops) ==
    /\ phase \in {"exec", "words"} /\ instr.op \in ops
    /\ NextWord <= Len(Words(instr)) /\ NextAddr \in Addr

\* A store of a word takes effect, then the table is walked.
ExecStore ==
    /\ AtWord(StoreOps)
    /\ LET val == cpu.regs[Words(instr)[NextWord]]
       IN /\ StoreWord(NextAddr, val)
          /\ acc' = [type |-> "MEMORY_WRITE", addr |-> NextAddr, val |-> val, init |-> TRUE,
                     word |-> NextWord]
    /\ idx' = 1 /\ phase' = "memscan"
    /\ UNCHANGED <<code, cpu, bp, loop, sigint, instr, stop, manip, ret, resume, before>>

\* A load reads a word first and walks the table with what it read, unless the
\* page does not exist.
ExecLoad ==
    /\ AtWord(LoadOps)
    /\ LET w == Contents(NextAddr)
       IN \/ /\ w = NoPage
             /\ ret' = "READ_FROM_UNINITIALIZED" /\ phase' = "end"
             /\ UNCHANGED <<io, acc, idx>>
          \/ /\ w # NoPage
             /\ \E val \in IF w = Undef THEN Garbage ELSE {w} :
                    acc' = [type |-> "MEMORY_READ", addr |-> NextAddr, val |-> val,
                            init |-> w # Undef, word |-> NextWord]
             /\ io' = IoAfterRead(NextAddr)
             /\ idx' = 1 /\ phase' = "memscan"
             /\ UNCHANGED ret
    /\ UNCHANGED <<code, cpu, mem, tmr, bp, loop, sigint, instr, stop, manip, resume, before>>

\* The walk over the table is over.  A stop is ignored by "s", but not by a load
\* multiple: sim_opc_lmw does not know that "s" ignores breakpoints.
Stopped == stop /\ mode # "single"
LoadStopped == stop /\ (mode # "single" \/ instr.op \in Multiple)

WordsLeft == acc.word < Len(Words(instr))
WalkedAccess(type) == phase = "memscan" /\ idx > Len(bp) /\ acc.type = type

\* Variant of FinishStore: a stop returns at once, as it does for a load.
FinishStoreReturns ==
    /\ WalkedAccess("MEMORY_WRITE")
    /\ IF WordsLeft /\ ~Stopped
       THEN phase' = "words" /\ UNCHANGED <<cpu, ret>>
       ELSE /\ cpu' = IF Stopped THEN cpu ELSE Completed(instr, cpu)
            /\ ret' = IF Stopped THEN "STOPPED_ON_BP" ELSE "NO_ERROR"
            /\ phase' = "end"
    /\ UNCHANGED <<code, mem, tmr, io, bp, loop, sigint, instr, acc, scan, resume, before>>

\* A store goes on to its last word, also after a stop.
FinishStore ==
    /\ WalkedAccess("MEMORY_WRITE")
    /\ IF WordsLeft
       THEN phase' = "words" /\ UNCHANGED <<cpu, ret>>
       ELSE /\ cpu' = Completed(instr, cpu)
            /\ ret' = IF Stopped THEN "STOPPED_ON_BP" ELSE "NO_ERROR"
            /\ phase' = "end"
    /\ UNCHANGED <<code, mem, tmr, io, bp, loop, sigint, instr, acc, scan, resume, before>>

\* Variant of FinishLoad: the base register moves with every word.
FinishLoadMoving ==
    /\ WalkedAccess("MEMORY_READ")
    /\ LET c == Moved(instr, LoadedWord(instr, cpu, acc.word, acc.val))
       IN \/ /\ LoadStopped \/ ~acc.init
             /\ ret' = IF LoadStopped THEN "STOPPED_ON_BP" ELSE "READ_FROM_UNINITIALIZED"
             /\ phase' = "end" /\ UNCHANGED cpu
          \/ /\ ~LoadStopped /\ acc.init
             /\ cpu' = IF WordsLeft THEN c ELSE Advance(c, instr)
             /\ phase' = IF WordsLeft THEN "words" ELSE "end"
             /\ ret' = IF WordsLeft THEN ret ELSE "NO_ERROR"
    /\ UNCHANGED <<code, mem, tmr, io, bp, loop, sigint, instr, acc, scan, resume, before>>

\* A word that is stopped or was never written ends the instruction and leaves
\* the words before it in their registers.
FinishLoad ==
    /\ WalkedAccess("MEMORY_READ")
    /\ LET c == LoadedWord(instr, cpu, acc.word, acc.val)
       IN \/ /\ LoadStopped \/ ~acc.init
             /\ ret' = IF LoadStopped THEN "STOPPED_ON_BP" ELSE "READ_FROM_UNINITIALIZED"
             /\ phase' = "end" /\ UNCHANGED cpu
          \/ /\ ~LoadStopped /\ acc.init /\ WordsLeft
             /\ cpu' = c /\ phase' = "words" /\ UNCHANGED ret
          \/ /\ ~LoadStopped /\ acc.init /\ ~WordsLeft
             /\ cpu' = Completed(instr, c) /\ phase' = "end" /\ ret' = "NO_ERROR"
    /\ UNCHANGED <<code, mem, tmr, io, bp, loop, sigint, instr, acc, scan, resume, before>>

----------------------------------------------------------------------------
(* The rest of an iteration of run_sim, or the end of single_step.         *)

\* The local variables of sim_step and simulate end with the step.
ForgetStep ==
    /\ instr' = NoInstr /\ idx' = 1 /\ acc' = NoAccess
    /\ stop' = FALSE /\ manip' = FALSE /\ ret' = "NO_ERROR" /\ before' = None

LastStep == mode = "single" \/ left = 1

\* Variant of Interrupted: "run forever" does not look at the flag.
InterruptedIfBounded == mode = "run" /\ ret = "NO_ERROR" /\ sigint /\ left # Forever

\* run_sim looks at sigint_received after a step without error.
Interrupted == mode = "run" /\ ret = "NO_ERROR" /\ sigint

\* Variant of EndIteration: the steps are not counted.
EndIterationUncounted ==
    /\ phase = "end"
    /\ IF ret # "NO_ERROR" \/ Interrupted \/ LastStep
       THEN mode' = "prompt" /\ phase' = "idle" /\ left' = 0
       ELSE /\ phase' = "fetch" /\ UNCHANGED loop
    /\ sigint' = (sigint /\ ~Interrupted)
    /\ ForgetStep
    /\ UNCHANGED <<code, cpu, mem, tmr, io, bp, resume>>

EndIteration ==
    /\ phase = "end"
    /\ IF ret # "NO_ERROR" \/ Interrupted \/ LastStep
       THEN mode' = "prompt" /\ phase' = "idle" /\ left' = 0
       ELSE /\ phase' = "fetch" /\ UNCHANGED mode
            /\ left' = IF left = Forever THEN left ELSE left - 1
    /\ sigint' = (sigint /\ ~Interrupted)
    /\ ForgetStep
    /\ UNCHANGED <<code, cpu, mem, tmr, io, bp, resume>>

\* The user starts the simulator again.
Restart ==
    /\ mode = "crashed"
    /\ cpu' = CpuReset /\ mem' = [a \in Addr |-> NoPage] /\ tmr' = TimerReset
    /\ io' = IoReset /\ bp' = <<>> /\ mode' = "prompt" /\ left' = 0 /\ sigint' = FALSE
    /\ phase' = "idle" /\ ForgetStep /\ resume' = None
    /\ UNCHANGED code

Scan == ScanPass \/ ScanStop \/ ScanJump \/ ScanJumpNull \/ ScanScript \/ ScanPcDone
Execute == ExecRegister \/ ExecUnimplemented \/ ExecStore \/ ExecLoad
               \/ FinishStore \/ FinishLoad

\* What the single thread does between two prompts.
Simulate == Fetch \/ Scan \/ Execute \/ EndIteration

Next == TypeCommand \/ TypeKey \/ TypeRun \/ TypeStep \/ CtrlC \/ Simulate \/ Restart

Spec == Init /\ [][Next]_vars

\* The loop never waits for anything: the thread keeps running.
FairSpec == Spec /\ WF_vars(Simulate)
=============================================================================
