------------------------------ MODULE SimProps ------------------------------
(***************************************************************************)
(* What a debugging session on the simulator may rely on: properties of    *)
(* Simulator.  Some of them are promises to a session that runs no scripts *)
(* from breakpoints (Quiet): a script may change anything.                 *)
(***************************************************************************)
EXTENDS Simulator

SimResult == {"NO_ERROR", "UNIMPLEMENTED", "ENDLESS_LOOP", "READ_FROM_UNINITIALIZED",
              "ERROR_DECODE_INSTR", "STOPPED_ON_BP"}

Access == [type : MemTypes, addr : Addr \cup {0}, val : Int, init : BOOLEAN, word : Nat]

IoState == [clear : Int, rx : Seq(Int)]

Memory == [Addr -> Word]

Snapshot == [cpu : Cpu, mem : Memory, tmr : TimerState, io : IoState, bp : Seq(Event)]

Images == {s.code : s \in Sessions}

TypeOK ==
    /\ code \in Images
    /\ cpu \in Cpu
    /\ mem \in Memory
    /\ tmr \in TimerState
    /\ io \in IoState
    /\ bp \in Seq(Event)
    /\ mode \in {"prompt", "run", "single", "crashed"}
    /\ left \in Nat \cup {Forever}
    /\ sigint \in BOOLEAN
    /\ phase \in {"idle", "fetch", "pcscan", "exec", "memscan", "words", "end"}
    /\ instr \in Instr
    /\ idx \in Nat \ {0}
    /\ acc \in Access
    /\ stop \in BOOLEAN /\ manip \in BOOLEAN
    /\ ret \in SimResult
    /\ resume \in Int \cup {None}
    /\ before \in Snapshot \cup {None}

\* No breakpoint runs a script in this step.
InStep == phase \in {"pcscan", "exec", "memscan", "words", "end"}
Quiet == InStep /\ \A i \in 1 .. Len(before.bp) : before.bp[i].action # "SCRIPT"

\* Where main is and where the step is belong together.
ControlOK ==
    /\ phase = "idle" <=> mode \in {"prompt", "crashed"}
    /\ phase = "pcscan" => mode = "run"
    /\ phase # "idle" => left = Forever \/ left > 0
    /\ InStep => before \in Snapshot
    /\ mode = "prompt" \/ phase \in {"fetch", "pcscan", "exec"} => acc.word = 0
    /\ phase \in {"memscan", "words"} =>
         /\ instr.op \in (IF acc.type = "MEMORY_READ" THEN LoadOps ELSE StoreOps)
         /\ acc.word \in 1 .. Len(Words(instr))
         /\ acc.addr = WordAddr(instr, acc.word)
         /\ \A k \in 1 .. acc.word : WordAddr(instr, k) \in Addr
    /\ phase = "words" => acc.word < Len(Words(instr))

----------------------------------------------------------------------------
Halts(ev) ==
    ev.action \in {"STOP", "JUMP"} /\ FiresBeforeInstr(ev, cpu.pc, cpu.regs)

(***************************************************************************)
(* "BP before instr is executed": no instruction is executed by "run" in a *)
(* state in which an enabled stop or jump breakpoint on a register or on   *)
(* the PC holds, wherever in the table the breakpoint is and whatever the  *)
(* other entries do, also for the first instruction of an interrupt handler.*)
(***************************************************************************)
StopBeforeInstr ==
    (phase = "exec" /\ mode = "run" /\ Quiet) => \A i \in 1 .. Len(bp) : ~Halts(bp[i])

\* A walk that has found nothing to stop for has not missed anything.
WalkOK ==
    (phase = "pcscan" /\ Quiet /\ ~stop /\ ~manip) =>
        \A i \in 1 .. Len(bp) : i < idx => ~Halts(bp[i])

----------------------------------------------------------------------------
Now == [cpu |-> cpu, mem |-> mem, tmr |-> tmr, io |-> io, bp |-> bp]

Failures == SimResult \ {"NO_ERROR", "ENDLESS_LOOP"}

\* Word k of the instruction lies in memory, not in a device.
InMemory(k) == Device[WordAddr(instr, k)] = NoDevice

\* The first n words of a store are where they belong.
StoredWords(n) ==
    \A k \in 1 .. n : InMemory(k) => mem[WordAddr(instr, k)] = before.cpu.regs[Words(instr)[k]]

\* A store that has been executed to the end.
StoreDone ==
    /\ instr.op \in StoreOps
    /\ StoredWords(Len(Words(instr)))
    /\ cpu = Completed(instr, before.cpu)

\* The registers that differ have got their word, and are among the first n of
\* the instruction.
OnlyLoaded(n) ==
    \A r \in Reg :
        cpu.regs[r] # before.cpu.regs[r] =>
            \E k \in 1 .. n : /\ Words(instr)[k] = r
                              /\ InMemory(k) => cpu.regs[r] = mem[WordAddr(instr, k)]

\* The devices are as before, but for the characters a read of the UART has taken.
OnlyTaken ==
    /\ io.clear = before.io.clear
    /\ (\A k \in 1 .. Len(Words(instr)) : Device[WordAddr(instr, k)] # "UART_RX")
          => io = before.io

\* A load that has brought at most its first n words into their registers.
LoadedOnly(n) ==
    /\ instr.op \in LoadOps
    /\ mem = before.mem /\ tmr = before.tmr /\ bp = before.bp
    /\ cpu.pc = before.cpu.pc /\ cpu.sr = before.cpu.sr
    /\ OnlyLoaded(n) /\ OnlyTaken

(***************************************************************************)
(* "BP before read" and "BP after write": a step that ends for a           *)
(* breakpoint or an error has done nothing at all, or is a store whose     *)
(* words are all written, or is a load that has not reached its last word: *)
(* then only registers of its list have changed, each to the word it will  *)
(* get again, the PC and, unless it is in the list, the base register have *)
(* not moved, and of the devices at most the UART has lost characters (a   *)
(* load stopped by a breakpoint has read its word).  The next "run"        *)
(* therefore neither repeats a store nor loses an instruction, and begins  *)
(* a load again with its first word.                                       *)
(***************************************************************************)
FailedStepIsAtomic ==
    (phase = "end" /\ ret \in Failures /\ Quiet) =>
        Now = before \/ StoreDone \/ LoadedOnly(Len(Words(instr)) - 1)

(***************************************************************************)
(* A jump breakpoint replaces the instruction: the step moves the PC to    *)
(* the target of one of the enabled jump entries and does nothing else.    *)
(***************************************************************************)
JumpOnlyMovesPc ==
    (phase = "end" /\ manip /\ Quiet) =>
        /\ Now = [before EXCEPT !.cpu.pc = cpu.pc]
        /\ \E i \in 1 .. Len(bp) : /\ ~bp[i].disabled /\ bp[i].action = "JUMP"
                                   /\ bp[i].target = cpu.pc

\* How far the step has changed the machine, phase by phase.
ProgressOK ==
    Quiet =>
        /\ bp = before.bp
        /\ phase = "pcscan" /\ ~manip => Now = before
        /\ phase = "exec" => Now = before /\ ~manip
        /\ phase \in {"memscan", "words"} =>
              /\ ~manip
              /\ instr.op \in StoreOps => cpu = before.cpu /\ StoredWords(acc.word)
              /\ instr.op \in LoadOps =>
                    LoadedOnly(IF phase = "memscan" THEN acc.word - 1 ELSE acc.word)
        /\ phase = "memscan" /\ instr.op \in LoadOps /\ acc.init /\ InMemory(acc.word)
              => acc.val = mem[acc.addr]
        /\ phase \in {"pcscan", "end"} /\ manip =>
              /\ Now = [before EXCEPT !.cpu.pc = cpu.pc]
              /\ \E i \in 1 .. Len(bp) : /\ ~bp[i].disabled /\ bp[i].action = "JUMP"
                                         /\ bp[i].target = cpu.pc

----------------------------------------------------------------------------
(***************************************************************************)
(* The table never overflows and never holds two entries for the same      *)
(* breakpoint, through every order of create, remove, enable and disable,  *)
(* typed or run by a script in the middle of a walk.                       *)
(***************************************************************************)
TableOK == Len(bp) <= MaxBp /\ NoDuplicates(bp)

----------------------------------------------------------------------------
(* Progress, under fairness of the simulating thread alone.                *)

Running == mode = "run"

(***************************************************************************)
(* A run that was given a number of steps comes back to the prompt, with   *)
(* breakpoints that jump back or call scripts that edit the table as well. *)
(***************************************************************************)
BoundedRunEnds == (Running /\ left # Forever) ~> ~Running

\* Ctrl+C ends any run, whatever the program and the breakpoints do.
CtrlCEndsRun == (Running /\ sigint) ~> ~Running

(***************************************************************************)
(* A pending timer interrupt is not lost: the handler is entered, as long  *)
(* as the simulation goes on, also when the timer came while the program   *)
(* had interrupts disabled, or while the handler was still busy with the   *)
(* interrupt before.                                                       *)
(***************************************************************************)
InterruptServed ==
    (Running /\ tmr.pending /\ resume = None) ~> (~Running \/ resume # None)
=============================================================================
