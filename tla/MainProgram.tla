---------------------------- MODULE MainProgram ----------------------------
(***************************************************************************)
(* The program a firmware image describes, executed by a processor that    *)
(* has no debugger, no timer and no interrupts: one instruction after the  *)
(* other, on the registers and the memory of the main program alone.       *)
(* A load of a word that was never written has no meaning and is no step.  *)
(* A store multiple is done with all its words, a load multiple may be left *)
(* after some of them, before the PC moves; neither moves its base register *)
(* here.                                                                   *)
(***************************************************************************)
EXTENDS Isa

CONSTANTS Images,     \* programs: functions from address to instruction
          MainReg,    \* registers of the main program
          MainAddr,   \* its memory
          Undef       \* content of a word nobody wrote

VARIABLES prog, pc, regs, mem

mvars == <<prog, pc, regs, mem>>

Init ==
    /\ prog \in Images
    /\ pc = 0
    /\ regs = [r \in MainReg |-> 0]
    /\ mem = [a \in MainAddr |-> Undef]

Instruction == prog[pc]
At(ops) == pc \in DOMAIN prog /\ Instruction.op \in ops

WordNumbers == 1 .. Len(Words(Instruction))

\* The word that goes to register r, and the word that lies at address a.
WordFor(r) == CHOOSE k \in WordNumbers : Words(Instruction)[k] = r
WordOf(a)  == CHOOSE k \in WordNumbers : WordAddr(Instruction, k) = a

Readable(k) == WordAddr(Instruction, k) \in MainAddr /\ mem[WordAddr(Instruction, k)] # Undef

Load ==
    /\ At(LoadOps)
    /\ \A k \in WordNumbers : Readable(k)
    /\ regs' = [r \in MainReg |-> IF \E k \in WordNumbers : Words(Instruction)[k] = r
                                  THEN mem[WordAddr(Instruction, WordFor(r))] ELSE regs[r]]
    /\ pc' = pc + Instruction.len
    /\ UNCHANGED <<prog, mem>>

\* One word of a load multiple: the processor may leave the instruction after it
\* and execute all of it again.
LoadPart ==
    /\ At({"lmw"})
    /\ \E k \in WordNumbers :
          /\ Readable(k)
          /\ regs' = [regs EXCEPT ![Words(Instruction)[k]] = mem[WordAddr(Instruction, k)]]
    /\ UNCHANGED <<prog, pc, mem>>

\* A store elsewhere programs a device and leaves the memory alone.
Store ==
    /\ At(StoreOps)
    /\ mem' = [a \in MainAddr |-> IF \E k \in WordNumbers : WordAddr(Instruction, k) = a
                                  THEN regs[Words(Instruction)[WordOf(a)]] ELSE mem[a]]
    /\ pc' = pc + Instruction.len
    /\ UNCHANGED <<prog, regs>>

\* Any instruction without a memory access and without special registers.
Compute ==
    /\ pc \in DOMAIN prog
    /\ LET i == Instruction
           c == Executed(i, [pc |-> pc, regs |-> regs, sr |-> CpuReset.sr])
       IN /\ i.op \notin MemOps \cup {"unimpl", "mfsr", "mtsr", "iret"}
          /\ pc' = c.pc /\ regs' = c.regs
    /\ UNCHANGED <<prog, mem>>

Next == Load \/ LoadPart \/ Store \/ Compute

Spec == Init /\ [][Next]_mvars
=============================================================================
