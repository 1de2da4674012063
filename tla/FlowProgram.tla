---------------------------- MODULE FlowProgram ----------------------------
(***************************************************************************)
(* The code the graph tools walk (callgraphs/, list_calls/, codeflow/), as *)
(* far as they look at it.  An instruction takes one address; the programs *)
(* use one of the 32 registers.                                            *)
(*   other  an instruction without meaning for the tools                   *)
(*   set    SETHI, ORI, MOVI, ADDI: the register becomes a known value     *)
(*   load   LWI, LW: the register becomes ADDR_STOP, "no idea"             *)
(*   j br jal, jr jral, ret iret                                           *)
(***************************************************************************)
EXTENDS Integers, Sequences, FiniteSets

ADDR_STOP == -1

\* is_valid: not 0 and not 0xffffffff.
IsValid(addr) == addr # 0 /\ addr # ADDR_STOP

\* The state of a tool that is not used.
NotStarted == [status |-> "idle"]

FlowOps == {"other", "set", "load", "j", "br", "jal", "jr", "jral", "ret", "iret"}

\* A firmware file: a function from addresses to instructions.
IsProgram(p) ==
    DOMAIN p \subseteq Int /\ \A a \in DOMAIN p : p[a] \in [op : FlowOps, arg : Int]

In(op, arg) == [op |-> op, arg |-> arg]

\* Where control may go from address a of program p, by the instruction alone:
\* past a call too, and into the function it names.
FlowSucc(p, a) ==
    LET i == p[a]
    IN CASE i.op \in {"other", "set", "load", "jr", "jral"} -> {a + 1}
         [] i.op = "j" -> {i.arg}
         [] i.op = "br" -> {a + 1, i.arg}
         [] i.op = "jal" -> {a + 1} \cup (IF IsValid(i.arg) THEN {i.arg} ELSE {})
         [] OTHER -> {}

\* The same inside one function: calls are passed over.
LocalSucc(p, a) == IF p[a].op = "jal" THEN {a + 1} ELSE FlowSucc(p, a)

\* What succ reaches from start in the program: the least set of addresses
\* with start in it that no step leaves.
Closed(p, succ(_, _), S) == \A a \in S : succ(p, a) \cap DOMAIN p \subseteq S

Reached(p, start, succ(_, _)) ==
    {a \in DOMAIN p : \A S \in SUBSET DOMAIN p :
                        ({start} \cap DOMAIN p \subseteq S /\ Closed(p, succ, S)) => a \in S}
=============================================================================
