----------------------------- MODULE CallGraph -----------------------------
(***************************************************************************)
(* callgraphs/main.c: the walk of go() over the code from one function on. *)
(* The C recursion is a stack of frames; a step handles one instruction.   *)
(* A frame resumes behind the call or branch that pushed it.               *)
(***************************************************************************)
EXTENDS FlowProgram

CONSTANTS CgPrograms,     \* the firmware files tried, functions from addresses
          CgStarts,       \* the functions asked for, valid addresses
          CgTargetsMax    \* JUMP_TARGETS_MAX

ASSUME CgAssumption == CgStarts \subseteq Int /\ \A p \in CgPrograms : IsProgram(p)

VARIABLE graph
\* graph.status  "idle" (not started), "run", "done" (calls.txt complete) or "exit"
\* graph.prog    the file;  graph.start  the function asked for
\* graph.pc, graph.reg, graph.func (start_of_func), graph.stack
\* graph.known   jump_targets;  graph.edges  the lines of calls.txt
\* graph.seen    the addresses decoded so far (what -pd prints)

\* main: the registers are 0, the table and the output are empty.
CgInit ==
    \E p \in CgPrograms : \E s \in CgStarts :
       graph = [status |-> "run", prog |-> p, start |-> s, pc |-> s, reg |-> 0, func |-> s,
                stack |-> <<>>, known |-> {}, edges |-> {}, seen |-> {}]

CgAt == graph.prog[graph.pc]

\* The loop is about to handle an instruction of one of the kinds ops.
CgDecodes(ops) ==
    /\ graph.status = "run"
    /\ graph.pc \in DOMAIN graph.prog
    /\ CgAt.op \in ops

CgSeen == [graph EXCEPT !.seen = @ \cup {graph.pc}]

\* decode_disassm_memory_get_word: the end of the file ends the program.
CgEndOfFile ==
    /\ graph.status = "run"
    /\ graph.pc \notin DOMAIN graph.prog
    /\ graph' = [graph EXCEPT !.status = "exit"]

\* The destination of a jump or call; of a register jump, the register.
CgDest == IF CgAt.op \in {"jr", "jral"} THEN graph.reg ELSE CgAt.arg

CgIsKnown(addr) == addr \in graph.known

CgTableFull == Cardinality(graph.known) >= CgTargetsMax

\* run = 0: back to the frame below, with its registers; RUN() in main is last.
CgLeave ==
    IF graph.stack = <<>> THEN [CgSeen EXCEPT !.status = "done"]
    ELSE LET f == Head(graph.stack)
         IN [CgSeen EXCEPT !.pc = f.pc, !.reg = f.reg, !.func = f.func, !.stack = Tail(@)]

\* go(dest, next, func), called with the registers saved.
CgGo(dest, func) ==
    [CgSeen EXCEPT !.known = @ \cup {dest}, !.pc = dest, !.func = func,
                   !.stack = <<[pc |-> graph.pc + 1, reg |-> graph.reg, func |-> graph.func]>> \o @]

CgFull == [CgSeen EXCEPT !.status = "exit"]

CgLoad ==
    /\ CgDecodes({"other", "set", "load"})
    /\ graph' = [CgSeen EXCEPT !.pc = @ + 1,
                               !.reg = CASE CgAt.op = "set" -> CgAt.arg
                                         [] CgAt.op = "load" -> ADDR_STOP
                                         [] OTHER -> @]

\* Variant of CgJump: the target is not looked up.
CgJumpAgain ==
    /\ CgDecodes({"j", "jr"})
    /\ graph' = IF CgTableFull THEN CgFull
                ELSE [CgSeen EXCEPT !.known = @ \cup {CgDest}, !.pc = CgDest]

\* J and JR: stop at a known target, else go on there; no test of validity.
CgJump ==
    /\ CgDecodes({"j", "jr"})
    /\ graph' = IF CgIsKnown(CgDest) THEN CgLeave
                ELSE IF CgTableFull THEN CgFull
                ELSE [CgSeen EXCEPT !.known = @ \cup {CgDest}, !.pc = CgDest]

\* Variant of CgCall: the callee's calls stay with the caller.
CgCallSameFunc ==
    /\ CgDecodes({"jal", "jral"})
    /\ graph' = IF ~IsValid(CgDest) \/ CgIsKnown(CgDest) THEN [CgSeen EXCEPT !.pc = @ + 1]
                ELSE IF CgTableFull THEN CgFull
                ELSE [CgGo(CgDest, graph.func) EXCEPT !.edges = @ \cup {<<graph.func, CgDest>>}]

\* JAL and JRAL: a valid target that is not known yet gives an edge.
CgCall ==
    /\ CgDecodes({"jal", "jral"})
    /\ graph' = IF ~IsValid(CgDest) \/ CgIsKnown(CgDest) THEN [CgSeen EXCEPT !.pc = @ + 1]
                ELSE IF CgTableFull THEN CgFull
                ELSE [CgGo(CgDest, CgDest) EXCEPT !.edges = @ \cup {<<graph.func, CgDest>>}]

\* Variant of CgBranch: a known target ends the walk, as it does for a jump.
CgBranchLeaves ==
    /\ CgDecodes({"br"})
    /\ graph' = IF CgIsKnown(CgDest) THEN CgLeave
                ELSE IF CgTableFull THEN CgFull
                ELSE CgGo(CgDest, graph.func)

\* BR1 and BR2: the target first, unless it is known, then what follows.
CgBranch ==
    /\ CgDecodes({"br"})
    /\ graph' = IF CgIsKnown(CgDest) THEN [CgSeen EXCEPT !.pc = @ + 1]
                ELSE IF CgTableFull THEN CgFull
                ELSE CgGo(CgDest, graph.func)

CgReturn ==
    /\ CgDecodes({"ret", "iret"})
    /\ graph' = CgLeave

CgNext ==
    \/ CgEndOfFile \/ CgLoad \/ CgJump \/ CgCall \/ CgBranch \/ CgReturn

----------------------------------------------------------------------------
CgDirect(p) == \A a \in DOMAIN p : p[a].op \notin {"jr", "jral"}

\* A finished walk has decoded every instruction that direct jumps, branches,
\* calls and returns reach from the function: stopping at known targets and at
\* the returns of nested walks loses nothing.
CgWalksEverything ==
    graph.status = "done" /\ CgDirect(graph.prog)
        => Reached(graph.prog, graph.start, FlowSucc) \subseteq graph.seen

\* An edge of the graph is a call: the caller's own code, with its branches and
\* jumps but without its callees, contains a call of the target.
CgEdgesAreCalls ==
    \A e \in graph.edges :
        \E a \in Reached(graph.prog, e[1], LocalSucc) : graph.prog[a] = In("jal", e[2])

\* The graph is a tree of calls with the function asked for at its root: every
\* edge is a call, every caller is the root or called, no function has two callers.
CgTreeOfCalls ==
    graph.status # "idle" =>
        /\ CgDirect(graph.prog) => CgEdgesAreCalls
        /\ \A e \in graph.edges : e[1] = graph.start \/ \E f \in graph.edges : f[2] = e[1]
        /\ \A e, f \in graph.edges : e[2] = f[2] => e = f

\* The walk ends, loops and recursion in the code notwithstanding.
CgEnds == graph.status = "run" ~> graph.status \in {"done", "exit"}
=============================================================================
