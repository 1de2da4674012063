------------------------------ MODULE CodeFlow ------------------------------
(***************************************************************************)
(* codeflow/main.c: get_blocks sweeps the function linearly for branch     *)
(* targets, parse walks it recursively and writes nodes and edges.  A node *)
(* is the sequence of the addresses whose text it holds, named by the      *)
(* address it is declared with.                                            *)
(***************************************************************************)
EXTENDS FlowProgram

CONSTANTS CfPrograms, CfStarts, CfTargetsMax, CfBlocksMax

ASSUME CfAssumption == CfStarts \subseteq Int /\ \A p \in CfPrograms : IsProgram(p)

VARIABLE flow
\* flow.status  "idle", "sweep" (get_blocks), "parse", "done" or "exit"
\* flow.blocks  block_addr;  flow.known  jump_targets
\* flow.curr    addr_curr_block;  flow.buffer;  flow.stack  the calls of parse
\* flow.nodes, flow.edges  the lines of flow.txt

\* main
CfInit ==
    \E p \in CfPrograms : \E s \in CfStarts :
       flow = [status |-> "sweep", prog |-> p, start |-> s, pc |-> s, blocks |-> {},
               known |-> {}, curr |-> s, buffer |-> <<>>, stack |-> <<>>,
               nodes |-> {}, edges |-> {}]

CfAt == flow.prog[flow.pc]

\* ERRX: out of the file, a table that is full, a register jump.
CfFail == [flow EXCEPT !.status = "exit"]

CfEndOfFile ==
    /\ flow.status \in {"sweep", "parse"}
    /\ flow.pc \notin DOMAIN flow.prog
    /\ flow' = CfFail

\* get_target knows J, BR1 and BR2.
CfTarget == CfAt.arg

\* get_blocks: up to the first return.
CfSweep ==
    /\ flow.status = "sweep"
    /\ flow.pc \in DOMAIN flow.prog
    /\ flow' = CASE CfAt.op = "jr" -> CfFail
                 [] CfAt.op \in {"j", "br"} ->
                        IF CfTarget \notin flow.blocks /\ Cardinality(flow.blocks) >= CfBlocksMax
                        THEN CfFail
                        ELSE [flow EXCEPT !.blocks = @ \cup {CfTarget}, !.pc = @ + 1]
                 [] CfAt.op = "ret" -> [flow EXCEPT !.status = "parse", !.pc = flow.start]
                 [] OTHER -> [flow EXCEPT !.pc = @ + 1]

----------------------------------------------------------------------------
CfEdge(a, b) == <<a, b>>

\* The text collected so far becomes a box, with an edge to the current address.
CfBoxNodes == IF flow.buffer = <<>> THEN {} ELSE {[addr |-> flow.curr, text |-> flow.buffer]}
CfBoxEdges == IF flow.buffer = <<>> THEN {} ELSE {CfEdge(flow.curr, flow.pc)}

\* parse returns: to the branch that called it, or to main.
CfReturnFrom(f) ==
    IF f.stack = <<>> THEN [f EXCEPT !.status = "done", !.buffer = <<>>]
    ELSE [f EXCEPT !.pc = Head(f.stack), !.curr = Head(f.stack), !.buffer = <<>>, !.stack = Tail(@)]

\* Entering parse(addr).
CfParseAt(f, addr) == [f EXCEPT !.pc = addr, !.curr = addr, !.buffer = <<>>]

CfParses ==
    /\ flow.status = "parse"
    /\ flow.pc \in DOMAIN flow.prog

\* An address seen before ends the walk.
CfKnown ==
    /\ CfParses
    /\ flow.pc \in flow.known
    /\ flow' = CfReturnFrom([flow EXCEPT !.nodes = @ \cup CfBoxNodes, !.edges = @ \cup CfBoxEdges])

\* A new address is entered in jump_targets before it is looked at.
CfNew(op) ==
    /\ CfParses
    /\ flow.pc \notin flow.known
    /\ CfAt.op \in op
    /\ Cardinality(flow.known) < CfTargetsMax

CfFull ==
    /\ CfParses
    /\ flow.pc \notin flow.known
    /\ Cardinality(flow.known) >= CfTargetsMax
    /\ flow' = CfFail

CfRet ==
    /\ CfNew({"ret"})
    /\ flow' = CfReturnFrom(
                 [flow EXCEPT !.known = @ \cup {flow.pc},
                    !.nodes = @ \cup CfBoxNodes \cup {[addr |-> flow.pc, text |-> <<flow.pc>>]},
                    !.edges = @ \cup CfBoxEdges])

\* BR1, BR2: the box before, a diamond, two edges; the target is walked first.
CfBranch ==
    /\ CfNew({"br"})
    /\ LET t == CfTarget
           n == flow.pc + 1
           met == [flow EXCEPT !.known = @ \cup {flow.pc},
                     !.nodes = @ \cup CfBoxNodes \cup {[addr |-> flow.pc, text |-> <<flow.pc>>]},
                     !.edges = @ \cup {CfEdge(flow.pc, n), CfEdge(flow.pc, t)}
                                 \cup (IF flow.curr # flow.pc THEN {CfEdge(flow.curr, flow.pc)} ELSE {})]
       IN flow' = IF t \in met.known THEN [CfParseAt(met, n) EXCEPT !.stack = flow.stack]
                  ELSE [CfParseAt(met, t) EXCEPT !.stack = <<n>> \o @]

\* J: its text ends the box; the walk goes on at the target only.
CfJump ==
    /\ CfNew({"j", "jr"})
    /\ LET met == [flow EXCEPT !.known = @ \cup {flow.pc},
                     !.nodes = @ \cup {[addr |-> flow.curr, text |-> Append(flow.buffer, flow.pc)]},
                     !.edges = @ \cup {CfEdge(flow.curr, CfTarget)}]
       IN flow' = IF CfAt.op = "jr" THEN CfFail
                  ELSE IF CfTarget \in met.known THEN CfReturnFrom(met)
                  ELSE CfParseAt(met, CfTarget)

\* Variant of CfOther: only targets that were walked to before end a box.
CfOtherJoins ==
    /\ CfNew({"other", "set", "load", "jal", "jral", "iret"})
    /\ flow' = [flow EXCEPT !.known = @ \cup {flow.pc}, !.pc = @ + 1,
                            !.buffer = Append(@, flow.pc)]

\* Any other instruction joins the box, which a block address ends first.
CfOther ==
    /\ CfNew({"other", "set", "load", "jal", "jral", "iret"})
    /\ LET met == [flow EXCEPT !.known = @ \cup {flow.pc}, !.pc = @ + 1]
       IN flow' = IF flow.pc \in flow.blocks
                  THEN [met EXCEPT !.nodes = @ \cup CfBoxNodes, !.edges = @ \cup CfBoxEdges,
                                   !.curr = flow.pc, !.buffer = <<flow.pc>>]
                  ELSE [met EXCEPT !.buffer = Append(@, flow.pc)]

CfNext ==
    \/ CfEndOfFile \/ CfSweep
    \/ CfKnown \/ CfFull \/ CfRet \/ CfBranch \/ CfJump \/ CfOther

----------------------------------------------------------------------------
CfDone == flow.status = "done"

\* Where control goes next as this tool sees it.
CfSucc(p, a) ==
    CASE p[a].op = "j" -> {p[a].arg}
      [] p[a].op = "br" -> {a + 1, p[a].arg}
      [] p[a].op = "ret" -> {}
      [] OTHER -> {a + 1}

CfReachable == Reached(flow.prog, flow.start, CfSucc)

\* Every instruction of the function appears in exactly one place of one node.
CfEveryInstructionOnce ==
    \A a \in CfReachable :
        \E n \in flow.nodes : \E k \in DOMAIN n.text :
            /\ n.text[k] = a
            /\ \A m \in flow.nodes : \A j \in DOMAIN m.text : m.text[j] = a => m = n /\ j = k

\* The targets at which a box begins: those get_blocks met, in front of the first
\* return, but for a J, at which parse does not end a box.
CfBegins(b) == b \in flow.blocks /\ flow.prog[b].op # "j"

\* Instruction b is shown behind a: as neighbours in a box, or by an edge of the
\* node that ends with a to the node that b begins.  A jump to any other target
\* may lead into a box: its edge then names a node that is never declared.
CfShownBehind(a, b) ==
    \E n \in flow.nodes :
        \/ \E k \in 1..(Len(n.text) - 1) : n.text[k] = a /\ n.text[k + 1] = b
        \/ /\ n.text[Len(n.text)] = a /\ CfEdge(n.addr, b) \in flow.edges
           /\ \/ \E m \in flow.nodes : m.addr = b
              \/ b # a + 1 /\ ~CfBegins(b)

\* The finished picture has every instruction of the function once, and shows
\* the flow of control between them and no other.
CfFlowIsShown ==
    CfDone =>
        /\ CfEveryInstructionOnce
        /\ \A a, b \in CfReachable : b \in CfSucc(flow.prog, a) <=> CfShownBehind(a, b)

\* The sweep ends on every file: loops only lead to addresses already known.
CfEnds == flow.status = "sweep" ~> flow.status \in {"done", "exit"}
=============================================================================
