------------------------------ MODULE MCTools ------------------------------
(***************************************************************************)
(* Parts of the project that run by themselves, one of them per behaviour:  *)
(* the decoder with the switch of the simulator ("decoder"), load and store *)
(* multiple ("frame"), scripts and runs inside each other ("scripts"), and  *)
(* the programs that follow the code of a firmware ("graph", "list",        *)
(* "flow").  What is not chosen stays in its initial state.                 *)
(***************************************************************************)
EXTENDS DecodeInstr, StackFrame, Scripts, CallGraph, CallList, CodeFlow, TLC

VARIABLE tool

framestate == <<save, regs, mem, at, regs0, mem0>>

toolvars == <<tool, decoded, framestate, scr, graph, list, flow>>

----------------------------------------------------------------------------
(* Words: all of 16 bits; of 32 bits every opcode and sub opcode with some  *)
(* registers and immediates, every row of the table of sub opcode 6 and     *)
(* every register of the user group.                                        *)

MCWords16 == (2^15)..(2^16 - 1)

MCWords32 ==
    {o * 2^25 + t * 2^20 + a * 2^15 + b * 2^10 + c * 2^5 + d :
        o \in 0..63, t \in {2, 29}, a \in {1, 28}, b \in {0, 19}, c \in {0, 1, 2, 3, 24}, d \in 0..31}
    \cup {39 * 2^25 + 6 * 2^20 + a * 2^15 + 2 : a \in 0..31}
    \cup {33 * 2^25 + 5 * 2^20 + u * 2^15 + s : u \in 0..31, s \in {32, 33}}

----------------------------------------------------------------------------
(* Frames: every addressing mode the simulator implements, register ranges  *)
(* of no, one and several registers, ranges that overlap the enable bits,   *)
(* base registers inside and outside the list, in an address space of 160   *)
(* bytes (more than an instruction can touch) with frames at its ends.      *)

Op(range, enable, a, after, down, modify, aligned) ==
    [rb |-> range[1], re |-> range[2], enable |-> enable, a |-> a, after |-> after,
     down |-> down, modify |-> modify, aligned |-> aligned]

Ranges == {<<6, 9>>, <<0, 0>>, <<31, 31>>, <<28, 29>>, <<7, 6>>}
Enables == {0, 1, 2, 10, 14}

\* bd without an update is missing in simulate(); smwa has two modes, of which
\* lmwa mirrors one.
MCSaves ==
    {i \in {Op(range, enable, a, after, down, modify, FALSE) :
               range \in Ranges, enable \in Enables, a \in {31, 5, 7}, after \in BOOLEAN,
               down \in BOOLEAN, modify \in BOOLEAN}
           \cup {Op(range, enable, 31, TRUE, TRUE, TRUE, TRUE) :
               range \in Ranges, enable \in Enables} :
        /\ ~(i.modify /\ i.a \in RegList(i))
        /\ i.modify \/ i.after \/ ~i.down}
MCBases == {0, 32, 156}

----------------------------------------------------------------------------
(* Scripts: a run inside a walk that moves the PC under the decoded         *)
(* instruction, a script that fails, one that reads itself until no file    *)
(* can be opened, a missing script, and "run forever" outside and inside.   *)

Line(cmd, arg) == [cmd |-> cmd, arg |-> arg]
A == 101
B == 102
C == 103

MCScrProgram == 0 :> 1 @@ 1 :> 1 @@ 2 :> -2

Setup(files, bps, typed) == [files |-> files, bps |-> bps, typed |-> typed]

MCPlainSetup ==
    Setup(A :> <<Line("run", 1)>>, <<<<1, A>>, <<2, B>>>>, {Line("run", 2)})

MCScrSetups ==
    {MCPlainSetup,
     Setup(A :> <<Line("setpc", 2), Line("run", 1)>>, <<<<1, A>>, <<2, A>>>>,
           {Line("run", 2), Line("s", 0)}),
     Setup(A :> <<Line("run", 2), Line("bad", 0)>>, <<<<1, A>>>>, {Line("run", 2), Line("run", 3)}),
     Setup(A :> <<Line("read", A), Line("read", B)>> @@ B :> <<Line("run", 0)>>, <<>>,
           {Line("read", A), Line("read", C)}),
     Setup(A :> <<Line("run", 1), Line("setpc", 0)>>, <<<<0, A>>>>,
           {Line("run", ScrForever), Line("setpc", 2)}),
     Setup(A :> <<Line("run", ScrForever)>>, <<<<1, A>>>>,
           {Line("run", ScrForever), Line("setpc", 7), Line("run", 2)})}

----------------------------------------------------------------------------
(* Firmware files: all of four instructions (for blocks: of five without    *)
(* computed jumps; for the call list: of five with calls, which nest deeper *)
(* than ClDepths) that end in a return.                                     *)

Targets == 1..4
File(last, body) == (0 :> In("other", 0)) @@ body @@ (last :> In("ret", 0))
Plain(ops) == {In(op, 0) : op \in ops}
JumpsTo(ops, addrs) == {In(op, a) : op \in ops, a \in addrs}

MCCgPrograms ==
    {File(4, body) : body \in [1..3 -> Plain({"other", "ret", "load", "jr", "jral"})
                                          \cup JumpsTo({"j", "br", "jal"}, Targets) \cup {In("set", 2)}]}
MCClPrograms ==
    {File(4, body) : body \in [1..3 -> Plain({"other", "ret", "load", "jral", "jal"})
                                          \cup JumpsTo({"jal"}, Targets)
                                          \cup {In("set", 2), In("j", 1)}]}
        \cup {File(5, body) : body \in [1..4 -> Plain({"ret"}) \cup JumpsTo({"jal"}, 1..5)]}
CfBody == Plain({"other", "ret"}) \cup JumpsTo({"j", "br"}, {1, 2, 4})
MCCfPrograms ==
    {File(5, body) : body \in [1..4 -> CfBody]}
        \cup {File(4, body) : body \in [1..3 -> {In("jr", 0), In("br", 5)} \cup CfBody]}
        \cup {File(6, <<In("br", 3), In("ret", 0), In("other", 0), op, In("j", t)>>) :
                  op \in Plain({"other", "jal"}), t \in 1..4}
        \cup {File(6, [a \in 1..5 |-> In("other", 0)])}

----------------------------------------------------------------------------
IdleFrame ==
    /\ save = NotStarted /\ regs = <<>> /\ mem = <<>> /\ at = "save"
    /\ regs0 = <<>> /\ mem0 = <<>>

Init ==
    /\ tool \in {"decoder", "frame", "scripts", "graph", "list", "flow"}
    /\ DcInit
    /\ IF tool = "frame" THEN FrameInit ELSE IdleFrame
    /\ ScrInit /\ (tool # "scripts" => scr.setup = MCPlainSetup)
    /\ IF tool = "graph" THEN CgInit ELSE graph = NotStarted
    /\ IF tool = "list" THEN ClInit ELSE list = NotStarted
    /\ IF tool = "flow" THEN CfInit ELSE flow = NotStarted

Next ==
    /\ UNCHANGED tool
    /\ \/ tool = "decoder" /\ DcNext /\ UNCHANGED <<framestate, scr, graph, list, flow>>
       \/ tool = "frame" /\ FrameNext /\ UNCHANGED <<decoded, scr, graph, list, flow>>
       \/ tool = "scripts" /\ ScrNext /\ UNCHANGED <<decoded, framestate, graph, list, flow>>
       \/ tool = "graph" /\ CgNext /\ UNCHANGED <<decoded, framestate, scr, list, flow>>
       \/ tool = "list" /\ ClNext /\ UNCHANGED <<decoded, framestate, scr, graph, flow>>
       \/ tool = "flow" /\ CfNext /\ UNCHANGED <<decoded, framestate, scr, graph, list>>

\* The programs run; nobody has to type.
Spec == Init /\ [][Next]_toolvars /\ ScrFairness /\ WF_graph(CgNext) /\ WF_flow(CfNext)

----------------------------------------------------------------------------
\* The tools stop on every firmware, with loops and recursion in its code and
\* with a table that fills up (callgraphs/main.c:273-432, codeflow/main.c).
FlowEnds == CgEnds /\ CfEnds
=============================================================================
