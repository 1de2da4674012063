---------------------------- MODULE GraphProofs ----------------------------
(***************************************************************************)
(* The walks of the graph tools are right for every firmware file: nothing *)
(* reachable is lost, and what is drawn is there.                          *)
(***************************************************************************)
EXTENDS CallGraph, CallList, CodeFlow, TLAPS

----------------------------------------------------------------------------
(* What is reached from an address is the least set that no step leaves.   *)

LEMMA FlowReachedLeast ==
    ASSUME NEW p, NEW s, NEW S \in SUBSET DOMAIN p, s \in DOMAIN p => s \in S,
           \A a \in S : FlowSucc(p, a) \cap DOMAIN p \subseteq S
    PROVE  Reached(p, s, FlowSucc) \subseteq S
BY DEF Reached, Closed

LEMMA LocalReachedStart ==
    ASSUME NEW p, NEW s \in DOMAIN p
    PROVE  s \in Reached(p, s, LocalSucc)
BY DEF Reached

LEMMA LocalReachedStep ==
    ASSUME NEW p, NEW s, NEW a \in Reached(p, s, LocalSucc),
           NEW b \in LocalSucc(p, a), b \in DOMAIN p
    PROVE  b \in Reached(p, s, LocalSucc)
<1> SUFFICES ASSUME NEW S \in SUBSET DOMAIN p, {s} \cap DOMAIN p \subseteq S,
                    Closed(p, LocalSucc, S)
             PROVE  b \in S
  BY DEF Reached
<1>1. a \in S
  BY DEF Reached
<1> QED
  BY <1>1 DEF Closed

----------------------------------------------------------------------------
(* The C recursion as a stack of frames: pushing and popping.              *)

LEMMA PushFrame ==
    ASSUME NEW F, NEW s \in Seq(F), NEW x \in F
    PROVE  /\ <<x>> \o s \in Seq(F) /\ Len(<<x>> \o s) = Len(s) + 1
           /\ (<<x>> \o s)[1] = x
           /\ \A i \in 1 .. Len(s) : (<<x>> \o s)[i + 1] = s[i]
           /\ \A i \in 1 .. Len(<<x>> \o s) : i = 1 \/ i - 1 \in 1 .. Len(s)
<1>1. <<x>> \in Seq(F) /\ Len(<<x>>) = 1 /\ <<x>>[1] = x
  OBVIOUS
<1>2. <<x>> \o s \in Seq(F) /\ Len(<<x>> \o s) = Len(s) + 1 /\ Len(s) \in Nat
  BY <1>1
<1>3. (<<x>> \o s)[1] = x
  BY <1>1
<1>4. \A i \in 1 .. Len(s) : (<<x>> \o s)[i + 1] = s[i]
  BY <1>1
<1> QED
  BY <1>2, <1>3, <1>4

LEMMA PopFrame ==
    ASSUME NEW F, NEW s \in Seq(F), s # <<>>
    PROVE  /\ Len(s) \in Nat \ {0} /\ Head(s) = s[1] /\ Head(s) \in F
           /\ Tail(s) \in Seq(F) /\ Len(Tail(s)) = Len(s) - 1
           /\ \A i \in 1 .. Len(Tail(s)) : i + 1 \in 1 .. Len(s) /\ Tail(s)[i] = s[i + 1]
           /\ \A i \in 1 .. Len(s) : i = 1 \/ i - 1 \in 1 .. Len(Tail(s))
OBVIOUS

----------------------------------------------------------------------------
(* The call graph.                                                         *)

CgFrame == [pc : Int, reg : Int, func : Int]

CgState ==
    [status : {"run", "done", "exit"}, prog : CgPrograms, start : CgStarts,
     pc : Int, reg : Int, func : Int, stack : Seq(CgFrame),
     known : SUBSET Int, edges : SUBSET (Int \X Int), seen : SUBSET Int]

\* Where the walk is and where it will come back to.
CgPending == {graph.pc} \cup {graph.stack[i].pc : i \in 1 .. Len(graph.stack)}

\* The addresses a finished walk must have seen.
CgLeadsTo ==
    {graph.start} \cup graph.known \cup UNION {FlowSucc(graph.prog, a) : a \in graph.seen}

\* Nothing is forgotten: it has been seen, or the walk will come to it.
CgCovered ==
    (CgDirect(graph.prog) /\ graph.status # "exit") =>
        \A t \in CgLeadsTo \cap DOMAIN graph.prog :
            t \in graph.seen \/ (graph.status = "run" /\ t \in CgPending)

\* An address and the function it is booked to: the code of the function
\* contains it, and the function is the root or is called.
CgBooked(g, pc, func) ==
    /\ CgDirect(g.prog) /\ pc \in DOMAIN g.prog => pc \in Reached(g.prog, func, LocalSucc)
    /\ func = g.start \/ \E e \in g.edges : e[2] = func

CgBooks ==
    graph.status = "run" =>
        /\ CgBooked(graph, graph.pc, graph.func)
        /\ \A i \in 1 .. Len(graph.stack) : CgBooked(graph, graph.stack[i].pc, graph.stack[i].func)

CgTree ==
    /\ CgDirect(graph.prog) => CgEdgesAreCalls
    /\ \A e \in graph.edges : e[1] = graph.start \/ \E f \in graph.edges : f[2] = e[1]
    /\ \A e, f \in graph.edges : e[2] = f[2] => e = f
    /\ \A e \in graph.edges : e[2] \in graph.known

CgInv ==
    /\ graph \in CgState
    /\ graph.seen \subseteq DOMAIN graph.prog
    /\ CgCovered
    /\ CgBooks
    /\ CgTree

CgSpec == CgInit /\ [][CgNext]_graph

\* The walk gives up.
LEMMA CgExits ==
    ASSUME CgInv, graph' \in CgState, graph'.status = "exit",
           graph'.prog = graph.prog, graph'.start = graph.start,
           graph'.edges = graph.edges, graph'.known = graph.known,
           graph'.seen \subseteq DOMAIN graph.prog
    PROVE  CgInv'
<1>1. CgTree'
  BY DEF CgInv, CgTree, CgEdgesAreCalls
<1> QED
  BY <1>1 DEF CgInv, CgCovered, CgBooks

\* What every other step does.
CgGoesOn ==
    /\ graph.status = "run" /\ graph.pc \in DOMAIN graph.prog
    /\ graph' \in CgState /\ graph'.prog = graph.prog /\ graph'.start = graph.start
    /\ graph'.seen = graph.seen \cup {graph.pc}

\* Nothing is forgotten as long as what is under way stays under way.
LEMMA CgKeepsTrack ==
    ASSUME CgInv, CgGoesOn, graph'.status \in {"run", "done"},
           graph'.known \subseteq graph.known \cup {graph'.pc},
           graph'.status = "done" => graph'.known \subseteq graph.known,
           CgDirect(graph.prog) =>
               \A t \in FlowSucc(graph.prog, graph.pc) :
                   t \in graph.known \/ (graph'.status = "run" /\ t \in CgPending'),
           \A t \in CgPending : t = graph.pc \/ (graph'.status = "run" /\ t \in CgPending')
    PROVE  CgCovered'
<1> SUFFICES ASSUME CgDirect(graph.prog), NEW t \in CgLeadsTo', t \in DOMAIN graph.prog
             PROVE  t \in graph'.seen \/ (graph'.status = "run" /\ t \in CgPending')
  BY DEF CgCovered, CgGoesOn
<1>1. \/ t \in CgLeadsTo
      \/ graph'.status = "run" /\ t = graph'.pc
      \/ t \in FlowSucc(graph.prog, graph.pc)
  <2>1. CASE t \in graph'.known
    BY <2>1 DEF CgLeadsTo
  <2>2. CASE t \in UNION {FlowSucc(graph.prog, a) : a \in graph'.seen}
    <3>1. PICK a \in graph'.seen : t \in FlowSucc(graph.prog, a)
      BY <2>2
    <3>2. a \in graph.seen \/ a = graph.pc
      BY DEF CgGoesOn
    <3> QED
      BY <3>1, <3>2 DEF CgLeadsTo
  <2>3. CASE t = graph'.start
    BY <2>3 DEF CgLeadsTo, CgGoesOn
  <2> QED
    BY <2>1, <2>2, <2>3 DEF CgLeadsTo, CgGoesOn
<1>2. CASE t \in CgLeadsTo
  <2>1. t \in graph.seen \/ t \in CgPending
    BY <1>2 DEF CgInv, CgCovered, CgGoesOn
  <2> QED
    BY <2>1 DEF CgGoesOn
<1>3. CASE graph'.status = "run" /\ t = graph'.pc
  BY <1>3 DEF CgPending
<1>4. CASE t \in FlowSucc(graph.prog, graph.pc)
  <2>1. CASE t \in graph.known
    BY <1>2, <2>1 DEF CgLeadsTo
  <2> QED
    BY <1>4, <2>1
<1> QED
  BY <1>1, <1>2, <1>3, <1>4

\* A step within the function.
LEMMA CgForward ==
    ASSUME CgInv, CgGoesOn, graph'.status = "run",
           graph'.func = graph.func, graph'.stack = graph.stack, graph'.edges = graph.edges,
           graph'.known \in {graph.known, graph.known \cup {graph'.pc}},
           CgDirect(graph.prog) =>
               /\ graph'.pc \in LocalSucc(graph.prog, graph.pc)
               /\ FlowSucc(graph.prog, graph.pc) \subseteq graph.known \cup {graph'.pc}
    PROVE  CgInv'
<1>1. CgCovered'
  <2>1. \A t \in CgPending : t = graph.pc \/ t \in CgPending'
    BY DEF CgPending
  <2>2. graph'.pc \in CgPending'
    BY DEF CgPending
  <2> QED
    BY <2>1, <2>2, CgKeepsTrack
<1>2. CgBooks'
  <2>1. CgBooked(graph, graph.pc, graph.func)
    BY DEF CgInv, CgBooks, CgGoesOn
  <2>2. CgDirect(graph.prog) /\ graph'.pc \in DOMAIN graph.prog
          => graph'.pc \in Reached(graph.prog, graph.func, LocalSucc)
    BY <2>1, LocalReachedStep DEF CgBooked, CgGoesOn
  <2>3. CgBooked(graph', graph'.pc, graph'.func)
    BY <2>1, <2>2 DEF CgBooked, CgGoesOn
  <2>4. ASSUME NEW i \in 1 .. Len(graph.stack)
        PROVE  CgBooked(graph', graph.stack[i].pc, graph.stack[i].func)
    BY DEF CgInv, CgBooks, CgBooked, CgGoesOn
  <2> QED
    BY <2>3, <2>4 DEF CgBooks
<1>3. CgTree'
  BY DEF CgInv, CgTree, CgEdgesAreCalls, CgGoesOn
<1> QED
  BY <1>1, <1>2, <1>3 DEF CgInv, CgGoesOn

\* go() is called: for a branch or for a call.
CgPushes(dest, func) ==
    /\ graph'.status = "run" /\ graph'.pc = dest /\ graph'.func = func
    /\ graph'.known = graph.known \cup {dest}
    /\ graph'.stack =
           <<[pc |-> graph.pc + 1, reg |-> graph.reg, func |-> graph.func]>> \o graph.stack

LEMMA CgPush ==
    ASSUME CgInv, CgGoesOn, NEW dest, NEW func, CgPushes(dest, func),
           graph.edges \subseteq graph'.edges, CgBooked(graph', dest, func),
           CgDirect(graph.prog) =>
               /\ graph.pc + 1 \in LocalSucc(graph.prog, graph.pc)
               /\ FlowSucc(graph.prog, graph.pc) \subseteq {dest, graph.pc + 1}
    PROVE  CgCovered' /\ CgBooks'
<1> DEFINE new == [pc |-> graph.pc + 1, reg |-> graph.reg, func |-> graph.func]
<1>1. /\ new \in CgFrame /\ new.pc = graph.pc + 1 /\ new.func = graph.func
      /\ graph.stack \in Seq(CgFrame) /\ graph'.stack = <<new>> \o graph.stack
  BY DEF CgInv, CgState, CgFrame, CgPushes
<1> HIDE DEF new
<1>2. /\ Len(graph'.stack) = Len(graph.stack) + 1 /\ graph'.stack[1] = new
      /\ \A i \in 1 .. Len(graph.stack) : graph'.stack[i + 1] = graph.stack[i]
      /\ \A i \in 1 .. Len(graph'.stack) : i = 1 \/ i - 1 \in 1 .. Len(graph.stack)
      /\ Len(graph.stack) \in Nat
  BY <1>1, PushFrame
<1>3. /\ dest \in CgPending' /\ graph.pc + 1 \in CgPending'
      /\ \A t \in CgPending : t = graph.pc \/ t \in CgPending'
  <2>1. dest \in CgPending'
    BY DEF CgPending, CgPushes
  <2>2. graph.pc + 1 \in CgPending'
    BY <1>1, <1>2 DEF CgPending
  <2>3. ASSUME NEW i \in 1 .. Len(graph.stack)  PROVE  graph.stack[i].pc \in CgPending'
    <3>1. i + 1 \in 1 .. Len(graph'.stack) /\ graph'.stack[i + 1] = graph.stack[i]
      BY <1>2
    <3> QED
      BY <3>1 DEF CgPending
  <2> QED
    BY <2>1, <2>2, <2>3 DEF CgPending
<1>4. CgCovered'
  <2>1. graph'.status = "run" /\ graph'.known \subseteq graph.known \cup {graph'.pc}
    BY DEF CgPushes
  <2> QED
    BY <1>3, <2>1, CgKeepsTrack
<1>5. CgBooks'
  <2>1. ASSUME NEW pc, NEW f, CgBooked(graph, pc, f)  PROVE  CgBooked(graph', pc, f)
    BY <2>1 DEF CgBooked, CgGoesOn
  <2>2. CgBooked(graph, graph.pc + 1, graph.func)
    <3>1. CgBooked(graph, graph.pc, graph.func)
      BY DEF CgInv, CgBooks, CgGoesOn
    <3> QED
      BY <3>1, LocalReachedStep DEF CgBooked, CgGoesOn
  <2>3. CgBooked(graph', graph'.stack[1].pc, graph'.stack[1].func)
    <3>1. CgBooked(graph', graph.pc + 1, graph.func)
      BY <2>1, <2>2
    <3> QED
      BY <1>1, <1>2, <3>1 DEF CgBooked
  <2>4. ASSUME NEW i \in 1 .. Len(graph'.stack)
        PROVE  CgBooked(graph', graph'.stack[i].pc, graph'.stack[i].func)
    <3>1. CASE i = 1
      BY <2>3, <3>1
    <3>2. CASE i - 1 \in 1 .. Len(graph.stack)
      <4>1. graph'.stack[i] = graph.stack[i - 1]
        <5>1. (i - 1) + 1 = i
          OBVIOUS
        <5> QED
          BY <1>2, <3>2, <5>1
      <4>2. CgBooked(graph, graph.stack[i - 1].pc, graph.stack[i - 1].func)
        BY <3>2 DEF CgInv, CgBooks, CgGoesOn
      <4>3. CgBooked(graph', graph.stack[i - 1].pc, graph.stack[i - 1].func)
        BY <2>1, <4>2
      <4> QED
        BY <4>1, <4>3
    <3> QED
      BY <1>2, <3>1, <3>2
  <2>5. CgBooked(graph', graph'.pc, graph'.func)
    BY DEF CgPushes
  <2> QED
    BY <2>4, <2>5 DEF CgBooks
<1> QED
  BY <1>4, <1>5

\* go() returns, or the loop of main ends.
CgPops ==
    /\ graph'.known = graph.known /\ graph'.edges = graph.edges
    /\ IF graph.stack = <<>> THEN graph'.status = "done"
       ELSE /\ graph'.status = "run" /\ graph'.stack = Tail(graph.stack)
            /\ graph'.pc = Head(graph.stack).pc /\ graph'.func = Head(graph.stack).func

LEMMA CgPop ==
    ASSUME CgInv, CgGoesOn, CgPops,
           CgDirect(graph.prog) => FlowSucc(graph.prog, graph.pc) \subseteq graph.known
    PROVE  CgInv'
<1>1. CgTree'
  BY DEF CgInv, CgTree, CgEdgesAreCalls, CgGoesOn, CgPops
<1>2. graph' \in CgState /\ graph'.seen \subseteq DOMAIN graph'.prog
  BY DEF CgInv, CgGoesOn
<1>3. CASE graph.stack = <<>>
  <2>1. graph'.status = "done"
    BY <1>3 DEF CgPops
  <2>2. \A t \in CgPending : t = graph.pc
    BY <1>3 DEF CgPending
  <2>3. CgCovered'
    BY <2>1, <2>2, CgKeepsTrack DEF CgPops
  <2> QED
    BY <1>1, <1>2, <2>1, <2>3 DEF CgInv, CgBooks
<1>4. CASE graph.stack # <<>>
  <2>1. /\ graph'.status = "run" /\ graph'.stack = Tail(graph.stack)
        /\ graph'.pc = graph.stack[1].pc /\ graph'.func = graph.stack[1].func
    BY <1>4 DEF CgPops
  <2>2. /\ Len(graph.stack) \in Nat \ {0} /\ 1 \in 1 .. Len(graph.stack)
        /\ \A i \in 1 .. Len(graph'.stack) :
               i + 1 \in 1 .. Len(graph.stack) /\ graph'.stack[i] = graph.stack[i + 1]
        /\ \A i \in 1 .. Len(graph.stack) : i = 1 \/ i - 1 \in 1 .. Len(graph'.stack)
    <3>1. graph.stack \in Seq(CgFrame)
      BY DEF CgInv, CgState
    <3> QED
      BY <1>4, <2>1, <3>1, PopFrame
  <2>3. \A t \in CgPending : t = graph.pc \/ t \in CgPending'
    <3>1. ASSUME NEW i \in 1 .. Len(graph.stack)  PROVE  graph.stack[i].pc \in CgPending'
      <4>1. CASE i = 1
        BY <2>1, <4>1 DEF CgPending
      <4>2. CASE i - 1 \in 1 .. Len(graph'.stack)
        <5>1. (i - 1) + 1 = i
          OBVIOUS
        <5>2. graph'.stack[i - 1] = graph.stack[i]
          BY <2>2, <4>2, <5>1
        <5> QED
          BY <4>2, <5>2 DEF CgPending
      <4> QED
        BY <2>2, <4>1, <4>2
    <3> QED
      BY <3>1 DEF CgPending
  <2>4. CgCovered'
    BY <2>1, <2>3, CgKeepsTrack DEF CgPops
  <2>5. ASSUME NEW i \in 1 .. Len(graph.stack)
        PROVE  CgBooked(graph', graph.stack[i].pc, graph.stack[i].func)
    BY DEF CgInv, CgBooks, CgBooked, CgGoesOn, CgPops
  <2>6. CgBooked(graph', graph'.pc, graph'.func)
    BY <2>1, <2>2, <2>5
  <2>7. \A i \in 1 .. Len(graph'.stack) :
            CgBooked(graph', graph'.stack[i].pc, graph'.stack[i].func)
    BY <2>2, <2>5
  <2> QED
    BY <1>1, <1>2, <2>4, <2>6, <2>7 DEF CgInv, CgBooks
<1> QED
  BY <1>3, <1>4

LEMMA CgSees ==
    ASSUME CgInv, graph.status = "run", graph.pc \in DOMAIN graph.prog
    PROVE  /\ CgAt.op \in FlowOps /\ CgAt.arg \in Int
           /\ graph.pc \in Int /\ graph.pc + 1 \in Int /\ graph.reg \in Int /\ graph.func \in Int
           /\ CgDest \in Int
           /\ CgSeen \in CgState /\ CgSeen.status = "run" /\ CgSeen.prog = graph.prog
           /\ CgSeen.start = graph.start /\ CgSeen.pc = graph.pc /\ CgSeen.reg = graph.reg
           /\ CgSeen.func = graph.func /\ CgSeen.stack = graph.stack
           /\ CgSeen.known = graph.known /\ CgSeen.edges = graph.edges
           /\ CgSeen.seen = graph.seen \cup {graph.pc}
<1>1. graph \in CgState
  BY DEF CgInv
<1>2. graph.pc \in Int /\ graph.reg \in Int /\ graph.func \in Int /\ graph.prog \in CgPrograms
  BY <1>1 DEF CgState
<1>3. CgAt.op \in FlowOps /\ CgAt.arg \in Int
  BY <1>2, CgAssumption DEF IsProgram, CgAt
<1>4. CgSeen \in CgState
  BY <1>1, <1>2 DEF CgState, CgSeen
<1> QED
  BY <1>1, <1>2, <1>3, <1>4 DEF CgState, CgSeen, CgDest

\* The table is full.
LEMMA CgFullStep ==
    ASSUME CgInv, graph.status = "run", graph.pc \in DOMAIN graph.prog, graph' = CgFull
    PROVE  CgInv'
<1>1. graph' \in CgState /\ graph'.status = "exit" /\ graph'.seen \subseteq DOMAIN graph.prog
  BY CgSees DEF CgFull, CgState, CgInv
<1>2. /\ graph'.prog = graph.prog /\ graph'.start = graph.start
      /\ graph'.edges = graph.edges /\ graph'.known = graph.known
  BY CgSees DEF CgFull, CgState
<1> QED
  BY <1>1, <1>2, CgExits

LEMMA CgLeaveStep ==
    ASSUME CgInv, graph.status = "run", graph.pc \in DOMAIN graph.prog, graph' = CgLeave,
           CgDirect(graph.prog) => FlowSucc(graph.prog, graph.pc) \subseteq graph.known
    PROVE  CgInv'
<1>1. graph.stack \in Seq(CgFrame)
  BY DEF CgInv, CgState
<1>2. CgGoesOn /\ CgPops
  <2>1. CASE graph.stack = <<>>
    <3>1. graph' = [CgSeen EXCEPT !.status = "done"]
      BY <2>1 DEF CgLeave
    <3>2. graph' \in CgState
      BY <3>1, CgSees DEF CgState
    <3> QED
      BY <2>1, <3>1, <3>2, CgSees DEF CgState, CgGoesOn, CgPops
  <2>2. CASE graph.stack # <<>>
    <3>1. PICK f \in CgFrame, rest \in Seq(CgFrame) :
              f = Head(graph.stack) /\ rest = Tail(graph.stack)
      BY <1>1, <2>2, PopFrame
    <3>2. graph' = [CgSeen EXCEPT !.pc = f.pc, !.reg = f.reg, !.func = f.func, !.stack = rest]
      BY <2>2, <3>1, CgSees DEF CgLeave, CgState
    <3>3. f.pc \in Int /\ f.reg \in Int /\ f.func \in Int
      BY DEF CgFrame
    <3>4. graph' \in CgState
      BY <3>2, <3>3, CgSees DEF CgState
    <3>5. /\ graph'.pc = f.pc /\ graph'.func = f.func /\ graph'.stack = rest
          /\ graph'.status = "run" /\ graph'.prog = graph.prog /\ graph'.start = graph.start
          /\ graph'.known = graph.known /\ graph'.edges = graph.edges
          /\ graph'.seen = graph.seen \cup {graph.pc}
      BY <3>2, CgSees DEF CgState
    <3> QED
      BY <2>2, <3>1, <3>4, <3>5 DEF CgGoesOn, CgPops
  <2> QED
    BY <2>1, <2>2
<1> QED
  BY <1>2, CgPop

\* CgGo, with the line of calls.txt that a call adds.
LEMMA CgGoStep ==
    ASSUME CgInv, graph.status = "run", graph.pc \in DOMAIN graph.prog,
           NEW dest \in Int, NEW func \in Int, NEW edges \in SUBSET (Int \X Int),
           graph' = [CgGo(dest, func) EXCEPT !.edges = edges]
    PROVE  CgGoesOn /\ CgPushes(dest, func) /\ graph'.edges = edges
<1> DEFINE new == [pc |-> graph.pc + 1, reg |-> graph.reg, func |-> graph.func]
<1>1. graph.stack \in Seq(CgFrame) /\ graph.known \in SUBSET Int
  BY DEF CgInv, CgState
<1>2. new \in CgFrame
  BY CgSees DEF CgFrame
<1>3. PICK s \in Seq(CgFrame), known \in SUBSET Int :
          s = <<new>> \o graph.stack /\ known = graph.known \cup {dest}
  <2> HIDE DEF new
  <2> QED
    BY <1>1, <1>2, PushFrame
<1>4. graph' = [CgSeen EXCEPT !.known = known, !.pc = dest, !.func = func,
                              !.stack = s, !.edges = edges]
  BY <1>3, CgSees DEF CgGo, CgState
<1>5. graph' \in CgState
  BY <1>4, CgSees DEF CgState
<1>6. /\ graph'.pc = dest /\ graph'.func = func /\ graph'.stack = s
      /\ graph'.status = "run" /\ graph'.prog = graph.prog /\ graph'.start = graph.start
      /\ graph'.known = graph.known \cup {dest} /\ graph'.edges = edges
      /\ graph'.seen = graph.seen \cup {graph.pc}
  BY <1>3, <1>4, CgSees DEF CgState
<1> QED
  BY <1>3, <1>5, <1>6 DEF CgGoesOn, CgPushes

LEMMA CgEndOfFileStep ==
    ASSUME CgInv, CgEndOfFile
    PROVE  CgInv'
<1>1. graph' \in CgState /\ graph'.status = "exit" /\ graph'.seen \subseteq DOMAIN graph.prog
  BY DEF CgEndOfFile, CgInv, CgState
<1>2. /\ graph'.prog = graph.prog /\ graph'.start = graph.start
      /\ graph'.edges = graph.edges /\ graph'.known = graph.known
  BY DEF CgEndOfFile, CgInv, CgState
<1> QED
  BY <1>1, <1>2, CgExits

LEMMA CgLoadStep ==
    ASSUME CgInv, CgLoad
    PROVE  CgInv'
<1>1. graph.status = "run" /\ graph.pc \in DOMAIN graph.prog /\ CgAt.op \in {"other", "set", "load"}
  BY DEF CgLoad, CgDecodes
<1>2. PICK reg \in Int : graph' = [CgSeen EXCEPT !.pc = graph.pc + 1, !.reg = reg]
  <2>1. DEFINE reg == CASE CgAt.op = "set" -> CgAt.arg
                        [] CgAt.op = "load" -> ADDR_STOP
                        [] OTHER -> graph.reg
  <2>2. reg \in Int
    BY <1>1, CgSees DEF ADDR_STOP
  <2>3. graph' = [CgSeen EXCEPT !.pc = graph.pc + 1, !.reg = reg]
    BY <1>1, CgSees DEF CgLoad, CgState
  <2> QED
    BY <2>2, <2>3
<1>3. graph' \in CgState
  BY <1>1, <1>2, CgSees DEF CgState
<1>4. /\ graph'.status = "run" /\ graph'.prog = graph.prog /\ graph'.start = graph.start
      /\ graph'.pc = graph.pc + 1 /\ graph'.func = graph.func /\ graph'.stack = graph.stack
      /\ graph'.known = graph.known /\ graph'.edges = graph.edges
      /\ graph'.seen = graph.seen \cup {graph.pc}
  BY <1>1, <1>2, CgSees DEF CgState
<1>5. FlowSucc(graph.prog, graph.pc) = {graph.pc + 1} /\ LocalSucc(graph.prog, graph.pc) = {graph.pc + 1}
  BY <1>1 DEF FlowSucc, LocalSucc, CgAt
<1>6. CgGoesOn
  BY <1>1, <1>3, <1>4 DEF CgGoesOn
<1> QED
  BY <1>4, <1>5, <1>6, CgForward

LEMMA CgJumpStep ==
    ASSUME CgInv, CgJump
    PROVE  CgInv'
<1>1. graph.status = "run" /\ graph.pc \in DOMAIN graph.prog /\ CgAt.op \in {"j", "jr"}
  BY DEF CgJump, CgDecodes
<1>2. CgDirect(graph.prog) => /\ FlowSucc(graph.prog, graph.pc) = {CgDest}
                              /\ LocalSucc(graph.prog, graph.pc) = {CgDest}
  BY <1>1 DEF CgDirect, FlowSucc, LocalSucc, CgDest, CgAt
<1>3. CASE CgIsKnown(CgDest)
  <2>1. graph' = CgLeave /\ CgDest \in graph.known
    BY <1>3 DEF CgJump, CgIsKnown
  <2> QED
    BY <1>1, <1>2, <2>1, CgLeaveStep
<1>4. CASE ~CgIsKnown(CgDest) /\ CgTableFull
  BY <1>1, <1>4, CgFullStep DEF CgJump
<1>5. CASE ~CgIsKnown(CgDest) /\ ~CgTableFull
  <2>1. graph' = [CgSeen EXCEPT !.known = graph.known \cup {CgDest}, !.pc = CgDest]
    BY <1>1, <1>5, CgSees DEF CgJump, CgState
  <2>2. PICK known \in SUBSET Int : known = graph.known \cup {CgDest}
    BY <1>1, CgSees DEF CgInv, CgState
  <2>3. graph' \in CgState
    BY <1>1, <2>1, <2>2, CgSees DEF CgState
  <2>4. /\ graph'.status = "run" /\ graph'.prog = graph.prog /\ graph'.start = graph.start
        /\ graph'.pc = CgDest /\ graph'.func = graph.func /\ graph'.stack = graph.stack
        /\ graph'.known = graph.known \cup {CgDest} /\ graph'.edges = graph.edges
        /\ graph'.seen = graph.seen \cup {graph.pc}
    BY <1>1, <2>1, CgSees DEF CgState
  <2>5. CgGoesOn
    BY <1>1, <2>3, <2>4 DEF CgGoesOn
  <2> QED
    BY <1>2, <2>4, <2>5, CgForward
<1> QED
  BY <1>3, <1>4, <1>5

\* A call or branch that is passed over.
LEMMA CgPassStep ==
    ASSUME CgInv, graph.status = "run", graph.pc \in DOMAIN graph.prog,
           graph' = [CgSeen EXCEPT !.pc = @ + 1],
           CgDirect(graph.prog) =>
               /\ graph.pc + 1 \in LocalSucc(graph.prog, graph.pc)
               /\ FlowSucc(graph.prog, graph.pc) \subseteq graph.known \cup {graph.pc + 1}
    PROVE  CgInv'
<1>1. graph' = [CgSeen EXCEPT !.pc = graph.pc + 1]
  BY CgSees DEF CgState
<1>2. graph' \in CgState
  BY <1>1, CgSees DEF CgState
<1>3. /\ graph'.status = "run" /\ graph'.prog = graph.prog /\ graph'.start = graph.start
      /\ graph'.pc = graph.pc + 1 /\ graph'.func = graph.func /\ graph'.stack = graph.stack
      /\ graph'.known = graph.known /\ graph'.edges = graph.edges
      /\ graph'.seen = graph.seen \cup {graph.pc}
  BY <1>1, CgSees DEF CgState
<1> QED
  BY <1>2, <1>3, CgForward DEF CgGoesOn

LEMMA CgCallStep ==
    ASSUME CgInv, CgCall
    PROVE  CgInv'
<1>1. graph.status = "run" /\ graph.pc \in DOMAIN graph.prog /\ CgAt.op \in {"jal", "jral"}
  BY DEF CgCall, CgDecodes
<1>2. CgDirect(graph.prog) =>
          /\ CgAt = In("jal", CgDest)
          /\ LocalSucc(graph.prog, graph.pc) = {graph.pc + 1}
          /\ FlowSucc(graph.prog, graph.pc)
                 = {graph.pc + 1} \cup (IF IsValid(CgDest) THEN {CgDest} ELSE {})
  <2> SUFFICES ASSUME CgDirect(graph.prog)
               PROVE  /\ CgAt = In("jal", CgDest)
                      /\ LocalSucc(graph.prog, graph.pc) = {graph.pc + 1}
                      /\ FlowSucc(graph.prog, graph.pc)
                             = {graph.pc + 1} \cup (IF IsValid(CgDest) THEN {CgDest} ELSE {})
    OBVIOUS
  <2>1. CgAt.op = "jal" /\ CgDest = CgAt.arg
    BY <1>1 DEF CgDirect, CgAt, CgDest
  <2>2. CgAt \in [op : FlowOps, arg : Int]
    BY <1>1, CgAssumption DEF CgInv, CgState, IsProgram, CgAt
  <2>3. CgAt = In("jal", CgDest)
    BY <2>1, <2>2 DEF In
  <2> QED
    BY <2>1, <2>3 DEF FlowSucc, LocalSucc, CgAt
<1>3. CASE ~IsValid(CgDest) \/ CgIsKnown(CgDest)
  <2>1. graph' = [CgSeen EXCEPT !.pc = @ + 1]
    BY <1>3 DEF CgCall
  <2>2. CgDirect(graph.prog) =>
            /\ graph.pc + 1 \in LocalSucc(graph.prog, graph.pc)
            /\ FlowSucc(graph.prog, graph.pc) \subseteq graph.known \cup {graph.pc + 1}
    BY <1>2, <1>3 DEF CgIsKnown
  <2> QED
    BY <1>1, <2>1, <2>2, CgPassStep
<1>4. CASE ~(~IsValid(CgDest) \/ CgIsKnown(CgDest)) /\ CgTableFull
  BY <1>1, <1>4, CgFullStep DEF CgCall
<1>5. CASE ~(~IsValid(CgDest) \/ CgIsKnown(CgDest)) /\ ~CgTableFull
  <2>1. PICK dest \in Int, func \in Int :
            dest = CgDest /\ func = graph.func
    BY <1>1, CgSees
  <2>2. PICK edges \in SUBSET (Int \X Int) : edges = graph.edges \cup {<<func, dest>>}
    <3>1. graph.edges \subseteq Int \X Int /\ <<func, dest>> \in Int \X Int
      BY DEF CgInv, CgState
    <3> QED
      BY <3>1
  <2>3. graph' = [CgGo(dest, dest) EXCEPT !.edges = edges]
    <3>1. CgGo(dest, dest).edges = graph.edges
      BY <1>1, CgSees DEF CgGo, CgState
    <3>2. graph' = [CgGo(dest, dest) EXCEPT !.edges = @ \cup {<<func, dest>>}]
      BY <1>5, <2>1 DEF CgCall
    <3> QED
      BY <2>2, <3>1, <3>2
  <2>4. CgGoesOn /\ CgPushes(dest, dest) /\ graph'.edges = edges
    BY <1>1, <2>3, CgGoStep
  <2>5. CgCovered' /\ CgBooks'
    <3>1. CgBooked(graph', dest, dest)
      <4>1. <<func, dest>> \in graph'.edges /\ <<func, dest>>[2] = dest
        BY <2>2, <2>4
      <4> QED
        BY <4>1, LocalReachedStart DEF CgBooked
    <3>2. CgDirect(graph.prog) =>
              /\ graph.pc + 1 \in LocalSucc(graph.prog, graph.pc)
              /\ FlowSucc(graph.prog, graph.pc) \subseteq {dest, graph.pc + 1}
      BY <1>2, <2>1
    <3>3. graph.edges \subseteq graph'.edges
      BY <2>2, <2>4
    <3> QED
      BY <2>4, <3>1, <3>2, <3>3, CgPush
  <2>6. CgTree'
    <3>1. /\ graph'.prog = graph.prog /\ graph'.start = graph.start
          /\ graph'.known = graph.known \cup {dest} /\ dest \notin graph.known
          /\ graph'.edges = graph.edges \cup {<<func, dest>>}
      BY <1>5, <2>1, <2>2, <2>4 DEF CgGoesOn, CgPushes, CgIsKnown
    <3>2. CgBooked(graph, graph.pc, func) /\ CgTree
      BY <1>1, <2>1 DEF CgInv, CgBooks
    <3>3. CgDirect(graph.prog) => CgEdgesAreCalls'
      <4>1. CgDirect(graph.prog) => /\ graph.pc \in Reached(graph.prog, func, LocalSucc)
                                    /\ graph.prog[graph.pc] = In("jal", dest)
        BY <1>1, <1>2, <2>1, <3>2 DEF CgBooked, CgAt
      <4>2. \A e \in graph'.edges : e \in graph.edges \/ (e[1] = func /\ e[2] = dest)
        BY <3>1
      <4> QED
        BY <3>1, <3>2, <4>1, <4>2 DEF CgTree, CgEdgesAreCalls
    <3>4. \A e \in graph'.edges : e[1] = graph.start \/ \E f \in graph'.edges : f[2] = e[1]
      BY <3>1, <3>2 DEF CgTree, CgBooked
    <3>5. \A e, f \in graph'.edges : e[2] = f[2] => e = f
      BY <3>1, <3>2 DEF CgTree
    <3>6. \A e \in graph'.edges : e[2] \in graph'.known
      BY <3>1, <3>2 DEF CgTree
    <3> QED
      BY <3>1, <3>3, <3>4, <3>5, <3>6 DEF CgTree
  <2> QED
    BY <2>4, <2>5, <2>6 DEF CgInv, CgGoesOn
<1> QED
  BY <1>3, <1>4, <1>5

LEMMA CgBranchStep ==
    ASSUME CgInv, CgBranch
    PROVE  CgInv'
<1>1. /\ graph.status = "run" /\ graph.pc \in DOMAIN graph.prog /\ CgAt.op = "br"
      /\ CgDest = CgAt.arg
  BY DEF CgBranch, CgDecodes, CgDest
<1>2. /\ LocalSucc(graph.prog, graph.pc) = {graph.pc + 1, CgDest}
      /\ FlowSucc(graph.prog, graph.pc) = {graph.pc + 1, CgDest}
  BY <1>1 DEF FlowSucc, LocalSucc, CgAt
<1>3. CASE CgIsKnown(CgDest)
  <2>1. graph' = [CgSeen EXCEPT !.pc = @ + 1]
    BY <1>3 DEF CgBranch
  <2> QED
    BY <1>1, <1>2, <1>3, <2>1, CgPassStep DEF CgIsKnown
<1>4. CASE ~CgIsKnown(CgDest) /\ CgTableFull
  BY <1>1, <1>4, CgFullStep DEF CgBranch
<1>5. CASE ~CgIsKnown(CgDest) /\ ~CgTableFull
  <2>1. PICK dest \in Int, func \in Int, edges \in SUBSET (Int \X Int) :
            dest = CgDest /\ func = graph.func /\ edges = graph.edges
    BY <1>1, CgSees DEF CgInv, CgState
  <2>2. graph' = [CgGo(dest, func) EXCEPT !.edges = edges]
    <3>1. graph' = CgGo(dest, func)
      BY <1>5, <2>1 DEF CgBranch
    <3>2. CgGo(dest, func) = [CgGo(dest, func) EXCEPT !.edges = edges]
      BY <1>1, <2>1, CgSees DEF CgGo, CgState
    <3> QED
      BY <3>1, <3>2
  <2>3. CgGoesOn /\ CgPushes(dest, func) /\ graph'.edges = graph.edges
    BY <1>1, <2>1, <2>2, CgGoStep
  <2>4. CgBooked(graph', dest, func)
    <3>1. CgBooked(graph, graph.pc, func)
      BY <1>1, <2>1 DEF CgInv, CgBooks
    <3> QED
      BY <1>2, <2>1, <2>3, <3>1, LocalReachedStep DEF CgBooked, CgGoesOn
  <2>5. CgCovered' /\ CgBooks'
    BY <1>2, <2>1, <2>3, <2>4, CgPush
  <2>6. CgTree'
    BY <2>3 DEF CgInv, CgTree, CgEdgesAreCalls, CgGoesOn, CgPushes
  <2> QED
    BY <2>3, <2>5, <2>6 DEF CgInv, CgGoesOn
<1> QED
  BY <1>3, <1>4, <1>5

LEMMA CgReturnStep ==
    ASSUME CgInv, CgReturn
    PROVE  CgInv'
<1>1. /\ graph.status = "run" /\ graph.pc \in DOMAIN graph.prog /\ CgAt.op \in {"ret", "iret"}
      /\ graph' = CgLeave
  BY DEF CgReturn, CgDecodes
<1>2. FlowSucc(graph.prog, graph.pc) = {}
  BY <1>1 DEF FlowSucc, CgAt
<1> QED
  BY <1>1, <1>2, CgLeaveStep

LEMMA CgInitial ==
    ASSUME CgInit
    PROVE  CgInv
<1>1. PICK p \in CgPrograms, s \in CgStarts :
          graph = [status |-> "run", prog |-> p, start |-> s, pc |-> s, reg |-> 0, func |-> s,
                   stack |-> <<>>, known |-> {}, edges |-> {}, seen |-> {}]
  BY DEF CgInit
<1>2. s \in Int
  BY CgAssumption
<1>3. graph \in CgState
  BY <1>1, <1>2 DEF CgState
<1>4. CgCovered
  BY <1>1 DEF CgCovered, CgLeadsTo, CgPending
<1>5. CgBooks
  BY <1>1, LocalReachedStart DEF CgBooks, CgBooked
<1> QED
  BY <1>1, <1>3, <1>4, <1>5 DEF CgInv, CgTree, CgEdgesAreCalls

LEMMA CgInvariant == CgSpec => []CgInv
<1>1. CgInv /\ [CgNext]_graph => CgInv'
  <2> SUFFICES ASSUME CgInv, [CgNext]_graph
               PROVE  CgInv'
    OBVIOUS
  <2>1. CASE UNCHANGED graph
    BY <2>1 DEF CgInv, CgCovered, CgLeadsTo, CgPending, CgBooks, CgTree, CgEdgesAreCalls
  <2>2. CASE CgNext
    BY <2>2, CgEndOfFileStep, CgLoadStep, CgJumpStep, CgCallStep, CgBranchStep, CgReturnStep
       DEF CgNext
  <2> QED
    BY <2>1, <2>2
<1> QED
  BY <1>1, CgInitial, PTL DEF CgSpec

\* The call graph tool loses nothing: when its walk is done, every instruction
\* that direct control flow reaches from the function asked for has been decoded
\* (callgraphs/main.c, go), whatever the code loops, branches or calls.
THEOREM WalkReachesEverything == CgSpec => []CgWalksEverything
<1>1. ASSUME CgInv  PROVE  CgWalksEverything
  <2> SUFFICES ASSUME graph.status = "done", CgDirect(graph.prog)
               PROVE  Reached(graph.prog, graph.start, FlowSucc) \subseteq graph.seen
    BY DEF CgWalksEverything
  <2>1. \A t \in CgLeadsTo : t \in DOMAIN graph.prog => t \in graph.seen
    BY <1>1 DEF CgInv, CgCovered
  <2>2. graph.seen \in SUBSET DOMAIN graph.prog
    BY <1>1 DEF CgInv
  <2>3. graph.start \in DOMAIN graph.prog => graph.start \in graph.seen
    BY <2>1 DEF CgLeadsTo
  <2>4. \A a \in graph.seen : FlowSucc(graph.prog, a) \cap DOMAIN graph.prog \subseteq graph.seen
    BY <2>1 DEF CgLeadsTo
  <2> QED
    BY <2>2, <2>3, <2>4, FlowReachedLeast
<1> QED
  BY <1>1, CgInvariant, PTL

\* The lines of calls.txt are a tree of calls that are in the code, with the
\* function asked for at its root (callgraphs/main.c, go).
THEOREM LinesAreCalls == CgSpec => []CgTreeOfCalls
<1>1. CgInv => CgTreeOfCalls
  BY DEF CgInv, CgTree, CgTreeOfCalls
<1> QED
  BY <1>1, CgInvariant, PTL

----------------------------------------------------------------------------
(* The call list.                                                          *)

ClFrame == [pc : Int, reg : Int]
ClLines == [tabs : Nat, nest : Nat, dest : Int]

ClState ==
    [status : {"run", "done", "exit"}, prog : ClPrograms, start : ClStarts, pc : Int, reg : Int,
     stack : Seq(ClFrame), known : SUBSET Int, lines : Seq(ClLines)]

\* Above line n of state g, the last line nested less than d deep is function f;
\* the function asked for when there is none.
ClReads(g, n, d, f) ==
    \/ f = g.start /\ \A m \in 1 .. (n - 1) : g.lines[m].nest >= d
    \/ \E m \in 1 .. (n - 1) :
          /\ g.lines[m].nest < d /\ g.lines[m].dest = f
          /\ \A k \in (m + 1) .. (n - 1) : g.lines[k].nest >= d

\* Nothing returns between the start f of a function and pc.
ClStraight(p, f, pc) ==
    pc >= f /\ \A b \in f .. (pc - 1) : p[b].op \notin {"ret", "iret"}

\* The walk is at pc at depth d: in the function to which a reader books a line
\* that is now appended at depth d.
ClLevel(g, d, pc) ==
    \E f \in Int : ClReads(g, Len(g.lines) + 1, d, f) /\ ClStraight(g.prog, f, pc)

\* Line n is a call in the function a reader books it to.
ClShown(g, n) ==
    \E f \in Int :
        /\ ClReads(g, n, g.lines[n].nest, f)
        /\ \E a \in Linear(g.prog, f) :
              g.prog[a] = In("jal", g.lines[n].dest) \/ g.prog[a].op = "jral"

\* The tabs of a line are eight bits of its nesting.
ClTabbed(g) ==
    \A n \in 1 .. Len(g.lines) : g.lines[n].tabs = g.lines[n].nest % ClDepths

ClInv ==
    /\ list \in ClState
    /\ list.status = "run" =>
          /\ ClLevel(list, Len(list.stack), list.pc)
          /\ \A i \in 1 .. Len(list.stack) : ClLevel(list, Len(list.stack) - i, list.stack[i].pc)
    /\ \A n \in 1 .. Len(list.lines) : ClShown(list, n)
    /\ ClTabbed(list)

ClSpec == ClInit /\ [][ClNext]_list

LEMMA ClLineOf ==
    ASSUME NEW s \in Seq(ClLines), NEW n \in 1 .. Len(s)
    PROVE  s[n].tabs \in Nat /\ s[n].nest \in Nat /\ s[n].dest \in Int
<1>1. s[n] \in ClLines
  OBVIOUS
<1> QED
  BY <1>1 DEF ClLines

\* Eight bits of a nesting are all of it while they can hold it.
LEMMA ClEightBits ==
    ASSUME NEW n \in Nat
    PROVE  n % ClDepths \in Nat /\ (n < ClDepths => n % ClDepths = n)
<1>1. ClDepths \in Nat \ {0}
  BY ClAssumption
<1> QED
  BY <1>1

\* What ReadCaller chooses where no line so far is nested too deep for its tabs.
LEMMA ClReaderChooses ==
    ASSUME list \in ClState, ClTabbed(list), NEW n \in 1 .. Len(list.lines), NEW f,
           ClReads(list, n, list.lines[n].nest, f),
           \A m \in 1 .. n : list.lines[m].nest < ClDepths
    PROVE  ReadCaller(n) = f
<1> DEFINE above == {m \in 1 .. (n - 1) : list.lines[m].tabs < list.lines[n].tabs}
<1>0. \A m \in 1 .. n : list.lines[m].tabs = list.lines[m].nest
  <2>1. \A m \in 1 .. n : m \in 1 .. Len(list.lines)
    BY DEF ClState
  <2>2. \A m \in 1 .. n : list.lines[m].nest \in Nat
    BY <2>1, ClLineOf DEF ClState
  <2> QED
    BY <2>1, <2>2, ClEightBits DEF ClTabbed
<1>1. /\ n \in Nat \ {0} /\ list.lines[n].nest \in Nat
      /\ \A m \in 1 .. (n - 1) : list.lines[m].nest \in Nat
  <2>1. list.lines \in Seq(ClLines) /\ Len(list.lines) \in Nat
    BY DEF ClState
  <2>2. \A m \in 1 .. Len(list.lines) : list.lines[m].nest \in Nat
    BY <2>1, ClLineOf
  <2>3. n \in Nat \ {0} /\ \A m \in 1 .. (n - 1) : m \in 1 .. Len(list.lines)
    BY <2>1
  <2> QED
    BY <2>2, <2>3
<1>a. \A m \in 1 .. (n - 1) : list.lines[m].tabs = list.lines[m].nest
  BY <1>0, <1>1
<1>b. list.lines[n].tabs = list.lines[n].nest
  BY <1>0, <1>1
<1>2. ReadCaller(n) = IF above = {} THEN list.start
                      ELSE list.lines[CHOOSE m \in above : \A k \in above : k <= m].dest
  BY DEF ReadCaller
<1>3. CASE f = list.start /\ \A m \in 1 .. (n - 1) : list.lines[m].nest >= list.lines[n].nest
  <2>1. above = {}
    BY <1>a, <1>b, <1>1, <1>3
  <2> QED
    BY <1>2, <1>3, <2>1
<1>4. ASSUME NEW m \in 1 .. (n - 1), list.lines[m].nest < list.lines[n].nest,
             list.lines[m].dest = f,
             \A k \in (m + 1) .. (n - 1) : list.lines[k].nest >= list.lines[n].nest
      PROVE  ReadCaller(n) = f
  <2>1. m \in above
    BY <1>a, <1>b, <1>4
  <2>2. \A k \in above : k <= m
    <3> SUFFICES ASSUME NEW k \in above, ~(k <= m)
                 PROVE  FALSE
      OBVIOUS
    <3>1. k \in (m + 1) .. (n - 1)
      OBVIOUS
    <3> QED
      BY <1>a, <1>b, <1>1, <1>4, <3>1
  <2>3. \A k \in above : (\A j \in above : j <= k) => k = m
    BY <2>1, <2>2
  <2> HIDE DEF above
  <2>4. (CHOOSE k \in above : \A j \in above : j <= k) = m
    BY <2>1, <2>2, <2>3
  <2> QED
    BY <1>2, <1>4, <2>1, <2>4
<1> QED
  BY <1>3, <1>4 DEF ClReads

\* A line appended at depth d leaves what is read above it and at most at its depth.
LEMMA ClAppended ==
    ASSUME NEW g, NEW h, NEW line \in ClLines, g.lines \in Seq(ClLines),
           h.lines = Append(g.lines, line), h.start = g.start, NEW f
    PROVE  /\ Len(h.lines) = Len(g.lines) + 1 /\ Len(g.lines) \in Nat
           /\ h.lines[Len(h.lines)] = line
           /\ \A n \in 1 .. Len(g.lines) : h.lines[n] = g.lines[n]
           /\ \A n \in 1 .. (Len(g.lines) + 1), d \in Int :
                 ClReads(g, n, d, f) => ClReads(h, n, d, f)
           /\ \A d \in Int : d <= line.nest /\ ClReads(g, Len(g.lines) + 1, d, f)
                 => ClReads(h, Len(h.lines) + 1, d, f)
           /\ ClReads(h, Len(h.lines) + 1, line.nest + 1, line.dest)
<1>1. /\ Len(h.lines) = Len(g.lines) + 1 /\ Len(g.lines) \in Nat
      /\ h.lines[Len(g.lines) + 1] = line
      /\ \A n \in 1 .. Len(g.lines) : h.lines[n] = g.lines[n]
  OBVIOUS
<1>2. line.nest \in Nat
  BY DEF ClLines
<1>3. PICK l \in Nat : l = Len(g.lines)
  BY <1>1
<1>4. ASSUME NEW n \in 1 .. (l + 1), NEW d \in Int, ClReads(g, n, d, f)
      PROVE  ClReads(h, n, d, f)
  <2>1. \A m \in 1 .. (n - 1) : m \in 1 .. l
    OBVIOUS
  <2>2. \A m \in 1 .. (n - 1) : \A k \in (m + 1) .. (n - 1) : k \in 1 .. (n - 1)
    OBVIOUS
  <2> QED
    BY <1>1, <1>3, <1>4, <2>1, <2>2 DEF ClReads
<1>5. ASSUME NEW d \in Int, d <= line.nest, ClReads(g, l + 1, d, f)
      PROVE  ClReads(h, l + 2, d, f)
  <2>1. ClReads(h, l + 1, d, f)
    BY <1>4, <1>5
  <2>2. h.lines[l + 1].nest >= d
    BY <1>1, <1>2, <1>3, <1>5
  <2>3. \A k \in 1 .. (l + 1) : k \in 1 .. l \/ k = l + 1
    OBVIOUS
  <2>4. (l + 1) - 1 = l /\ (l + 2) - 1 = l + 1
    OBVIOUS
  <2>5. CASE f = h.start /\ \A m \in 1 .. l : h.lines[m].nest >= d
    <3>1. \A m \in 1 .. (l + 1) : h.lines[m].nest >= d
      BY <2>2, <2>3, <2>5
    <3> QED
      BY <2>4, <2>5, <3>1 DEF ClReads
  <2>6. ASSUME NEW m \in 1 .. l, h.lines[m].nest < d, h.lines[m].dest = f,
               \A k \in (m + 1) .. l : h.lines[k].nest >= d
        PROVE  ClReads(h, l + 2, d, f)
    <3>1. \A k \in (m + 1) .. (l + 1) : k \in (m + 1) .. l \/ k = l + 1
      OBVIOUS
    <3>2. \A k \in (m + 1) .. (l + 1) : h.lines[k].nest >= d
      BY <2>2, <2>6, <3>1
    <3>3. m \in 1 .. (l + 1)
      OBVIOUS
    <3> QED
      BY <2>4, <2>6, <3>2, <3>3 DEF ClReads
  <2> QED
    BY <2>1, <2>4, <2>5, <2>6 DEF ClReads
<1>6. ClReads(h, l + 2, line.nest + 1, line.dest)
  <2>1. (l + 2) - 1 = l + 1 /\ l + 1 \in 1 .. (l + 1) /\ (l + 1) + 1 .. (l + 1) = {}
    OBVIOUS
  <2>2. h.lines[l + 1].nest < line.nest + 1 /\ h.lines[l + 1].dest = line.dest
    BY <1>1, <1>2, <1>3
  <2> QED
    BY <2>1, <2>2 DEF ClReads
<1>7. Len(h.lines) + 1 = l + 2
  BY <1>1, <1>3
<1> QED
  BY <1>1, <1>3, <1>4, <1>5, <1>6, <1>7

\* What only looks at the file, the start and the lines stays as it is.
LEMMA ClSameLines ==
    ASSUME NEW g, NEW h, h.prog = g.prog, h.start = g.start, h.lines = g.lines
    PROVE  /\ \A d, pc : ClLevel(g, d, pc) => ClLevel(h, d, pc)
           /\ \A n : ClShown(g, n) => ClShown(h, n)
           /\ (ClTabbed(g) => ClTabbed(h))
BY DEF ClLevel, ClShown, ClReads, ClTabbed

LEMMA ClSees ==
    ASSUME ClInv, list.status = "run", list.pc \in DOMAIN list.prog
    PROVE  /\ ClAt.op \in FlowOps /\ ClAt.arg \in Int /\ ClDest \in Int
           /\ list.pc \in Int /\ list.reg \in Int /\ list.prog \in ClPrograms
           /\ list.stack \in Seq(ClFrame) /\ list.lines \in Seq(ClLines) /\ list.known \in SUBSET Int
<1>1. /\ list.pc \in Int /\ list.reg \in Int /\ list.prog \in ClPrograms
      /\ list.stack \in Seq(ClFrame) /\ list.lines \in Seq(ClLines) /\ list.known \in SUBSET Int
  BY DEF ClInv, ClState
<1>2. ClAt.op \in FlowOps /\ ClAt.arg \in Int
  BY <1>1, ClAssumption DEF IsProgram, ClAt
<1> QED
  BY <1>1, <1>2 DEF ClDest

\* One instruction further in the same function.
LEMMA ClFurther ==
    ASSUME NEW g, NEW d, NEW pc \in Int, ClLevel(g, d, pc), g.prog[pc].op \notin {"ret", "iret"}
    PROVE  ClLevel(g, d, pc + 1)
<1>1. PICK f \in Int : ClReads(g, Len(g.lines) + 1, d, f) /\ ClStraight(g.prog, f, pc)
  BY DEF ClLevel
<1>2. \A b \in f .. ((pc + 1) - 1) : b \in f .. (pc - 1) \/ b = pc
  OBVIOUS
<1>3. ClStraight(g.prog, f, pc + 1)
  BY <1>1, <1>2 DEF ClStraight
<1> QED
  BY <1>1, <1>3 DEF ClLevel

\* Instructions that are passed over.
LEMMA ClPassStep ==
    ASSUME ClInv, list.status = "run", list.pc \in DOMAIN list.prog,
           ClAt.op \notin {"ret", "iret"},
           NEW reg \in Int, list' = [list EXCEPT !.pc = list.pc + 1, !.reg = reg]
    PROVE  ClInv'
<1>1. list' \in ClState
  <2>1. PICK pc \in Int : pc = list.pc + 1
    BY ClSees
  <2>2. list' = [list EXCEPT !.pc = pc, !.reg = reg]
    BY <2>1
  <2> QED
    BY <2>2 DEF ClInv, ClState
<1>2. /\ list'.prog = list.prog /\ list'.start = list.start /\ list'.lines = list.lines
      /\ list'.pc = list.pc + 1 /\ list'.stack = list.stack /\ list'.status = "run"
  BY DEF ClInv, ClState
<1>3. ClLevel(list, Len(list.stack), list.pc + 1)
  BY ClSees, ClFurther DEF ClInv, ClAt
<1>4. /\ \A d, pc : ClLevel(list, d, pc) => ClLevel(list', d, pc)
      /\ \A n : ClShown(list, n) => ClShown(list', n)
  BY <1>2, ClSameLines
<1>5. ClLevel(list', Len(list'.stack), list'.pc)
  BY <1>2, <1>3, <1>4
<1>6. \A i \in 1 .. Len(list'.stack) : ClLevel(list', Len(list'.stack) - i, list'.stack[i].pc)
  BY <1>2, <1>4 DEF ClInv
<1>7. \A n \in 1 .. Len(list'.lines) : ClShown(list', n)
  BY <1>2, <1>4 DEF ClInv
<1>8. ClTabbed(list')
  BY <1>2, ClSameLines DEF ClInv
<1> QED
  BY <1>1, <1>5, <1>6, <1>7, <1>8 DEF ClInv

\* The walk ends or gives up.
LEMMA ClStops ==
    ASSUME ClInv, NEW status \in {"done", "exit"}, list' = [list EXCEPT !.status = status]
    PROVE  ClInv'
<1>1. list' \in ClState /\ list'.status # "run"
  <2>1. list \in ClState /\ status \in {"run", "done", "exit"} /\ status # "run"
    BY DEF ClInv
  <2> QED
    BY <2>1 DEF ClState
<1>2. list'.prog = list.prog /\ list'.start = list.start /\ list'.lines = list.lines
  BY DEF ClInv, ClState
<1>3. \A n \in 1 .. Len(list'.lines) : ClShown(list', n)
  BY <1>2, ClSameLines DEF ClInv
<1>4. ClTabbed(list')
  BY <1>2, ClSameLines DEF ClInv
<1> QED
  BY <1>1, <1>3, <1>4 DEF ClInv

LEMMA ClLoadStep ==
    ASSUME ClInv, ClLoad
    PROVE  ClInv'
<1>1. /\ list.status = "run" /\ list.pc \in DOMAIN list.prog
      /\ ClAt.op \in {"other", "set", "load", "j", "jr", "br"}
  BY DEF ClLoad, ClDecodes
<1> DEFINE reg == CASE ClAt.op = "set" -> ClAt.arg
                    [] ClAt.op = "load" -> ADDR_STOP
                    [] OTHER -> list.reg
<1>2. reg \in Int
  BY <1>1, ClSees DEF ADDR_STOP
<1>3. list' = [list EXCEPT !.pc = list.pc + 1, !.reg = reg]
  BY DEF ClLoad, ClInv, ClState
<1> HIDE DEF reg
<1> QED
  BY <1>1, <1>2, <1>3, ClPassStep

LEMMA ClCallStep ==
    ASSUME ClInv, ClCall
    PROVE  ClInv'
<1>1. list.status = "run" /\ list.pc \in DOMAIN list.prog /\ ClAt.op \in {"jal", "jral"}
  BY DEF ClCall, ClDecodes
<1>2. CASE ~IsValid(ClDest) \/ ClDest \in list.known
  <2>1. list' = [list EXCEPT !.pc = list.pc + 1, !.reg = list.reg]
    BY <1>2 DEF ClCall, ClInv, ClState
  <2> QED
    BY <1>1, <2>1, ClSees, ClPassStep
<1>3. CASE /\ ~(~IsValid(ClDest) \/ ClDest \in list.known)
           /\ Cardinality(list.known) >= ClTargetsMax
  BY <1>3, ClStops DEF ClCall
<1>4. CASE /\ ~(~IsValid(ClDest) \/ ClDest \in list.known)
           /\ ~(Cardinality(list.known) >= ClTargetsMax)
  <2> DEFINE new == [pc |-> list.pc + 1, reg |-> list.reg]
             line == ClLine(Len(list.stack), ClDest)
  <2>1. new \in ClFrame /\ new.pc = list.pc + 1
    BY <1>1, ClSees DEF ClFrame
  <2>2. /\ line \in ClLines /\ line.nest = Len(list.stack) /\ line.dest = ClDest
        /\ line.tabs = line.nest % ClDepths
    <3>1. PICK d : d = Len(list.stack) % ClDepths
      OBVIOUS
    <3>2. Len(list.stack) \in Nat /\ ClDest \in Int
      BY <1>1, ClSees
    <3>3. d \in Nat
      BY <3>1, <3>2, ClEightBits
    <3>4. line = [tabs |-> d, nest |-> Len(list.stack), dest |-> ClDest]
      BY <3>1 DEF ClLine
    <3> QED
      BY <3>1, <3>2, <3>3, <3>4 DEF ClLines
  <2>3. list' = [list EXCEPT !.known = list.known \cup {ClDest}, !.pc = ClDest,
                             !.lines = Append(list.lines, line),
                             !.stack = <<new>> \o list.stack]
    BY <1>4 DEF ClCall, ClInv, ClState
  <2> HIDE DEF new, line
  <2>4. PICK stack \in Seq(ClFrame), lines \in Seq(ClLines), known \in SUBSET Int :
            /\ stack = <<new>> \o list.stack /\ lines = Append(list.lines, line)
            /\ known = list.known \cup {ClDest}
    <3>1. <<new>> \o list.stack \in Seq(ClFrame)
      BY <1>1, <2>1, ClSees, PushFrame
    <3>2. Append(list.lines, line) \in Seq(ClLines)
      BY <1>1, <2>2, ClSees
    <3>3. list.known \cup {ClDest} \in SUBSET Int
      BY <1>1, ClSees
    <3> QED
      BY <3>1, <3>2, <3>3
  <2>5. list' = [list EXCEPT !.known = known, !.pc = ClDest, !.lines = lines, !.stack = stack]
    BY <2>3, <2>4
  <2>6. list' \in ClState
    BY <1>1, <2>5, ClSees DEF ClInv, ClState
  <2>7. /\ list'.status = "run" /\ list'.prog = list.prog /\ list'.start = list.start
        /\ list'.pc = ClDest /\ list'.lines = lines /\ list'.stack = stack
    BY <1>1, <2>5 DEF ClInv, ClState
  <2>8. /\ Len(stack) = Len(list.stack) + 1 /\ stack[1] = new /\ Len(list.stack) \in Nat
        /\ \A i \in 1 .. Len(list.stack) : stack[i + 1] = list.stack[i]
        /\ \A i \in 1 .. Len(stack) : i = 1 \/ i - 1 \in 1 .. Len(list.stack)
    BY <1>1, <2>1, <2>4, ClSees, PushFrame
  <2>9. /\ Len(lines) = Len(list.lines) + 1 /\ Len(list.lines) \in Nat
        /\ lines[Len(lines)] = line
        /\ \A n \in 1 .. Len(list.lines) : lines[n] = list.lines[n]
        /\ \A f : \A n \in 1 .. (Len(list.lines) + 1), d \in Int :
              ClReads(list, n, d, f) => ClReads(list', n, d, f)
        /\ \A f : \A d \in Int : d <= Len(list.stack) /\ ClReads(list, Len(list.lines) + 1, d, f)
              => ClReads(list', Len(lines) + 1, d, f)
        /\ ClReads(list', Len(lines) + 1, Len(list.stack) + 1, ClDest)
    <3>1. list.lines \in Seq(ClLines) /\ list'.lines = Append(list.lines, line)
      BY <1>1, <2>4, <2>7, ClSees
    <3>2. list'.start = list.start /\ list'.lines = lines
      BY <2>7
    <3>3. \A f :
            /\ Len(list'.lines) = Len(list.lines) + 1 /\ Len(list.lines) \in Nat
            /\ list'.lines[Len(list'.lines)] = line
            /\ \A n \in 1 .. Len(list.lines) : list'.lines[n] = list.lines[n]
            /\ \A n \in 1 .. (Len(list.lines) + 1), d \in Int :
                  ClReads(list, n, d, f) => ClReads(list', n, d, f)
            /\ \A d \in Int : d <= line.nest /\ ClReads(list, Len(list.lines) + 1, d, f)
                  => ClReads(list', Len(list'.lines) + 1, d, f)
            /\ ClReads(list', Len(list'.lines) + 1, line.nest + 1, line.dest)
      BY <2>2, <3>1, <3>2, ClAppended
    <3> QED
      BY <2>2, <3>2, <3>3
  \* the levels the walk comes back to
  <2>10. ASSUME NEW d \in Int, d <= Len(list.stack), NEW pc, ClLevel(list, d, pc)
         PROVE  ClLevel(list', d, pc)
    BY <2>7, <2>9, <2>10 DEF ClLevel
  <2>11. ClLevel(list, Len(list.stack), list.pc + 1)
    BY <1>1, ClSees, ClFurther DEF ClInv, ClAt
  <2>12. ASSUME NEW i \in 1 .. Len(stack)  PROVE  ClLevel(list', Len(stack) - i, stack[i].pc)
    <3>1. CASE i = 1
      <4>1. Len(stack) - i = Len(list.stack) /\ stack[i].pc = list.pc + 1
        BY <2>1, <2>8, <3>1
      <4> QED
        BY <2>8, <2>10, <2>11, <4>1
    <3>2. CASE i - 1 \in 1 .. Len(list.stack)
      <4>1. ClLevel(list, Len(list.stack) - (i - 1), list.stack[i - 1].pc)
        BY <1>1, <3>2 DEF ClInv
      <4>2. (i - 1) + 1 = i /\ Len(stack) - i = Len(list.stack) - (i - 1)
        BY <2>8
      <4>3. stack[i] = list.stack[i - 1]
        BY <2>8, <3>2, <4>2
      <4>4. Len(stack) - i \in Int /\ Len(stack) - i <= Len(list.stack)
        BY <2>8
      <4> QED
        BY <2>10, <4>1, <4>2, <4>3, <4>4
    <3> QED
      BY <2>8, <3>1, <3>2
  \* the level of the callee
  <2>13. ClLevel(list', Len(stack), ClDest)
    <3>1. ClStraight(list'.prog, ClDest, ClDest)
      BY <1>1, ClSees DEF ClStraight
    <3> QED
      BY <1>1, <2>7, <2>8, <2>9, <3>1, ClSees DEF ClLevel
  \* the lines
  <2>14. ASSUME NEW n \in 1 .. Len(list.lines)  PROVE  ClShown(list', n)
    <3>1. PICK f \in Int :
              /\ ClReads(list, n, list.lines[n].nest, f)
              /\ \E a \in Linear(list.prog, f) :
                    list.prog[a] = In("jal", list.lines[n].dest) \/ list.prog[a].op = "jral"
      BY DEF ClInv, ClShown
    <3>2. list.lines[n].nest \in Int /\ n \in 1 .. (Len(list.lines) + 1)
      BY <1>1, <2>9, ClSees, ClLineOf
    <3>3. ClReads(list', n, list.lines[n].nest, f)
      BY <2>9, <3>1, <3>2
    <3> QED
      BY <2>7, <2>9, <3>1, <3>3 DEF ClShown
  <2>15. ClShown(list', Len(lines))
    <3>1. PICK f \in Int : /\ ClReads(list, Len(list.lines) + 1, Len(list.stack), f)
                           /\ ClStraight(list.prog, f, list.pc)
      BY <1>1 DEF ClInv, ClLevel
    <3>2. list.pc \in Linear(list.prog, f)
      BY <1>1, <3>1 DEF ClStraight, Linear
    <3>3. list.prog[list.pc] = In("jal", ClDest) \/ list.prog[list.pc].op = "jral"
      <4>1. list.prog[list.pc] \in [op : FlowOps, arg : Int]
        BY <1>1, ClSees, ClAssumption DEF IsProgram
      <4> QED
        BY <1>1, <4>1 DEF ClAt, ClDest, In
    <3>4. ClReads(list', Len(lines), Len(list.stack), f)
      <4>1. Len(list.lines) + 1 \in 1 .. (Len(list.lines) + 1) /\ Len(list.stack) \in Int
        BY <2>8, <2>9
      <4> QED
        BY <2>9, <3>1, <4>1
    <3> QED
      BY <2>2, <2>7, <2>9, <3>2, <3>3, <3>4 DEF ClShown
  <2>16. \A n \in 1 .. Len(lines) : ClShown(list', n)
    <3>1. \A n \in 1 .. Len(lines) : n \in 1 .. Len(list.lines) \/ n = Len(lines)
      BY <2>9
    <3> QED
      BY <2>14, <2>15, <3>1
  <2>17. ClTabbed(list')
    <3>1. \A n \in 1 .. Len(lines) : n \in 1 .. Len(list.lines) \/ n = Len(lines)
      BY <2>9
    <3>2. \A n \in 1 .. Len(list.lines) : lines[n].tabs = lines[n].nest % ClDepths
      BY <2>9 DEF ClInv, ClTabbed
    <3>3. lines[Len(lines)].tabs = lines[Len(lines)].nest % ClDepths
      BY <2>2, <2>9
    <3> QED
      BY <2>7, <3>1, <3>2, <3>3 DEF ClTabbed
  <2> QED
    BY <2>6, <2>7, <2>12, <2>13, <2>16, <2>17 DEF ClInv
<1> QED
  BY <1>2, <1>3, <1>4

LEMMA ClReturnStep ==
    ASSUME ClInv, ClReturn
    PROVE  ClInv'
<1>1. list.status = "run" /\ list.pc \in DOMAIN list.prog
  BY DEF ClReturn, ClDecodes
<1>2. CASE list.stack = <<>>
  BY <1>2, ClStops DEF ClReturn
<1>3. CASE list.stack # <<>>
  <2>1. /\ Len(list.stack) \in Nat \ {0} /\ Head(list.stack) = list.stack[1]
        /\ Head(list.stack) \in ClFrame /\ Tail(list.stack) \in Seq(ClFrame)
        /\ Len(Tail(list.stack)) = Len(list.stack) - 1
        /\ \A i \in 1 .. Len(Tail(list.stack)) :
               i + 1 \in 1 .. Len(list.stack) /\ Tail(list.stack)[i] = list.stack[i + 1]
    BY <1>1, <1>3, ClSees, PopFrame
  <2>2. PICK f \in ClFrame, rest \in Seq(ClFrame) :
            f = Head(list.stack) /\ rest = Tail(list.stack)
    BY <2>1
  <2>3. list' = [list EXCEPT !.pc = f.pc, !.reg = f.reg, !.stack = rest]
    BY <1>3, <2>2 DEF ClReturn, ClInv, ClState
  <2>4. f.pc \in Int /\ f.reg \in Int
    BY DEF ClFrame
  <2>5. list' \in ClState
    BY <2>3, <2>4 DEF ClInv, ClState
  <2>6. /\ list'.status = "run" /\ list'.prog = list.prog /\ list'.start = list.start
        /\ list'.pc = f.pc /\ list'.lines = list.lines /\ list'.stack = rest
    BY <1>1, <2>3 DEF ClInv, ClState
  <2>7. /\ \A d, pc : ClLevel(list, d, pc) => ClLevel(list', d, pc)
        /\ \A n : ClShown(list, n) => ClShown(list', n)
    BY <2>6, ClSameLines
  <2>8. \A i \in 1 .. Len(list.stack) : ClLevel(list, Len(list.stack) - i, list.stack[i].pc)
    BY <1>1 DEF ClInv
  <2>9. ClLevel(list', Len(rest), f.pc)
    <3>1. 1 \in 1 .. Len(list.stack) /\ Len(rest) = Len(list.stack) - 1
      BY <2>1, <2>2
    <3> QED
      BY <2>1, <2>2, <2>7, <2>8, <3>1
  <2>10. ASSUME NEW i \in 1 .. Len(rest)  PROVE  ClLevel(list', Len(rest) - i, rest[i].pc)
    <3>1. /\ i + 1 \in 1 .. Len(list.stack) /\ rest[i] = list.stack[i + 1]
          /\ Len(rest) - i = Len(list.stack) - (i + 1)
      BY <2>1, <2>2
    <3> QED
      BY <2>7, <2>8, <3>1
  <2>11. \A n \in 1 .. Len(list'.lines) : ClShown(list', n)
    BY <2>6, <2>7 DEF ClInv
  <2>12. ClTabbed(list')
    BY <2>6, ClSameLines DEF ClInv
  <2> QED
    BY <2>5, <2>6, <2>9, <2>10, <2>11, <2>12 DEF ClInv
<1> QED
  BY <1>2, <1>3

LEMMA ClInitial ==
    ASSUME ClInit
    PROVE  ClInv
<1>1. PICK p \in ClPrograms, s \in ClStarts :
          list = [status |-> "run", prog |-> p, start |-> s, pc |-> s, reg |-> 0,
                  stack |-> <<>>, known |-> {}, lines |-> <<>>]
  BY DEF ClInit
<1>2. s \in Int
  BY ClAssumption
<1>3. list \in ClState
  BY <1>1, <1>2 DEF ClState
<1>4. ClLevel(list, Len(list.stack), list.pc)
  <2>1. Len(list.lines) = 0 /\ list.pc = s /\ list.start = s
    BY <1>1
  <2>2. ClReads(list, Len(list.lines) + 1, Len(list.stack), s)
    BY <2>1 DEF ClReads
  <2>3. ClStraight(list.prog, s, list.pc)
    BY <1>2, <2>1 DEF ClStraight
  <2> QED
    BY <1>2, <2>2, <2>3 DEF ClLevel
<1>5. Len(list.stack) = 0 /\ Len(list.lines) = 0
  BY <1>1
<1>6. ClTabbed(list)
  BY <1>5 DEF ClTabbed
<1> QED
  BY <1>3, <1>4, <1>5, <1>6 DEF ClInv

\* The call list is indented truly up to the first call nested deeper than the
\* parameter depth counts: the line above with fewer tabs is the function whose code
\* contains the call (list_calls/main.c, go).
THEOREM IndentationIsTrue == ClSpec => []ClIndentation
<1>1. ClInv /\ [ClNext]_list => ClInv'
  <2> SUFFICES ASSUME ClInv, [ClNext]_list
               PROVE  ClInv'
    OBVIOUS
  <2>1. CASE UNCHANGED list
    BY <2>1 DEF ClInv
  <2>2. CASE ClEndOfFile
    BY <2>2, ClStops DEF ClEndOfFile
  <2> QED
    BY <2>1, <2>2, ClLoadStep, ClCallStep, ClReturnStep DEF ClNext
<1>2. ClInv => ClIndentation
  <2> SUFFICES ASSUME ClInv, NEW n \in DOMAIN list.lines,
                      \A m \in 1 .. n : list.lines[m].nest < ClDepths
               PROVE  \E a \in Linear(list.prog, ReadCaller(n)) :
                          \/ list.prog[a] = In("jal", list.lines[n].dest)
                          \/ list.prog[a].op = "jral"
    BY DEF ClIndentation
  <2>1. n \in 1 .. Len(list.lines) /\ list \in ClState /\ ClTabbed(list)
    BY DEF ClInv, ClState
  <2>2. PICK f \in Int :
            /\ ClReads(list, n, list.lines[n].nest, f)
            /\ \E a \in Linear(list.prog, f) :
                  list.prog[a] = In("jal", list.lines[n].dest) \/ list.prog[a].op = "jral"
    BY <2>1 DEF ClInv, ClShown
  <2>3. ReadCaller(n) = f
    BY <2>1, <2>2, ClReaderChooses
  <2> QED
    BY <2>2, <2>3
<1> QED
  BY <1>1, <1>2, ClInitial, PTL DEF ClSpec

----------------------------------------------------------------------------
(* The flow of control.                                                    *)

CfNode == [addr : Int, text : Seq(Int)]

CfState ==
    [status : {"sweep", "parse", "done", "exit"}, prog : CfPrograms, start : CfStarts,
     pc : Int, blocks : SUBSET Int, known : SUBSET Int, curr : Int, buffer : Seq(Int),
     stack : Seq(Int), nodes : SUBSET CfNode, edges : SUBSET (Int \X Int)]

\* The instructions that join a box.
CfPlain == {"other", "set", "load", "jal", "jral", "iret"}

CfSpan(n) == n.addr .. (n.addr + Len(n.text) - 1)

\* A node holds consecutive addresses; only its last instruction may lead elsewhere.
CfIsNode(p, n) ==
    /\ n \in CfNode /\ Len(n.text) > 0
    /\ \A k \in 1 .. Len(n.text) : n.text[k] = n.addr + k - 1
    /\ \A k \in 1 .. (Len(n.text) - 1) : p[n.text[k]].op \in CfPlain

\* The nodes divide the addresses of covered among them, and the edges of each
\* are the flow of control from its last instruction.
CfPicture(p, nodes, edges, covered) ==
    /\ \A n \in nodes : CfIsNode(p, n) /\ CfSpan(n) \subseteq covered
    /\ \A a \in covered : \E n \in nodes : a \in CfSpan(n)
    /\ \A n, m \in nodes : \A a \in CfSpan(n) : a \in CfSpan(m) => n = m
    /\ \A n \in nodes : \A b : <<n.addr, b>> \in edges <=> b \in CfSucc(p, n.text[Len(n.text)])
    /\ \A e \in edges : \E n \in nodes : e[1] = n.addr

\* The addresses of the box that is being filled.
CfOpen == flow.curr .. (flow.pc - 1)

CfWriting ==
    /\ flow.curr <= flow.pc /\ CfOpen \subseteq flow.known
    /\ Len(flow.buffer) = flow.pc - flow.curr
    /\ \A k \in 1 .. Len(flow.buffer) : flow.buffer[k] = flow.curr + k - 1
    /\ \A a \in CfOpen : flow.prog[a].op \in CfPlain
    /\ CfPicture(flow.prog, flow.nodes, flow.edges, flow.known \ CfOpen)

CfPending == {flow.pc} \cup {flow.stack[i] : i \in 1 .. Len(flow.stack)}

CfCovered ==
    \A t \in {flow.start} \cup UNION {CfSucc(flow.prog, a) : a \in flow.known} :
        t \in DOMAIN flow.prog => t \in flow.known \/ (flow.status = "parse" /\ t \in CfPending)

CfInv ==
    /\ flow \in CfState
    /\ flow.known \subseteq DOMAIN flow.prog
    /\ flow.status = "sweep" =>
          /\ flow.known = {} /\ flow.nodes = {} /\ flow.edges = {}
          /\ flow.buffer = <<>> /\ flow.stack = <<>> /\ flow.curr = flow.start
    /\ flow.status \in {"parse", "done"} => CfCovered
    /\ flow.status = "parse" => CfWriting
    /\ flow.status = "done" => CfPicture(flow.prog, flow.nodes, flow.edges, flow.known)

CfSpec == CfInit /\ [][CfNext]_flow

\* A node more, with its edges.
LEMMA CfAddNode ==
    ASSUME NEW p, NEW N, NEW E, NEW K, NEW n, NEW F,
           CfPicture(p, N, E, K), CfIsNode(p, n), CfSpan(n) \cap K = {},
           F = {<<n.addr, b>> : b \in CfSucc(p, n.text[Len(n.text)])}
    PROVE  CfPicture(p, N \cup {n}, E \cup F, K \cup CfSpan(n))
<1>1. \A m \in N : CfIsNode(p, m) /\ CfSpan(m) \subseteq K
  BY DEF CfPicture
<1>2. \A m : CfIsNode(p, m) => m.addr \in CfSpan(m)
  BY DEF CfIsNode, CfNode, CfSpan
<1>3. \A m \in N : m.addr # n.addr
  BY <1>1, <1>2
<1>4. \A m \in N \cup {n} : CfIsNode(p, m) /\ CfSpan(m) \subseteq K \cup CfSpan(n)
  BY <1>1
<1>5. \A a \in K \cup CfSpan(n) : \E m \in N \cup {n} : a \in CfSpan(m)
  BY DEF CfPicture
<1>6. \A m, l \in N \cup {n} : \A a \in CfSpan(m) : a \in CfSpan(l) => m = l
  BY <1>1 DEF CfPicture
<1>7. \A m \in N \cup {n} : \A b :
          <<m.addr, b>> \in E \cup F <=> b \in CfSucc(p, m.text[Len(m.text)])
  <2>1. ASSUME NEW m \in N, NEW b
        PROVE  <<m.addr, b>> \in E \cup F <=> b \in CfSucc(p, m.text[Len(m.text)])
    <3>1. <<m.addr, b>> \notin F
      BY <1>3
    <3> QED
      BY <3>1 DEF CfPicture
  <2>2. ASSUME NEW b
        PROVE  <<n.addr, b>> \in E \cup F <=> b \in CfSucc(p, n.text[Len(n.text)])
    <3>1. <<n.addr, b>> \notin E
      BY <1>3 DEF CfPicture
    <3>2. <<n.addr, b>> \in F <=> b \in CfSucc(p, n.text[Len(n.text)])
      OBVIOUS
    <3> QED
      BY <3>1, <3>2
  <2> QED
    BY <2>1, <2>2
<1>8. \A e \in E \cup F : \E m \in N \cup {n} : e[1] = m.addr
  BY DEF CfPicture
<1> QED
  BY <1>4, <1>5, <1>6, <1>7, <1>8 DEF CfPicture

\* A diamond, or the oval of a return.
LEMMA CfAddOne ==
    ASSUME NEW p, NEW N, NEW E, NEW K, NEW pc \in Int, pc \notin K, NEW F,
           CfPicture(p, N, E, K), F = {<<pc, b>> : b \in CfSucc(p, pc)}
    PROVE  CfPicture(p, N \cup {[addr |-> pc, text |-> <<pc>>]}, E \cup F, K \cup {pc})
<1> DEFINE n == [addr |-> pc, text |-> <<pc>>]
<1>1. n \in CfNode /\ n.addr = pc /\ n.text = <<pc>> /\ Len(n.text) = 1 /\ n.text[1] = pc
  BY DEF CfNode
<1> HIDE DEF n
<1>2. CfIsNode(p, n)
  <2>1. \A k \in 1 .. 1 : k = 1
    OBVIOUS
  <2> QED
    BY <1>1, <2>1 DEF CfIsNode
<1>3. CfSpan(n) = {pc}
  BY <1>1 DEF CfSpan
<1>4. F = {<<n.addr, b>> : b \in CfSucc(p, n.text[Len(n.text)])}
  BY <1>1
<1>5. CfSpan(n) \cap K = {}
  BY <1>3
<1>6. CfPicture(p, N \cup {n}, E \cup F, K \cup CfSpan(n))
  BY <1>2, <1>4, <1>5, CfAddNode, Zenon
<1> QED
  BY <1>3, <1>6 DEF n

\* The box that is being filled is drawn.
LEMMA CfBoxed ==
    ASSUME CfInv, flow.status = "parse"
    PROVE  /\ CfPicture(flow.prog, flow.nodes \cup CfBoxNodes, flow.edges \cup CfBoxEdges, flow.known)
           /\ CfBoxNodes \subseteq CfNode /\ CfBoxEdges \subseteq Int \X Int
           /\ flow.buffer = <<>> <=> flow.curr = flow.pc
<1>1. /\ flow.pc \in Int /\ flow.curr \in Int /\ flow.buffer \in Seq(Int)
      /\ Len(flow.buffer) \in Nat /\ CfWriting
  BY DEF CfInv, CfState
<1>2. flow.buffer = <<>> <=> flow.curr = flow.pc
  <2>1. flow.buffer = <<>> <=> Len(flow.buffer) = 0
    BY <1>1
  <2> QED
    BY <1>1, <2>1 DEF CfWriting
<1>3. CASE flow.buffer = <<>>
  <2>1. CfOpen = {}
    BY <1>1, <1>2, <1>3 DEF CfOpen
  <2>2. flow.known \ CfOpen = flow.known
    BY <2>1
  <2> QED
    BY <1>1, <1>2, <1>3, <2>2 DEF CfWriting, CfBoxNodes, CfBoxEdges
<1>4. CASE flow.buffer # <<>>
  <2> DEFINE n == [addr |-> flow.curr, text |-> flow.buffer]
  <2>1. n \in CfNode /\ n.addr = flow.curr /\ n.text = flow.buffer
    BY <1>1 DEF CfNode
  <2>2. CfBoxNodes = {n} /\ CfBoxEdges = {<<flow.curr, flow.pc>>}
    BY <1>4 DEF CfBoxNodes, CfBoxEdges, CfEdge
  <2> HIDE DEF n
  <2>3. /\ Len(flow.buffer) > 0 /\ flow.curr + Len(flow.buffer) - 1 = flow.pc - 1
        /\ flow.pc - 1 \in CfOpen /\ flow.buffer[Len(flow.buffer)] = flow.pc - 1
    BY <1>1, <1>2, <1>4 DEF CfWriting, CfOpen
  <2>4. CfSpan(n) = CfOpen
    BY <2>1, <2>3 DEF CfSpan, CfOpen
  <2>5. CfIsNode(flow.prog, n)
    <3>1. \A k \in 1 .. (Len(flow.buffer) - 1) :
              k \in 1 .. Len(flow.buffer) /\ flow.curr + k - 1 \in CfOpen
      BY <1>1, <2>3 DEF CfOpen
    <3> QED
      BY <1>1, <2>1, <2>3, <3>1 DEF CfIsNode, CfWriting
  <2>6. CfSucc(flow.prog, n.text[Len(n.text)]) = {flow.pc}
    <3>1. flow.prog[flow.pc - 1].op \in CfPlain
      BY <1>1, <2>3 DEF CfWriting
    <3>2. (flow.pc - 1) + 1 = flow.pc
      BY <1>1
    <3> QED
      BY <2>1, <2>3, <3>1, <3>2 DEF CfSucc, CfPlain
  <2>7. CfBoxEdges = {<<n.addr, b>> : b \in CfSucc(flow.prog, n.text[Len(n.text)])}
    BY <2>1, <2>2, <2>6
  <2>8. CfPicture(flow.prog, flow.nodes \cup {n}, flow.edges \cup CfBoxEdges,
                  (flow.known \ CfOpen) \cup CfSpan(n))
    BY <1>1, <2>4, <2>5, <2>7, CfAddNode DEF CfWriting
  <2>9. (flow.known \ CfOpen) \cup CfSpan(n) = flow.known
    BY <1>1, <2>4 DEF CfWriting
  <2>10. CfBoxNodes \subseteq CfNode /\ CfBoxEdges \subseteq Int \X Int
    BY <1>1, <2>1, <2>2
  <2>11. CfPicture(flow.prog, flow.nodes \cup CfBoxNodes, flow.edges \cup CfBoxEdges, flow.known)
    BY <2>2, <2>8, <2>9
  <2> QED
    BY <1>2, <2>10, <2>11
<1> QED
  BY <1>3, <1>4

\* What every step of parse does to what the walk has seen and will come to.
CfGoesOn ==
    /\ flow.status = "parse" /\ flow.pc \in DOMAIN flow.prog
    /\ flow' \in CfState /\ flow'.prog = flow.prog /\ flow'.start = flow.start
    /\ flow'.status \in {"parse", "done"}
    /\ flow'.known = flow.known \cup {flow.pc}
    /\ flow.pc \notin flow.known =>
          \A t \in CfSucc(flow.prog, flow.pc) :
             t \in flow'.known \/ (flow'.status = "parse" /\ t \in CfPending')
    /\ \A t \in CfPending : t = flow.pc \/ (flow'.status = "parse" /\ t \in CfPending')

LEMMA CfKeepsTrack ==
    ASSUME CfInv, CfGoesOn
    PROVE  CfCovered' /\ flow'.known \subseteq DOMAIN flow'.prog
<1>1. flow'.known \subseteq DOMAIN flow'.prog
  BY DEF CfInv, CfGoesOn
<1>2. ASSUME NEW t \in {flow.start} \cup UNION {CfSucc(flow.prog, a) : a \in flow'.known},
             t \in DOMAIN flow.prog
      PROVE  t \in flow'.known \/ (flow'.status = "parse" /\ t \in CfPending')
  <2>1. \/ t \in {flow.start} \cup UNION {CfSucc(flow.prog, a) : a \in flow.known}
        \/ flow.pc \notin flow.known /\ t \in CfSucc(flow.prog, flow.pc)
    <3>1. CASE t = flow.start
      BY <3>1
    <3>2. CASE t \in UNION {CfSucc(flow.prog, a) : a \in flow'.known}
      <4>1. PICK a \in flow'.known : t \in CfSucc(flow.prog, a)
        BY <3>2
      <4>2. a \in flow.known \/ (flow.pc \notin flow.known /\ a = flow.pc)
        BY DEF CfGoesOn
      <4> QED
        BY <4>1, <4>2
    <3> QED
      BY <1>2, <3>1, <3>2
  <2>2. CASE t \in {flow.start} \cup UNION {CfSucc(flow.prog, a) : a \in flow.known}
    <3>1. t \in flow.known \/ t \in CfPending
      BY <1>2, <2>2 DEF CfInv, CfCovered, CfGoesOn
    <3> QED
      BY <3>1 DEF CfGoesOn
  <2> QED
    BY <2>1, <2>2 DEF CfGoesOn
<1> QED
  BY <1>1, <1>2 DEF CfCovered, CfGoesOn

\* parse returns, after it has drawn all it has seen.
LEMMA CfReturns ==
    ASSUME CfInv, flow.status = "parse", flow.pc \in DOMAIN flow.prog,
           NEW nodes \in SUBSET CfNode, NEW edges \in SUBSET (Int \X Int),
           NEW f, f = [flow EXCEPT !.known = flow.known \cup {flow.pc}, !.nodes = nodes,
                                   !.edges = edges],
           CfPicture(flow.prog, nodes, edges, flow.known \cup {flow.pc}),
           flow.pc \notin flow.known =>
               CfSucc(flow.prog, flow.pc) \subseteq flow.known \cup {flow.pc},
           flow' = CfReturnFrom(f)
    PROVE  CfInv'
<1>1. flow.pc \in Int /\ flow.stack \in Seq(Int) /\ flow \in CfState
  BY DEF CfInv, CfState
<1>2. f \in CfState
  <2>1. PICK known \in SUBSET Int : known = flow.known \cup {flow.pc}
    BY <1>1 DEF CfState
  <2> QED
    BY <1>1, <2>1 DEF CfState
<1>3. /\ f.prog = flow.prog /\ f.start = flow.start /\ f.stack = flow.stack
      /\ f.known = flow.known \cup {flow.pc} /\ f.nodes = nodes /\ f.edges = edges
      /\ f.status = "parse"
  BY <1>1 DEF CfState
<1>4. CASE flow.stack = <<>>
  <2>1. flow' = [f EXCEPT !.status = "done", !.buffer = <<>>]
    BY <1>3, <1>4 DEF CfReturnFrom
  <2>2. flow' \in CfState
    <3>1. <<>> \in Seq(Int)
      OBVIOUS
    <3> QED
      BY <1>2, <2>1, <3>1 DEF CfState
  <2>3. /\ flow'.prog = flow.prog /\ flow'.start = flow.start /\ flow'.status = "done"
        /\ flow'.known = flow.known \cup {flow.pc} /\ flow'.nodes = nodes /\ flow'.edges = edges
    BY <1>2, <1>3, <2>1 DEF CfState
  <2>4. \A t \in CfPending : t = flow.pc
    BY <1>4 DEF CfPending
  <2>5. CfGoesOn
    BY <2>2, <2>3, <2>4 DEF CfGoesOn
  <2> QED
    BY <2>2, <2>3, <2>5, CfKeepsTrack DEF CfInv
<1>5. CASE flow.stack # <<>>
  <2>1. PICK back \in Int, rest \in Seq(Int) :
            /\ back = Head(flow.stack) /\ rest = Tail(flow.stack)
            /\ \A i \in 1 .. Len(flow.stack) :
                   \/ flow.stack[i] = back
                   \/ \E j \in 1 .. Len(rest) : rest[j] = flow.stack[i]
    <3>1. /\ Len(flow.stack) \in Nat \ {0} /\ Head(flow.stack) = flow.stack[1]
          /\ Head(flow.stack) \in Int /\ Tail(flow.stack) \in Seq(Int)
          /\ \A i \in 1 .. Len(Tail(flow.stack)) :
                 i + 1 \in 1 .. Len(flow.stack) /\ Tail(flow.stack)[i] = flow.stack[i + 1]
          /\ \A i \in 1 .. Len(flow.stack) : i = 1 \/ i - 1 \in 1 .. Len(Tail(flow.stack))
      BY <1>1, <1>5, PopFrame
    <3>2. ASSUME NEW i \in 1 .. Len(flow.stack), i # 1
          PROVE  \E j \in 1 .. Len(Tail(flow.stack)) : Tail(flow.stack)[j] = flow.stack[i]
      <4>1. i - 1 \in 1 .. Len(Tail(flow.stack)) /\ (i - 1) + 1 = i
        BY <3>1, <3>2
      <4> QED
        BY <3>1, <4>1
    <3>3. PICK back \in Int, rest \in Seq(Int) :
              back = Head(flow.stack) /\ rest = Tail(flow.stack)
      BY <3>1
    <3>4. \A i \in 1 .. Len(flow.stack) :
              \/ flow.stack[i] = back
              \/ \E j \in 1 .. Len(rest) : rest[j] = flow.stack[i]
      <4>1. ASSUME NEW i \in 1 .. Len(flow.stack)
            PROVE  \/ flow.stack[i] = back
                   \/ \E j \in 1 .. Len(rest) : rest[j] = flow.stack[i]
        <5>1. CASE i = 1
          BY <3>1, <3>3, <5>1
        <5>2. CASE i # 1
          BY <3>2, <3>3, <5>2
        <5> QED
          BY <5>1, <5>2
      <4> QED
        BY <4>1
    <3> QED
      BY <3>3, <3>4
  <2>2. flow' = [f EXCEPT !.pc = back, !.curr = back, !.buffer = <<>>, !.stack = rest]
    BY <1>2, <1>3, <1>5, <2>1 DEF CfReturnFrom, CfState
  <2>3. flow' \in CfState
    <3>1. <<>> \in Seq(Int)
      OBVIOUS
    <3> QED
      BY <1>2, <2>2, <3>1 DEF CfState
  <2>4. /\ flow'.prog = flow.prog /\ flow'.start = flow.start /\ flow'.status = "parse"
        /\ flow'.known = flow.known \cup {flow.pc} /\ flow'.nodes = nodes /\ flow'.edges = edges
        /\ flow'.pc = back /\ flow'.curr = back /\ flow'.buffer = <<>> /\ flow'.stack = rest
    BY <1>2, <1>3, <2>2 DEF CfState
  <2>5. \A t \in CfPending : t = flow.pc \/ t \in CfPending'
    <3>1. ASSUME NEW i \in 1 .. Len(flow.stack)  PROVE  flow.stack[i] \in CfPending'
      <4>1. CASE flow.stack[i] = back
        BY <2>4, <4>1 DEF CfPending
      <4>2. CASE \E j \in 1 .. Len(rest) : rest[j] = flow.stack[i]
        BY <2>4, <4>2 DEF CfPending
      <4> QED
        BY <2>1, <4>1, <4>2
    <3> QED
      BY <3>1 DEF CfPending
  <2>6. CfGoesOn
    BY <2>3, <2>4, <2>5 DEF CfGoesOn
  <2>7. CfWriting'
    <3>1. CfOpen' = {} /\ Len(flow'.buffer) = 0
      BY <2>4 DEF CfOpen
    <3>2. flow'.known \ CfOpen' = flow.known \cup {flow.pc}
      BY <2>4, <3>1
    <3>3. /\ flow'.curr <= flow'.pc /\ Len(flow'.buffer) = flow'.pc - flow'.curr
          /\ \A k \in 1 .. Len(flow'.buffer) : flow'.buffer[k] = flow'.curr + k - 1
      BY <2>4, <3>1
    <3>4. CfPicture(flow'.prog, flow'.nodes, flow'.edges, flow'.known \ CfOpen')
      BY <2>4, <3>2
    <3> QED
      BY <3>1, <3>3, <3>4 DEF CfWriting
  <2> QED
    BY <2>3, <2>4, <2>6, <2>7, CfKeepsTrack DEF CfInv
<1> QED
  BY <1>4, <1>5

\* parse goes on at pc with nothing to draw: behind a branch or at a target.
LEMMA CfGoesOnAt ==
    ASSUME CfInv, flow.status = "parse", flow.pc \in DOMAIN flow.prog,
           NEW nodes \in SUBSET CfNode, NEW edges \in SUBSET (Int \X Int),
           NEW pc \in Int, NEW stack \in Seq(Int),
           flow' = [flow EXCEPT !.known = flow.known \cup {flow.pc}, !.nodes = nodes,
                                !.edges = edges, !.pc = pc, !.curr = pc, !.buffer = <<>>,
                                !.stack = stack],
           CfPicture(flow.prog, nodes, edges, flow.known \cup {flow.pc}),
           \A t \in CfSucc(flow.prog, flow.pc) :
               t \in flow.known \cup {flow.pc} \/ t = pc \/ \E i \in 1 .. Len(stack) : stack[i] = t,
           \A i \in 1 .. Len(flow.stack) : \E j \in 1 .. Len(stack) : stack[j] = flow.stack[i]
    PROVE  CfInv'
<1>1. flow.pc \in Int /\ flow \in CfState /\ <<>> \in Seq(Int)
  BY DEF CfInv, CfState
<1>2. flow' \in CfState
  <2>1. PICK known \in SUBSET Int : known = flow.known \cup {flow.pc}
    BY <1>1 DEF CfState
  <2> QED
    BY <1>1, <2>1 DEF CfState
<1>3. /\ flow'.prog = flow.prog /\ flow'.start = flow.start /\ flow'.status = "parse"
      /\ flow'.known = flow.known \cup {flow.pc} /\ flow'.nodes = nodes /\ flow'.edges = edges
      /\ flow'.pc = pc /\ flow'.curr = pc /\ flow'.buffer = <<>> /\ flow'.stack = stack
  BY <1>1 DEF CfState
<1>4. CfGoesOn
  <2>1. CfPending' = {pc} \cup {stack[i] : i \in 1 .. Len(stack)}
    BY <1>3 DEF CfPending
  <2> QED
    BY <1>2, <1>3, <2>1 DEF CfGoesOn, CfPending
<1>5. CfWriting'
  <2>1. CfOpen' = {} /\ Len(flow'.buffer) = 0
    BY <1>3 DEF CfOpen
  <2>2. flow'.known \ CfOpen' = flow.known \cup {flow.pc}
    BY <1>3, <2>1
  <2> QED
    BY <1>3, <2>1, <2>2 DEF CfWriting
<1> QED
  BY <1>2, <1>3, <1>4, <1>5, CfKeepsTrack DEF CfInv

LEMMA CfFails ==
    ASSUME CfInv, flow' = CfFail
    PROVE  CfInv'
<1>1. flow' \in CfState /\ flow'.status = "exit"
  BY DEF CfInv, CfState, CfFail
<1>2. flow'.known \subseteq DOMAIN flow'.prog
  BY DEF CfInv, CfState, CfFail
<1> QED
  BY <1>1, <1>2 DEF CfInv

LEMMA CfSees ==
    ASSUME CfInv, flow.status \in {"sweep", "parse"}, flow.pc \in DOMAIN flow.prog
    PROVE  /\ CfAt.op \in FlowOps /\ CfAt.arg \in Int
           /\ flow \in CfState /\ flow.pc \in Int /\ flow.pc + 1 \in Int /\ flow.curr \in Int
           /\ flow.stack \in Seq(Int) /\ flow.buffer \in Seq(Int) /\ flow.start \in Int
           /\ flow.nodes \in SUBSET CfNode /\ flow.edges \in SUBSET (Int \X Int)
           /\ flow.known \in SUBSET Int /\ flow.blocks \in SUBSET Int
<1>1. flow \in CfState
  BY DEF CfInv
<1>2. CfAt.op \in FlowOps /\ CfAt.arg \in Int
  BY <1>1, CfAssumption DEF CfState, IsProgram, CfAt
<1>3. /\ flow.pc \in Int /\ flow.curr \in Int /\ flow.stack \in Seq(Int)
      /\ flow.buffer \in Seq(Int) /\ flow.nodes \in SUBSET CfNode
      /\ flow.edges \in SUBSET (Int \X Int) /\ flow.known \in SUBSET Int
      /\ flow.blocks \in SUBSET Int
  BY <1>1 DEF CfState
<1>4. flow.start \in Int
  BY <1>1, CfAssumption DEF CfState
<1> QED
  BY <1>1, <1>2, <1>3, <1>4

LEMMA CfSweepStep ==
    ASSUME CfInv, CfSweep
    PROVE  CfInv'
<1>1. flow.status = "sweep" /\ flow.pc \in DOMAIN flow.prog
  BY DEF CfSweep
<1>2. \/ flow' = CfFail
      \/ \E blocks \in SUBSET Int, pc \in Int : flow' = [flow EXCEPT !.blocks = blocks, !.pc = pc]
      \/ flow' = [flow EXCEPT !.status = "parse", !.pc = flow.start]
  <2>1. CASE CfAt.op = "jr"
    BY <2>1 DEF CfSweep
  <2>2. CASE CfAt.op \in {"j", "br"}
    <3>1. CASE CfTarget \notin flow.blocks /\ Cardinality(flow.blocks) >= CfBlocksMax
      BY <2>2, <3>1 DEF CfSweep
    <3>2. CASE ~(CfTarget \notin flow.blocks /\ Cardinality(flow.blocks) >= CfBlocksMax)
      <4>1. flow' = [flow EXCEPT !.blocks = flow.blocks \cup {CfTarget}, !.pc = flow.pc + 1]
        BY <1>1, <2>2, <3>2, CfSees DEF CfSweep, CfState
      <4>2. flow.blocks \cup {CfTarget} \in SUBSET Int /\ flow.pc + 1 \in Int
        BY <1>1, CfSees DEF CfTarget
      <4> QED
        BY <4>1, <4>2
    <3> QED
      BY <3>1, <3>2
  <2>3. CASE CfAt.op = "ret"
    BY <2>3 DEF CfSweep
  <2>4. CASE CfAt.op \notin {"jr", "j", "br", "ret"}
    <3>1. flow' = [flow EXCEPT !.pc = flow.pc + 1]
      BY <1>1, <2>4, CfSees DEF CfSweep, CfState
    <3>2. flow' = [flow EXCEPT !.blocks = flow.blocks, !.pc = flow.pc + 1]
      BY <1>1, <3>1, CfSees DEF CfState
    <3> QED
      BY <1>1, <3>2, CfSees
  <2> QED
    BY <2>1, <2>2, <2>3, <2>4
<1>3. ASSUME NEW blocks \in SUBSET Int, NEW pc \in Int,
             flow' = [flow EXCEPT !.blocks = blocks, !.pc = pc]
      PROVE  CfInv'
  <2>1. flow' \in CfState
    BY <1>3 DEF CfInv, CfState
  <2>2. /\ flow'.status = "sweep" /\ flow'.prog = flow.prog /\ flow'.start = flow.start
        /\ flow'.known = flow.known /\ flow'.nodes = flow.nodes /\ flow'.edges = flow.edges
        /\ flow'.buffer = flow.buffer /\ flow'.stack = flow.stack /\ flow'.curr = flow.curr
    BY <1>1, <1>3 DEF CfInv, CfState
  <2> QED
    BY <1>1, <2>1, <2>2 DEF CfInv
<1>4. ASSUME flow' = [flow EXCEPT !.status = "parse", !.pc = flow.start]
      PROVE  CfInv'
  <2>1. flow' \in CfState
    BY <1>1, <1>4, CfSees DEF CfState
  <2>2. /\ flow'.status = "parse" /\ flow'.prog = flow.prog /\ flow'.start = flow.start
        /\ flow'.pc = flow.start /\ flow'.curr = flow.start /\ flow'.known = {}
        /\ flow'.nodes = {} /\ flow'.edges = {} /\ flow'.buffer = <<>> /\ flow.start \in Int
    BY <1>1, <1>4, CfSees DEF CfInv, CfState
  <2>3. CfCovered'
    BY <2>2 DEF CfCovered, CfPending
  <2>4. CfWriting'
    <3>1. CfOpen' = {} /\ Len(flow'.buffer) = 0
      BY <2>2 DEF CfOpen
    <3>2. flow'.known \ CfOpen' = {}
      BY <2>2
    <3>3. CfPicture(flow'.prog, flow'.nodes, flow'.edges, flow'.known \ CfOpen')
      BY <2>2, <3>2 DEF CfPicture
    <3> QED
      BY <2>2, <3>1, <3>3 DEF CfWriting
  <2> QED
    BY <2>1, <2>2, <2>3, <2>4 DEF CfInv
<1> QED
  BY <1>2, <1>3, <1>4, CfFails

LEMMA CfKnownStep ==
    ASSUME CfInv, CfKnown
    PROVE  CfInv'
<1>1. flow.status = "parse" /\ flow.pc \in DOMAIN flow.prog /\ flow.pc \in flow.known
  BY DEF CfKnown, CfParses
<1>2. PICK nodes \in SUBSET CfNode, edges \in SUBSET (Int \X Int) :
          nodes = flow.nodes \cup CfBoxNodes /\ edges = flow.edges \cup CfBoxEdges
  BY <1>1, CfSees, CfBoxed
<1>3. flow.known \cup {flow.pc} = flow.known
  BY <1>1
<1>4. PICK f : f = [flow EXCEPT !.known = flow.known \cup {flow.pc}, !.nodes = nodes, !.edges = edges]
  OBVIOUS
<1>5. f = [flow EXCEPT !.nodes = nodes, !.edges = edges]
  BY <1>1, <1>3, <1>4, CfSees DEF CfState
<1>6. flow' = CfReturnFrom(f)
  BY <1>2, <1>5 DEF CfKnown
<1>7. CfPicture(flow.prog, nodes, edges, flow.known \cup {flow.pc})
  BY <1>1, <1>2, <1>3, CfBoxed
<1> QED
  BY <1>1, <1>4, <1>6, <1>7, CfReturns

LEMMA CfNewOp ==
    ASSUME NEW ops, CfNew(ops)
    PROVE  /\ flow.status = "parse" /\ flow.pc \in DOMAIN flow.prog
           /\ flow.pc \notin flow.known /\ flow.prog[flow.pc].op \in ops
BY DEF CfNew, CfParses, CfAt

LEMMA CfRetStep ==
    ASSUME CfInv, CfRet
    PROVE  CfInv'
<1>1. /\ flow.status = "parse" /\ flow.pc \in DOMAIN flow.prog
      /\ flow.pc \notin flow.known /\ flow.prog[flow.pc].op \in {"ret"}
  BY CfNewOp DEF CfRet
<1> DEFINE own == [addr |-> flow.pc, text |-> <<flow.pc>>]
<1>2. own \in CfNode
  BY <1>1, CfSees DEF CfNode
<1>3. PICK nodes \in SUBSET CfNode, edges \in SUBSET (Int \X Int) :
          nodes = flow.nodes \cup CfBoxNodes \cup {own} /\ edges = flow.edges \cup CfBoxEdges
  BY <1>1, <1>2, CfSees, CfBoxed
<1>4. CfSucc(flow.prog, flow.pc) = {}
  BY <1>1 DEF CfSucc
<1>5. CfPicture(flow.prog, nodes, edges, flow.known \cup {flow.pc})
  <2>1. {} = {<<flow.pc, b>> : b \in CfSucc(flow.prog, flow.pc)}
    BY <1>4
  <2>2. CfPicture(flow.prog, nodes, edges \cup {}, flow.known \cup {flow.pc})
    BY <1>1, <1>3, <2>1, CfSees, CfBoxed, CfAddOne
  <2> QED
    BY <2>2
<1>6. PICK f : f = [flow EXCEPT !.known = flow.known \cup {flow.pc}, !.nodes = nodes, !.edges = edges]
  OBVIOUS
<1>7. flow' = CfReturnFrom(f)
  BY <1>1, <1>3, <1>6, CfSees DEF CfRet, CfState
<1> QED
  BY <1>1, <1>4, <1>5, <1>6, <1>7, CfReturns

LEMMA CfBranchStep ==
    ASSUME CfInv, CfBranch
    PROVE  CfInv'
<1>1. /\ flow.status = "parse" /\ flow.pc \in DOMAIN flow.prog
      /\ flow.pc \notin flow.known /\ flow.prog[flow.pc].op \in {"br"}
  BY CfNewOp DEF CfBranch
<1> DEFINE own == [addr |-> flow.pc, text |-> <<flow.pc>>]
           two == {<<flow.pc, flow.pc + 1>>, <<flow.pc, CfTarget>>}
<1>2. own \in CfNode /\ two \subseteq Int \X Int /\ CfTarget \in Int
  BY <1>1, CfSees DEF CfNode, CfTarget
<1>3. PICK nodes \in SUBSET CfNode, edges \in SUBSET (Int \X Int) :
          /\ nodes = flow.nodes \cup CfBoxNodes \cup {own}
          /\ edges = (flow.edges \cup CfBoxEdges) \cup two
  BY <1>1, <1>2, CfSees, CfBoxed
<1>4. CfSucc(flow.prog, flow.pc) = {flow.pc + 1, CfTarget}
  BY <1>1 DEF CfSucc, CfTarget, CfAt
<1>5. CfPicture(flow.prog, nodes, edges, flow.known \cup {flow.pc})
  <2>1. two = {<<flow.pc, b>> : b \in CfSucc(flow.prog, flow.pc)}
    BY <1>4
  <2> QED
    BY <1>1, <1>3, <2>1, CfSees, CfBoxed, CfAddOne
<1>6. PICK known \in SUBSET Int : known = flow.known \cup {flow.pc}
  BY <1>1, CfSees
<1>7. edges = flow.edges \cup {CfEdge(flow.pc, flow.pc + 1), CfEdge(flow.pc, CfTarget)}
                 \cup (IF flow.curr # flow.pc THEN {CfEdge(flow.curr, flow.pc)} ELSE {})
  <2>1. CfBoxEdges = IF flow.curr # flow.pc THEN {CfEdge(flow.curr, flow.pc)} ELSE {}
    BY <1>1, CfBoxed DEF CfBoxEdges
  <2> HIDE DEF two
  <2>2. two = {CfEdge(flow.pc, flow.pc + 1), CfEdge(flow.pc, CfTarget)}
    BY DEF CfEdge, two
  <2> QED
    BY <1>3, <2>1, <2>2
<1> DEFINE met == [flow EXCEPT !.known = known, !.nodes = nodes, !.edges = edges]
<1>8. /\ met \in CfState /\ met.known = known /\ met.stack = flow.stack
  BY <1>1, CfSees DEF CfState
<1>9. flow' = IF CfTarget \in known THEN [CfParseAt(met, flow.pc + 1) EXCEPT !.stack = flow.stack]
              ELSE [CfParseAt(met, CfTarget) EXCEPT !.stack = <<flow.pc + 1>> \o @]
  <2>1. met = [flow EXCEPT !.known = @ \cup {flow.pc},
                 !.nodes = @ \cup CfBoxNodes \cup {own},
                 !.edges = @ \cup {CfEdge(flow.pc, flow.pc + 1), CfEdge(flow.pc, CfTarget)}
                             \cup (IF flow.curr # flow.pc THEN {CfEdge(flow.curr, flow.pc)} ELSE {})]
    BY <1>1, <1>3, <1>6, <1>7, CfSees DEF CfState
  <2> HIDE DEF met
  <2>2. flow' = IF CfTarget \in met.known
                THEN [CfParseAt(met, flow.pc + 1) EXCEPT !.stack = flow.stack]
                ELSE [CfParseAt(met, CfTarget) EXCEPT !.stack = <<flow.pc + 1>> \o @]
    BY <2>1 DEF CfBranch
  <2> QED
    BY <1>8, <2>2
<1>10. CASE CfTarget \in known
  <2>1. flow' = [flow EXCEPT !.known = known, !.nodes = nodes, !.edges = edges,
                             !.pc = flow.pc + 1, !.curr = flow.pc + 1, !.buffer = <<>>,
                             !.stack = flow.stack]
    BY <1>1, <1>8, <1>9, <1>10, CfSees DEF CfParseAt, CfState
  <2>2. flow.pc + 1 \in Int /\ flow.stack \in Seq(Int)
    BY <1>1, CfSees
  <2> QED
    BY <1>1, <1>4, <1>5, <1>6, <1>10, <2>1, <2>2, CfGoesOnAt
<1>11. CASE CfTarget \notin known
  <2>1. PICK stack \in Seq(Int) :
            /\ stack = <<flow.pc + 1>> \o flow.stack
            /\ \E j \in 1 .. Len(stack) : stack[j] = flow.pc + 1
            /\ \A i \in 1 .. Len(flow.stack) : \E j \in 1 .. Len(stack) : stack[j] = flow.stack[i]
    <3>1. flow.stack \in Seq(Int) /\ flow.pc \in Int
      BY <1>1, CfSees
    <3> PICK next \in Int : next = flow.pc + 1
      BY <3>1
    <3>2. PICK stack \in Seq(Int) :
              /\ stack = <<flow.pc + 1>> \o flow.stack /\ Len(stack) = Len(flow.stack) + 1
              /\ stack[1] = flow.pc + 1
              /\ \A i \in 1 .. Len(flow.stack) : stack[i + 1] = flow.stack[i]
      <4>1. /\ <<next>> \o flow.stack \in Seq(Int) /\ (<<next>> \o flow.stack)[1] = next
            /\ Len(<<next>> \o flow.stack) = Len(flow.stack) + 1
            /\ \A i \in 1 .. Len(flow.stack) : (<<next>> \o flow.stack)[i + 1] = flow.stack[i]
        BY <3>1, PushFrame
      <4> QED
        BY <4>1
    <3>3. Len(flow.stack) \in Nat
      BY <3>1
    <3>4. 1 \in 1 .. Len(stack) /\ \A i \in 1 .. Len(flow.stack) : i + 1 \in 1 .. Len(stack)
      BY <3>2, <3>3
    <3> QED
      BY <3>2, <3>4
  <2>2. flow' = [flow EXCEPT !.known = known, !.nodes = nodes, !.edges = edges,
                             !.pc = CfTarget, !.curr = CfTarget, !.buffer = <<>>, !.stack = stack]
    BY <1>1, <1>8, <1>9, <1>11, <2>1, CfSees DEF CfParseAt, CfState
  <2>3. \A t \in CfSucc(flow.prog, flow.pc) :
            \/ t \in flow.known \cup {flow.pc} \/ t = CfTarget
            \/ \E i \in 1 .. Len(stack) : stack[i] = t
    BY <1>4, <2>1
  <2>4. \A i \in 1 .. Len(flow.stack) : \E j \in 1 .. Len(stack) : stack[j] = flow.stack[i]
    BY <2>1
  <2>5. flow' = [flow EXCEPT !.known = flow.known \cup {flow.pc}, !.nodes = nodes,
                             !.edges = edges, !.pc = CfTarget, !.curr = CfTarget,
                             !.buffer = <<>>, !.stack = stack]
    BY <1>6, <2>2
  <2> HIDE DEF own, two, met
  <2> QED
    BY <1>1, <1>2, <1>5, <2>3, <2>4, <2>5, CfGoesOnAt
<1> QED
  BY <1>10, <1>11

LEMMA CfJumpStep ==
    ASSUME CfInv, CfJump
    PROVE  CfInv'
<1>1. /\ flow.status = "parse" /\ flow.pc \in DOMAIN flow.prog
      /\ flow.pc \notin flow.known /\ flow.prog[flow.pc].op \in {"j", "jr"}
  BY CfNewOp DEF CfJump
<1>2. CASE CfAt.op = "jr"
  BY <1>2, CfFails DEF CfJump
<1>3. CASE CfAt.op = "j"
  <2>1. PICK n \in CfNode : n.addr = flow.curr /\ n.text = Append(flow.buffer, flow.pc)
    <3>1. /\ Append(flow.buffer, flow.pc) \in Seq(Int) /\ flow.curr \in Int
      BY <1>1, CfSees
    <3>2. [addr |-> flow.curr, text |-> Append(flow.buffer, flow.pc)] \in CfNode
      BY <3>1 DEF CfNode
    <3> QED
      BY <3>2
  <2>2. n = [addr |-> flow.curr, text |-> Append(flow.buffer, flow.pc)]
    BY <2>1 DEF CfNode
  <2>3. PICK nodes \in SUBSET CfNode, edges \in SUBSET (Int \X Int) :
            /\ nodes = flow.nodes \cup {n}
            /\ edges = flow.edges \cup {<<flow.curr, CfTarget>>}
    <3>1. <<flow.curr, CfTarget>> \in Int \X Int
      BY <1>1, CfSees DEF CfTarget
    <3> QED
      BY <1>1, <3>1, CfSees
  <2>4. CfSucc(flow.prog, flow.pc) = {CfTarget}
    BY <1>3 DEF CfSucc, CfTarget, CfAt
  <2>5. /\ flow.pc \in Int /\ flow.curr \in Int /\ flow.curr <= flow.pc
        /\ Len(flow.buffer) = flow.pc - flow.curr
        /\ Len(n.text) = flow.pc - flow.curr + 1 /\ n.text[Len(n.text)] = flow.pc
        /\ \A k \in 1 .. Len(flow.buffer) : n.text[k] = flow.buffer[k]
    <3>1. flow.buffer \in Seq(Int) /\ CfWriting /\ flow.pc \in Int /\ flow.curr \in Int
      BY <1>1, CfSees DEF CfInv
    <3> QED
      BY <2>1, <3>1 DEF CfWriting
  <2>6. CfIsNode(flow.prog, n)
    <3>1. ASSUME NEW k \in 1 .. Len(flow.buffer)
          PROVE  n.text[k] = flow.curr + k - 1 /\ flow.prog[n.text[k]].op \in CfPlain
      <4>1. flow.curr + k - 1 \in CfOpen
        BY <2>5 DEF CfOpen
      <4> QED
        BY <1>1, <2>5, <4>1 DEF CfInv, CfWriting
    <3>2. Len(n.text) - 1 = Len(flow.buffer)
      BY <2>5
    <3>3. \A k \in 1 .. Len(n.text) : k \in 1 .. Len(flow.buffer) \/ k = Len(n.text)
      BY <2>5
    <3>4. n.text[Len(n.text)] = flow.curr + Len(n.text) - 1
      BY <2>5
    <3> QED
      BY <2>1, <2>5, <3>1, <3>2, <3>3, <3>4 DEF CfIsNode
  <2>7. CfSpan(n) = CfOpen \cup {flow.pc}
    <3>1. n.addr + Len(n.text) - 1 = flow.pc
      BY <2>1, <2>5
    <3>2. flow.curr .. flow.pc = CfOpen \cup {flow.pc}
      BY <2>5 DEF CfOpen
    <3> QED
      BY <2>1, <3>1, <3>2 DEF CfSpan
  <2>8. CfPicture(flow.prog, nodes, edges, flow.known \cup {flow.pc})
    <3>1. CfPicture(flow.prog, flow.nodes, flow.edges, flow.known \ CfOpen) /\ CfOpen \subseteq flow.known
      BY <1>1 DEF CfInv, CfWriting
    <3>2. CfSpan(n) \cap (flow.known \ CfOpen) = {}
      BY <1>1, <2>7
    <3>3. {<<flow.curr, CfTarget>>} = {<<n.addr, b>> : b \in CfSucc(flow.prog, n.text[Len(n.text)])}
      BY <2>1, <2>4, <2>5
    <3>4. CfPicture(flow.prog, nodes, edges, (flow.known \ CfOpen) \cup CfSpan(n))
      BY <2>3, <2>6, <3>1, <3>2, <3>3, CfAddNode
    <3>5. (flow.known \ CfOpen) \cup CfSpan(n) = flow.known \cup {flow.pc}
      BY <2>7, <3>1
    <3> QED
      BY <3>4, <3>5
  <2>9. PICK met : met = [flow EXCEPT !.known = flow.known \cup {flow.pc}, !.nodes = nodes,
                                      !.edges = edges]
    OBVIOUS
  <2>10. met.known = flow.known \cup {flow.pc} /\ met.stack = flow.stack
    BY <1>1, <2>9, CfSees DEF CfState
  <2>11. flow' = IF CfTarget \in met.known THEN CfReturnFrom(met) ELSE CfParseAt(met, CfTarget)
    <3>1. met = [flow EXCEPT !.known = @ \cup {flow.pc},
                   !.nodes = @ \cup {[addr |-> flow.curr, text |-> Append(flow.buffer, flow.pc)]},
                   !.edges = @ \cup {CfEdge(flow.curr, CfTarget)}]
      BY <1>1, <2>2, <2>3, <2>9, CfSees DEF CfState, CfEdge
    <3> QED
      BY <1>3, <3>1 DEF CfJump
  <2>12. CASE CfTarget \in met.known
    <3>1. flow' = CfReturnFrom(met)
      BY <2>11, <2>12
    <3>2. CfSucc(flow.prog, flow.pc) \subseteq flow.known \cup {flow.pc}
      BY <2>4, <2>10, <2>12
    <3> QED
      BY <1>1, <2>8, <2>9, <3>1, <3>2, CfReturns
  <2>13. CASE CfTarget \notin met.known
    <3>1. flow' = [met EXCEPT !.pc = CfTarget, !.curr = CfTarget, !.buffer = <<>>]
      BY <2>11, <2>13 DEF CfParseAt
    <3>2. flow' = [flow EXCEPT !.known = flow.known \cup {flow.pc}, !.nodes = nodes,
                               !.edges = edges, !.pc = CfTarget, !.curr = CfTarget,
                               !.buffer = <<>>, !.stack = flow.stack]
      BY <1>1, <2>9, <3>1, CfSees DEF CfState
    <3>3. CfTarget \in Int /\ flow.stack \in Seq(Int)
      BY <1>1, CfSees DEF CfTarget
    <3>4. \A t \in CfSucc(flow.prog, flow.pc) :
              \/ t \in flow.known \cup {flow.pc} \/ t = CfTarget
              \/ \E i \in 1 .. Len(flow.stack) : flow.stack[i] = t
      BY <2>4
    <3> QED
      BY <1>1, <2>8, <3>2, <3>3, <3>4, CfGoesOnAt
  <2> QED
    BY <2>12, <2>13
<1> QED
  BY <1>1, <1>2, <1>3 DEF CfAt

LEMMA CfOtherStep ==
    ASSUME CfInv, CfOther
    PROVE  CfInv'
<1>1. /\ flow.status = "parse" /\ flow.pc \in DOMAIN flow.prog
      /\ flow.pc \notin flow.known /\ flow.prog[flow.pc].op \in CfPlain
  BY CfNewOp DEF CfOther, CfPlain
<1>2. CfSucc(flow.prog, flow.pc) = {flow.pc + 1}
  BY <1>1 DEF CfSucc, CfPlain
<1>3. PICK known \in SUBSET Int : known = flow.known \cup {flow.pc}
  BY <1>1, CfSees
<1>4. PICK next \in Int : next = flow.pc + 1
  BY <1>1, CfSees
<1> DEFINE met == [flow EXCEPT !.known = known, !.pc = next]
<1>5. flow' = IF flow.pc \in flow.blocks
              THEN [met EXCEPT !.nodes = @ \cup CfBoxNodes, !.edges = @ \cup CfBoxEdges,
                               !.curr = flow.pc, !.buffer = <<flow.pc>>]
              ELSE [met EXCEPT !.buffer = Append(@, flow.pc)]
  <2>1. met = [flow EXCEPT !.known = @ \cup {flow.pc}, !.pc = @ + 1]
    BY <1>1, <1>3, <1>4, CfSees DEF CfState
  <2> HIDE DEF met
  <2> QED
    BY <2>1 DEF CfOther
\* what both cases share
<1>6. ASSUME NEW nodes \in SUBSET CfNode, NEW edges \in SUBSET (Int \X Int),
             NEW curr \in Int, NEW buffer \in Seq(Int),
             flow' = [flow EXCEPT !.known = known, !.pc = next, !.nodes = nodes, !.edges = edges,
                                  !.curr = curr, !.buffer = buffer],
             CfWriting'
      PROVE  CfInv'
  <2>1. flow \in CfState
    BY DEF CfInv
  <2>2. flow' \in CfState
    BY <1>6, <2>1 DEF CfState
  <2>3. /\ flow'.status = "parse" /\ flow'.prog = flow.prog /\ flow'.start = flow.start
        /\ flow'.known = flow.known \cup {flow.pc} /\ flow'.stack = flow.stack
        /\ flow'.pc = flow.pc + 1
    BY <1>1, <1>3, <1>4, <1>6, <2>1 DEF CfState
  <2>4. CfGoesOn
    BY <1>1, <1>2, <2>2, <2>3 DEF CfGoesOn, CfPending
  <2> QED
    BY <1>6, <2>2, <2>3, <2>4, CfKeepsTrack DEF CfInv
<1>7. CASE flow.pc \in flow.blocks
  <2>1. PICK nodes \in SUBSET CfNode, edges \in SUBSET (Int \X Int) :
            nodes = flow.nodes \cup CfBoxNodes /\ edges = flow.edges \cup CfBoxEdges
    BY <1>1, CfSees, CfBoxed
  <2>2. PICK buffer \in Seq(Int) : buffer = <<flow.pc>> /\ Len(buffer) = 1 /\ buffer[1] = flow.pc
    <3>1. <<flow.pc>> \in Seq(Int) /\ Len(<<flow.pc>>) = 1 /\ <<flow.pc>>[1] = flow.pc
      BY <1>1, CfSees
    <3> QED
      BY <3>1
  <2>3. flow' = [flow EXCEPT !.known = known, !.pc = next, !.nodes = nodes, !.edges = edges,
                             !.curr = flow.pc, !.buffer = buffer]
    BY <1>1, <1>5, <1>7, <2>1, <2>2, CfSees DEF CfState
  <2>4. /\ flow'.prog = flow.prog /\ flow'.known = flow.known \cup {flow.pc}
        /\ flow'.pc = flow.pc + 1 /\ flow'.nodes = nodes /\ flow'.edges = edges
        /\ flow'.curr = flow.pc /\ flow'.buffer = buffer /\ flow.pc \in Int
    BY <1>1, <1>3, <1>4, <2>3, CfSees DEF CfState
  <2>5. CfOpen' = {flow.pc}
    BY <2>4 DEF CfOpen
  <2>6. flow'.known \ CfOpen' = flow.known
    BY <1>1, <2>4, <2>5
  <2>7. CfPicture(flow'.prog, flow'.nodes, flow'.edges, flow'.known \ CfOpen')
    BY <1>1, <2>1, <2>4, <2>6, CfBoxed
  <2>8. CfWriting'
    <3>1. flow'.curr <= flow'.pc /\ Len(flow'.buffer) = flow'.pc - flow'.curr
      BY <2>2, <2>4
    <3>2. \A k \in 1 .. Len(flow'.buffer) : flow'.buffer[k] = flow'.curr + k - 1
      <4>1. \A k \in 1 .. 1 : k = 1
        OBVIOUS
      <4> QED
        BY <2>2, <2>4, <4>1
    <3>3. CfOpen' \subseteq flow'.known /\ \A a \in CfOpen' : flow'.prog[a].op \in CfPlain
      BY <1>1, <2>4, <2>5
    <3> QED
      BY <2>7, <3>1, <3>2, <3>3 DEF CfWriting
  <2> QED
    BY <1>6, <2>3, <2>4, <2>8
<1>8. CASE flow.pc \notin flow.blocks
  <2>1. PICK buffer \in Seq(Int) :
            /\ buffer = Append(flow.buffer, flow.pc) /\ Len(buffer) = Len(flow.buffer) + 1
            /\ buffer[Len(buffer)] = flow.pc
            /\ \A k \in 1 .. Len(flow.buffer) : buffer[k] = flow.buffer[k]
    <3>1. flow.buffer \in Seq(Int) /\ flow.pc \in Int
      BY <1>1, CfSees
    <3>2. LET buffer == Append(flow.buffer, flow.pc)
          IN  /\ buffer \in Seq(Int) /\ Len(buffer) = Len(flow.buffer) + 1
              /\ buffer[Len(buffer)] = flow.pc
              /\ \A k \in 1 .. Len(flow.buffer) : buffer[k] = flow.buffer[k]
      BY <3>1
    <3> QED
      BY <3>2
  <2>2. flow' = [flow EXCEPT !.known = known, !.pc = next, !.nodes = flow.nodes,
                             !.edges = flow.edges, !.curr = flow.curr, !.buffer = buffer]
    BY <1>1, <1>5, <1>8, <2>1, CfSees DEF CfState
  <2>3. /\ flow'.prog = flow.prog /\ flow'.known = flow.known \cup {flow.pc}
        /\ flow'.pc = flow.pc + 1 /\ flow'.nodes = flow.nodes /\ flow'.edges = flow.edges
        /\ flow'.curr = flow.curr /\ flow'.buffer = buffer
        /\ flow.pc \in Int /\ flow.curr \in Int
    BY <1>1, <1>3, <1>4, <2>2, CfSees DEF CfState
  <2>4. CfWriting /\ Len(flow.buffer) \in Nat
    BY <1>1, CfSees DEF CfInv
  <2>5. CfOpen' = CfOpen \cup {flow.pc}
    BY <2>3, <2>4 DEF CfOpen, CfWriting
  <2>6. flow'.known \ CfOpen' = flow.known \ CfOpen
    BY <1>1, <2>3, <2>5
  <2>7. CfWriting'
    <3>1. flow'.curr <= flow'.pc /\ Len(flow'.buffer) = flow'.pc - flow'.curr
      BY <2>1, <2>3, <2>4 DEF CfWriting
    <3>2. \A k \in 1 .. Len(flow'.buffer) : flow'.buffer[k] = flow'.curr + k - 1
      <4>1. \A k \in 1 .. Len(buffer) : k \in 1 .. Len(flow.buffer) \/ k = Len(buffer)
        BY <2>1, <2>4
      <4>2. buffer[Len(buffer)] = flow.curr + Len(buffer) - 1
        BY <2>1, <2>3, <2>4 DEF CfWriting
      <4> QED
        BY <2>1, <2>3, <2>4, <4>1, <4>2 DEF CfWriting
    <3>3. CfOpen' \subseteq flow'.known /\ \A a \in CfOpen' : flow'.prog[a].op \in CfPlain
      BY <1>1, <2>3, <2>4, <2>5 DEF CfWriting
    <3>4. CfPicture(flow'.prog, flow'.nodes, flow'.edges, flow'.known \ CfOpen')
      BY <2>3, <2>4, <2>6 DEF CfWriting
    <3> QED
      BY <3>1, <3>2, <3>3, <3>4 DEF CfWriting
  <2>8. flow.nodes \in SUBSET CfNode /\ flow.edges \in SUBSET (Int \X Int)
    BY <1>1, CfSees
  <2> QED
    BY <1>6, <2>2, <2>3, <2>7, <2>8
<1> QED
  BY <1>7, <1>8

LEMMA CfInitial ==
    ASSUME CfInit
    PROVE  CfInv
<1>1. PICK p \in CfPrograms, s \in CfStarts :
          flow = [status |-> "sweep", prog |-> p, start |-> s, pc |-> s, blocks |-> {},
                  known |-> {}, curr |-> s, buffer |-> <<>>, stack |-> <<>>,
                  nodes |-> {}, edges |-> {}]
  BY DEF CfInit
<1>2. s \in Int /\ <<>> \in Seq(Int)
  BY CfAssumption
<1>3. flow \in CfState
  BY <1>1, <1>2 DEF CfState
<1> QED
  BY <1>1, <1>3 DEF CfInv

LEMMA CfInvariant == CfSpec => []CfInv
<1>1. CfInv /\ [CfNext]_flow => CfInv'
  <2> SUFFICES ASSUME CfInv, [CfNext]_flow
               PROVE  CfInv'
    OBVIOUS
  <2>1. CASE UNCHANGED flow
    BY <2>1 DEF CfInv, CfCovered, CfPending, CfWriting, CfOpen
  <2>2. CASE CfEndOfFile \/ CfFull
    BY <2>2, CfFails DEF CfEndOfFile, CfFull
  <2> QED
    BY <2>1, <2>2, CfSweepStep, CfKnownStep, CfRetStep, CfBranchStep, CfJumpStep, CfOtherStep
       DEF CfNext
<1> QED
  BY <1>1, CfInitial, PTL DEF CfSpec

\* Inside a box, behind its first address, no target begins that get_blocks met.
CfCut(text) == \A k \in 2 .. Len(text) : ~CfBegins(text[k])

CfSplit ==
    /\ \A n \in flow.nodes : CfCut(n.text)
    /\ \A k \in 2 .. Len(flow.buffer) : flow.buffer[k] \notin flow.blocks

\* A step of parse adds nodes that are cut, and what joins the box is no target.
LEMMA CfStaysSplit ==
    ASSUME CfSplit, flow'.prog = flow.prog, flow'.blocks = flow.blocks,
           \A n \in flow'.nodes : n \in flow.nodes \/ CfCut(n.text),
           \A k \in 2 .. Len(flow'.buffer) : flow'.buffer[k] \notin flow.blocks
    PROVE  CfSplit'
<1>1. \A b : ~CfBegins(b) => ~(b \in flow'.blocks /\ flow'.prog[b].op # "j")
  BY DEF CfBegins
<1>2. \A n \in flow'.nodes : CfCut(n.text)
  BY DEF CfSplit
<1> QED
  BY <1>1, <1>2 DEF CfSplit, CfCut, CfBegins

\* The boxes a step of parse writes.
LEMMA CfBoxIsCut ==
    ASSUME CfSplit
    PROVE  /\ \A n \in CfBoxNodes : CfCut(n.text)
           /\ \A a : CfCut(<<a>>)
<1>1. \A n \in CfBoxNodes : n.text = flow.buffer
  BY DEF CfBoxNodes
<1>2. CfCut(flow.buffer)
  BY DEF CfSplit, CfCut, CfBegins
<1>3. \A a : Len(<<a>>) = 1
  OBVIOUS
<1>4. 2 .. 1 = {}
  OBVIOUS
<1> QED
  BY <1>1, <1>2, <1>3, <1>4 DEF CfCut

LEMMA CfSplitKept ==
    ASSUME CfInv, CfSplit, [CfNext]_flow
    PROVE  CfSplit'
<1>1. CASE UNCHANGED flow
  BY <1>1 DEF CfSplit, CfCut, CfBegins
<1>2. flow \in CfState
  BY DEF CfInv
<1>3. ASSUME flow' = CfFail  PROVE  CfSplit'
  <2>1. /\ flow'.prog = flow.prog /\ flow'.blocks = flow.blocks
        /\ flow'.nodes = flow.nodes /\ flow'.buffer = flow.buffer
    BY <1>2, <1>3 DEF CfFail, CfState
  <2> QED
    BY <2>1, CfStaysSplit DEF CfSplit
<1>4. CASE CfEndOfFile \/ CfFull
  BY <1>3, <1>4 DEF CfEndOfFile, CfFull
<1>5. CASE CfSweep
  <2>1. flow.nodes = {} /\ flow.buffer = <<>>
    BY <1>5 DEF CfSweep, CfInv
  <2>2. flow'.nodes = flow.nodes /\ flow'.buffer = flow.buffer
    BY <1>2, <1>5 DEF CfSweep, CfFail, CfState
  <2>3. \A k \in 2 .. Len(flow'.buffer) : FALSE
    BY <2>1, <2>2
  <2> QED
    BY <2>1, <2>2, <2>3 DEF CfSplit
\* after a return of parse, or at its entry, the box is empty
<1>6. ASSUME NEW met, met \in CfState, met.prog = flow.prog, met.blocks = flow.blocks,
             \A n \in met.nodes : n \in flow.nodes \/ CfCut(n.text),
             \/ flow' = CfReturnFrom(met)
             \/ \E a : flow' = CfParseAt(met, a)
             \/ \E a, t : flow' = [CfParseAt(met, a) EXCEPT !.stack = t]
      PROVE  CfSplit'
  <2>1. /\ flow'.prog = met.prog /\ flow'.blocks = met.blocks
        /\ flow'.nodes = met.nodes /\ flow'.buffer = <<>>
    BY <1>6 DEF CfReturnFrom, CfParseAt, CfState
  <2>2. \A k \in 2 .. Len(flow'.buffer) : FALSE
    BY <2>1
  <2> QED
    BY <1>6, <2>1, <2>2, CfStaysSplit
<1>7. CASE CfKnown
  <2> DEFINE met == [flow EXCEPT !.nodes = @ \cup CfBoxNodes, !.edges = @ \cup CfBoxEdges]
  <2>1. flow.status = "parse" /\ flow' = CfReturnFrom(met)
    BY <1>7 DEF CfKnown, CfParses
  <2>2. met \in CfState
    BY <1>2, <2>1, CfBoxed DEF CfState
  <2>3. met.prog = flow.prog /\ met.blocks = flow.blocks /\ met.nodes = flow.nodes \cup CfBoxNodes
    BY <1>2 DEF CfState
  <2> HIDE DEF met
  <2> QED
    BY <1>6, <2>1, <2>2, <2>3, CfBoxIsCut
<1>8. ASSUME NEW nodes, NEW buffer,
             flow'.prog = flow.prog, flow'.blocks = flow.blocks,
             flow'.nodes = flow.nodes \cup nodes, flow'.buffer = buffer,
             \A n \in nodes : CfCut(n.text),
             \A k \in 2 .. Len(buffer) : buffer[k] \notin flow.blocks
      PROVE  CfSplit'
  <2>1. \A n \in flow'.nodes : n \in flow.nodes \/ CfCut(n.text)
    BY <1>8
  <2>2. \A k \in 2 .. Len(flow'.buffer) : flow'.buffer[k] \notin flow.blocks
    BY <1>8
  <2> QED
    BY <1>8, <2>1, <2>2, CfStaysSplit
<1>9. \A k \in 2 .. Len(<<>>) : FALSE
  OBVIOUS
<1>10. \A n \in CfBoxNodes \cup {[addr |-> flow.pc, text |-> <<flow.pc>>]} : CfCut(n.text)
  BY CfBoxIsCut
<1>11. CASE CfRet
  <2>1. /\ flow'.prog = flow.prog /\ flow'.blocks = flow.blocks
        /\ flow'.nodes = flow.nodes \cup (CfBoxNodes \cup {[addr |-> flow.pc, text |-> <<flow.pc>>]})
        /\ flow'.buffer = <<>>
    BY <1>2, <1>11 DEF CfRet, CfReturnFrom, CfState
  <2> QED
    BY <1>8, <1>9, <1>10, <2>1
<1>12. CASE CfBranch
  <2>1. /\ flow'.prog = flow.prog /\ flow'.blocks = flow.blocks
        /\ flow'.nodes = flow.nodes \cup (CfBoxNodes \cup {[addr |-> flow.pc, text |-> <<flow.pc>>]})
        /\ flow'.buffer = <<>>
    BY <1>2, <1>12 DEF CfBranch, CfParseAt, CfState
  <2> QED
    BY <1>8, <1>9, <1>10, <2>1
\* what the box grows to with the current instruction
<1>13. ASSUME flow.status = "parse", flow.pc \in DOMAIN flow.prog
       PROVE  \E text \in Seq(Int) :
                 /\ text = Append(flow.buffer, flow.pc)
                 /\ \A k \in 2 .. Len(text) : text[k] \notin flow.blocks \/ text[k] = flow.pc
  <2>1. flow.buffer \in Seq(Int) /\ flow.pc \in Int
    BY <1>13, CfSees
  <2>2. PICK text \in Seq(Int) :
            /\ text = Append(flow.buffer, flow.pc) /\ Len(text) = Len(flow.buffer) + 1
            /\ Len(flow.buffer) \in Nat /\ text[Len(text)] = flow.pc
            /\ \A k \in 1 .. Len(flow.buffer) : text[k] = flow.buffer[k]
    <3>1. /\ Append(flow.buffer, flow.pc) \in Seq(Int)
          /\ Len(Append(flow.buffer, flow.pc)) = Len(flow.buffer) + 1
          /\ Len(flow.buffer) \in Nat
          /\ Append(flow.buffer, flow.pc)[Len(flow.buffer) + 1] = flow.pc
          /\ \A k \in 1 .. Len(flow.buffer) : Append(flow.buffer, flow.pc)[k] = flow.buffer[k]
      BY <2>1
    <3> QED
      BY <3>1
  <2>3. \A k \in 2 .. Len(text) : k \in 2 .. Len(flow.buffer) \/ k = Len(text)
    BY <2>2
  <2>4. \A k \in 2 .. Len(flow.buffer) : k \in 1 .. Len(flow.buffer)
    OBVIOUS
  <2>5. \A k \in 2 .. Len(flow.buffer) : text[k] \notin flow.blocks
    BY <2>2, <2>4 DEF CfSplit
  <2> QED
    BY <2>2, <2>3, <2>5
<1>14. CASE CfJump
  <2>1. /\ flow.status = "parse" /\ flow.pc \in DOMAIN flow.prog
        /\ flow.prog[flow.pc].op \in {"j", "jr"}
    BY <1>14, CfNewOp DEF CfJump
  <2>2. CASE CfAt.op = "jr"
    BY <1>3, <1>14, <2>2 DEF CfJump
  <2>3. CASE CfAt.op # "jr"
    <3>1. PICK text \in Seq(Int) :
              /\ text = Append(flow.buffer, flow.pc)
              /\ \A k \in 2 .. Len(text) : text[k] \notin flow.blocks \/ text[k] = flow.pc
      BY <1>13, <2>1
    <3>2. /\ flow'.prog = flow.prog /\ flow'.blocks = flow.blocks
          /\ flow'.nodes = flow.nodes \cup {[addr |-> flow.curr, text |-> text]}
          /\ flow'.buffer = <<>>
      BY <1>2, <1>14, <2>3, <3>1 DEF CfJump, CfReturnFrom, CfParseAt, CfState
    <3>3. ~CfBegins(flow.pc)
      BY <2>1, <2>3 DEF CfBegins, CfAt
    <3>4. CfCut(text)
      BY <3>1, <3>3 DEF CfCut, CfBegins
    <3>5. \A n \in {[addr |-> flow.curr, text |-> text]} : CfCut(n.text)
      BY <3>4
    <3> QED
      BY <1>8, <1>9, <3>2, <3>5
  <2> QED
    BY <2>2, <2>3
<1>15. CASE CfOther
  <2>1. flow.status = "parse" /\ flow.pc \in DOMAIN flow.prog
    BY <1>15, CfNewOp DEF CfOther
  <2>2. CASE flow.pc \in flow.blocks
    <3>1. /\ flow'.prog = flow.prog /\ flow'.blocks = flow.blocks
          /\ flow'.nodes = flow.nodes \cup CfBoxNodes /\ flow'.buffer = <<flow.pc>>
      BY <1>2, <1>15, <2>2 DEF CfOther, CfState
    <3>2. \A k \in 2 .. Len(<<flow.pc>>) : FALSE
      OBVIOUS
    <3> QED
      BY <1>8, <1>10, <3>1, <3>2
  <2>3. CASE flow.pc \notin flow.blocks
    <3>1. PICK text \in Seq(Int) :
              /\ text = Append(flow.buffer, flow.pc)
              /\ \A k \in 2 .. Len(text) : text[k] \notin flow.blocks \/ text[k] = flow.pc
      BY <1>13, <2>1
    <3>2. /\ flow'.prog = flow.prog /\ flow'.blocks = flow.blocks
          /\ flow'.nodes = flow.nodes /\ flow'.buffer = text
      BY <1>2, <1>15, <2>3, <3>1 DEF CfOther, CfState
    <3>3. \A k \in 2 .. Len(text) : text[k] \notin flow.blocks
      BY <2>3, <3>1
    <3> QED
      BY <3>2, <3>3, CfStaysSplit
  <2> QED
    BY <2>2, <2>3
<1> QED
  BY <1>1, <1>4, <1>5, <1>7, <1>11, <1>12, <1>14, <1>15 DEF CfNext

LEMMA CfSplitInvariant == CfSpec => []CfSplit
<1>1. CfInit => CfSplit
  BY DEF CfInit, CfSplit
<1>2. CfInv /\ CfSplit /\ [CfNext]_flow => CfSplit'
  BY CfSplitKept
<1> QED
  BY <1>1, <1>2, CfInvariant, PTL DEF CfSpec

\* The finished picture has every instruction of the function in one place, and
\* shows the flow of control between them and no other (codeflow/main.c, parse).
THEOREM PictureIsRight == CfSpec => []CfFlowIsShown
<1>1. ASSUME CfInv, CfSplit  PROVE  CfFlowIsShown
  <2> SUFFICES ASSUME flow.status = "done"
               PROVE  /\ CfEveryInstructionOnce
                      /\ \A a, b \in CfReachable : b \in CfSucc(flow.prog, a) <=> CfShownBehind(a, b)
    BY DEF CfFlowIsShown, CfDone
  <2>1. CfPicture(flow.prog, flow.nodes, flow.edges, flow.known) /\ CfCovered
    BY <1>1 DEF CfInv
  <2>2. CfReachable \subseteq flow.known
    <3>1. flow.known \in SUBSET DOMAIN flow.prog
      BY <1>1 DEF CfInv
    <3>2. {flow.start} \cap DOMAIN flow.prog \subseteq flow.known
      BY <2>1 DEF CfCovered
    <3>3. Closed(flow.prog, CfSucc, flow.known)
      BY <2>1 DEF Closed, CfCovered
    <3> QED
      BY <3>1, <3>2, <3>3 DEF CfReachable, Reached
  <2>3. ASSUME NEW n \in flow.nodes
        PROVE  /\ CfIsNode(flow.prog, n) /\ n.addr \in Int /\ Len(n.text) \in Nat
               /\ DOMAIN n.text = 1 .. Len(n.text)
               /\ \A k \in 1 .. Len(n.text) : n.text[k] = n.addr + k - 1 /\ n.text[k] \in CfSpan(n)
    <3>1. CfIsNode(flow.prog, n)
      BY <2>1 DEF CfPicture
    <3>2. n.addr \in Int /\ n.text \in Seq(Int)
      BY <3>1 DEF CfIsNode, CfNode
    <3> QED
      BY <3>1, <3>2 DEF CfIsNode, CfSpan
  \* the place of an instruction
  <2>4. ASSUME NEW a \in flow.known
        PROVE  \E n \in flow.nodes : \E k \in 1 .. Len(n.text) :
                   /\ n.text[k] = a
                   /\ \A m \in flow.nodes : \A j \in 1 .. Len(m.text) :
                          m.text[j] = a => m = n /\ j = k
    <3>1. PICK n \in flow.nodes : a \in CfSpan(n)
      BY <2>1 DEF CfPicture
    <3>2. a - n.addr + 1 \in 1 .. Len(n.text) /\ n.addr + (a - n.addr + 1) - 1 = a
      BY <2>3, <3>1 DEF CfSpan
    <3>3. ASSUME NEW m \in flow.nodes, NEW j \in 1 .. Len(m.text), m.text[j] = a
          PROVE  m = n /\ j = a - n.addr + 1
      <4>1. a \in CfSpan(m) /\ a = m.addr + j - 1
        BY <2>3, <3>3
      <4>2. m = n
        BY <2>1, <3>1, <4>1 DEF CfPicture
      <4> QED
        BY <2>3, <4>1, <4>2
    <3> QED
      BY <2>3, <3>2, <3>3
  <2>5. CfEveryInstructionOnce
    <3> SUFFICES ASSUME NEW a \in CfReachable
                 PROVE  \E n \in flow.nodes : \E k \in DOMAIN n.text :
                            /\ n.text[k] = a
                            /\ \A m \in flow.nodes : \A j \in DOMAIN m.text :
                                   m.text[j] = a => m = n /\ j = k
      BY DEF CfEveryInstructionOnce
    <3>1. \A n \in flow.nodes : DOMAIN n.text = 1 .. Len(n.text)
      BY <2>3
    <3>2. PICK n \in flow.nodes : \E k \in 1 .. Len(n.text) :
              /\ n.text[k] = a
              /\ \A m \in flow.nodes : \A j \in 1 .. Len(m.text) : m.text[j] = a => m = n /\ j = k
      BY <2>2, <2>4
    <3>3. PICK k \in DOMAIN n.text :
              /\ n.text[k] = a
              /\ \A m \in flow.nodes : \A j \in 1 .. Len(m.text) : m.text[j] = a => m = n /\ j = k
      BY <3>1, <3>2
    <3>4. \A m \in flow.nodes : \A j \in DOMAIN m.text : m.text[j] = a => m = n /\ j = k
      BY <3>1, <3>3
    <3> QED
      BY <3>3, <3>4
  <2>6. ASSUME NEW n \in flow.nodes, NEW k \in 1 .. (Len(n.text) - 1)
        PROVE  /\ k \in 1 .. Len(n.text) /\ k + 1 \in 1 .. Len(n.text)
               /\ CfSucc(flow.prog, n.text[k]) = {n.text[k + 1]}
    <3>1. k \in 1 .. Len(n.text) /\ k + 1 \in 1 .. Len(n.text)
      BY <2>3
    <3>2. n.text[k + 1] = n.text[k] + 1
      BY <2>3, <3>1
    <3>3. flow.prog[n.text[k]].op \in CfPlain
      BY <2>3 DEF CfIsNode
    <3> QED
      BY <3>1, <3>2, <3>3 DEF CfSucc, CfPlain
  <2>7. ASSUME NEW n \in flow.nodes, NEW b
        PROVE  CfEdge(n.addr, b) \in flow.edges <=> b \in CfSucc(flow.prog, n.text[Len(n.text)])
    BY <2>1 DEF CfPicture, CfEdge
  <2>8. ASSUME NEW a \in flow.known, NEW b \in flow.known, b \in CfSucc(flow.prog, a)
        PROVE  CfShownBehind(a, b)
    <3>1. PICK n \in flow.nodes : \E k \in 1 .. Len(n.text) : n.text[k] = a
      BY <2>4
    <3>2. PICK k \in 1 .. Len(n.text) : n.text[k] = a
      BY <3>1
    <3>3. k \in 1 .. (Len(n.text) - 1) \/ k = Len(n.text)
      BY <2>3
    <3>4. CASE k \in 1 .. (Len(n.text) - 1)
      <4>1. n.text[k] = a /\ n.text[k + 1] = b
        BY <2>6, <2>8, <3>2, <3>4
      <4> QED
        BY <3>4, <4>1 DEF CfShownBehind
    <3>5. CASE k = Len(n.text)
      <4>1. n.text[Len(n.text)] = a /\ CfEdge(n.addr, b) \in flow.edges
        BY <2>7, <2>8, <3>2, <3>5
      \* b begins the node m it is in, or no box begins at it
      <4>2. b \in flow.known
        BY <2>8
      <4>3. PICK m \in flow.nodes : \E j \in 1 .. Len(m.text) : m.text[j] = b
        BY <2>4, <4>2
      <4>4. PICK j \in 1 .. Len(m.text) : m.text[j] = b
        BY <4>3
      <4>5. CASE j = 1
        <5>1. m.addr = b
          BY <2>3, <4>4, <4>5
        <5> QED
          BY <4>1, <5>1 DEF CfShownBehind
      <4>6. CASE j # 1
        <5>1. j \in 2 .. Len(m.text) /\ j - 1 \in 1 .. (Len(m.text) - 1)
          BY <2>3, <4>6
        <5>2. ~CfBegins(b)
          BY <1>1, <4>4, <5>1 DEF CfSplit, CfCut
        <5>3. ASSUME b = a + 1  PROVE  FALSE
          <6>1. m.text[j - 1] = m.addr + (j - 1) - 1 /\ b = m.addr + j - 1 /\ m.addr \in Int
            BY <2>3, <4>4, <5>1
          <6>2. a \in Int /\ j \in Int /\ Len(m.text) \in Nat
            BY <2>3, <3>2, <4>4
          <6>3. m.text[j - 1] = a /\ j - 1 \in 1 .. Len(m.text)
            BY <5>1, <5>3, <6>1, <6>2
          <6>4. m = n /\ j - 1 = k
            BY <2>4, <3>2, <6>3
          <6> QED
            BY <3>5, <5>1, <6>4
        <5> QED
          BY <4>1, <5>2, <5>3 DEF CfShownBehind
      <4> QED
        BY <4>5, <4>6
    <3> QED
      BY <3>3, <3>4, <3>5
  <2>9. ASSUME NEW a, NEW b, CfShownBehind(a, b)
        PROVE  b \in CfSucc(flow.prog, a)
    BY <2>6, <2>7, <2>9 DEF CfShownBehind
  <2> QED
    BY <2>2, <2>5, <2>8, <2>9
<1> QED
  BY <1>1, CfInvariant, CfSplitInvariant, PTL
=============================================================================
