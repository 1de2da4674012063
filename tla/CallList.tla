------------------------------ MODULE CallList ------------------------------
(***************************************************************************)
(* list_calls/main.c: the walk of the call graph tool with its jumps and   *)
(* branches commented out, printing each new call with one tab per level.  *)
(***************************************************************************)
EXTENDS FlowProgram

CONSTANTS ClPrograms, ClStarts, ClTargetsMax,
          ClDepths  \* values of depth, a uint8_t: 256

ASSUME ClAssumption ==
    /\ ClStarts \subseteq Int /\ \A p \in ClPrograms : IsProgram(p)
    /\ ClDepths \in Nat \ {0}

VARIABLE list
\* As graph in CallGraph; list.lines is call_list.txt, each line with its tabs
\* (nest, the number of callers above it, is not in the file).

\* main
ClInit ==
    \E p \in ClPrograms : \E s \in ClStarts :
       list = [status |-> "run", prog |-> p, start |-> s, pc |-> s, reg |-> 0,
               stack |-> <<>>, known |-> {}, lines |-> <<>>]

ClAt == list.prog[list.pc]

ClDecodes(ops) ==
    /\ list.status = "run"
    /\ list.pc \in DOMAIN list.prog
    /\ ClAt.op \in ops

ClEndOfFile ==
    /\ list.status = "run"
    /\ list.pc \notin DOMAIN list.prog
    /\ list' = [list EXCEPT !.status = "exit"]

\* Everything but calls and returns is passed over: jumps and branches too.
ClLoad ==
    /\ ClDecodes({"other", "set", "load", "j", "jr", "br"})
    /\ list' = [list EXCEPT !.pc = @ + 1,
                            !.reg = CASE ClAt.op = "set" -> ClAt.arg
                                      [] ClAt.op = "load" -> ADDR_STOP
                                      [] OTHER -> @]

ClDest == IF ClAt.op = "jral" THEN list.reg ELSE ClAt.arg

\* Variant of ClCall: the callee is walked at the caller's depth.
ClCallFlat ==
    /\ ClDecodes({"jal", "jral"})
    /\ list' = IF ~IsValid(ClDest) \/ ClDest \in list.known THEN [list EXCEPT !.pc = @ + 1]
               ELSE [list EXCEPT !.known = @ \cup {ClDest}, !.pc = ClDest,
                                 !.lines = Append(@, [tabs |-> 0, nest |-> Len(list.stack), dest |-> ClDest]),
                                 !.stack = <<[pc |-> list.pc + 1, reg |-> list.reg]>> \o @]

\* PRINT_TAB and the parameter depth of go keep eight bits of the nesting.
ClLine(nest, dest) == [tabs |-> nest % ClDepths, nest |-> nest, dest |-> dest]

\* JAL and JRAL: a line at the caller's depth, then the callee one level deeper.
ClCall ==
    /\ ClDecodes({"jal", "jral"})
    /\ list' = IF ~IsValid(ClDest) \/ ClDest \in list.known THEN [list EXCEPT !.pc = @ + 1]
               ELSE IF Cardinality(list.known) >= ClTargetsMax THEN [list EXCEPT !.status = "exit"]
               ELSE [list EXCEPT !.known = @ \cup {ClDest}, !.pc = ClDest,
                                 !.lines = Append(@, ClLine(Len(list.stack), ClDest)),
                                 !.stack = <<[pc |-> list.pc + 1, reg |-> list.reg]>> \o @]

ClReturn ==
    /\ ClDecodes({"ret", "iret"})
    /\ list' = IF list.stack = <<>> THEN [list EXCEPT !.status = "done"]
               ELSE [list EXCEPT !.pc = Head(list.stack).pc, !.reg = Head(list.stack).reg,
                                 !.stack = Tail(@)]

ClNext == ClEndOfFile \/ ClLoad \/ ClCall \/ ClReturn

----------------------------------------------------------------------------
\* The code of a function as this tool sees it: from its start to the first
\* return, in the order of the addresses.
Linear(p, f) == {a \in DOMAIN p : a >= f /\ \A b \in f..(a - 1) : p[b].op \notin {"ret", "iret"}}

\* The caller a reader takes line n to belong to, from the indentation.
ReadCaller(n) ==
    LET above == {m \in 1..(n - 1) : list.lines[m].tabs < list.lines[n].tabs}
    IN IF above = {} THEN list.start
       ELSE list.lines[CHOOSE m \in above : \A k \in above : k <= m].dest

\* The indentation tells the truth up to the first call that is nested deeper
\* than a uint8_t counts: the line above with fewer tabs is the function that
\* contains the call.
ClIndentation ==
    list.status # "idle" =>
        \A n \in DOMAIN list.lines :
            (\A m \in 1..n : list.lines[m].nest < ClDepths) =>
            \E a \in Linear(list.prog, ReadCaller(n)) :
                \/ list.prog[a] = In("jal", list.lines[n].dest)
                \/ list.prog[a].op = "jral"
=============================================================================
