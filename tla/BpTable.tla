------------------------------ MODULE BpTable ------------------------------
(***************************************************************************)
(* The breakpoint table of simulate/breakpoints.c as operators: what an    *)
(* entry is, when two entries count as the same, how the "bp" commands     *)
(* change the table, and when an entry fires.  Walking the table is a      *)
(* process of its own and is part of Simulator.                            *)
(***************************************************************************)
EXTENDS Isa, Sequences

CONSTANTS
    ScriptName,   \* files a script breakpoint can name
    NoScript,     \* the zeroed script field of any other entry
    MaxBp         \* NB_BREAKPOINTS_MAX: 20

ASSUME BpAssumption ==
    /\ 0 \in Reg /\ Reg \subseteq 0 .. 31
    /\ NoScript \notin ScriptName
    /\ MaxBp \in 1 .. 255

MemTypes == {"MEMORY_READ", "MEMORY_WRITE"}
RegTypes == {"REGISTER_IS_VALUE", "REGISTER_IS_NOT_VALUE"}
EventType == MemTypes \cup RegTypes \cup {"PC_IS_VALUE"}
AddrKind == {"ADDR", "RANGE"}
MatchKind == {"IS_ACCESSED", "IS_VALUE", "IS_NOT_VALUE", "IS_UNDEF"}
Action == {"MESSAGE", "STOP", "JUMP", "SCRIPT"}

EventFields ==
    [disabled : BOOLEAN, type : EventType, kind : AddrKind, match : MatchKind,
     addr : Int, from : Int, to : Int, value : Int, reg : Reg, pc : Int,
     action : Action, target : Int, script : ScriptName \cup {NoScript}]

\* bp_parse_action refuses "script" without a file.
Event == {ev \in EventFields : ev.action = "SCRIPT" => ev.script \in ScriptName}

\* memset(&ev, 0, sizeof(event_t)), before the command line fills it in.
BlankEvent ==
    [disabled |-> FALSE, type |-> "MEMORY_READ", kind |-> "ADDR", match |-> "IS_ACCESSED",
     addr |-> 0, from |-> 0, to |-> 0, value |-> 0, reg |-> 0, pc |-> 0,
     action |-> "MESSAGE", target |-> 0, script |-> NoScript]

\* The what-it-matches part of the three shapes "bp create" parses.
MemBp(type, addr, match, value) ==
    [BlankEvent EXCEPT !.type = type, !.addr = addr, !.match = match, !.value = value]
RangeBp(type, from, to, match, value) ==
    [BlankEvent EXCEPT !.type = type, !.kind = "RANGE", !.from = from, !.to = to,
                       !.match = match, !.value = value]
RegBp(type, reg, value) ==
    [BlankEvent EXCEPT !.type = type, !.reg = reg, !.value = value]
PcBp(pc) == [BlankEvent EXCEPT !.type = "PC_IS_VALUE", !.pc = pc]

\* The action that follows it on the command line (bp_parse_action).
Does(ev, action)    == [ev EXCEPT !.action = action]
Jumps(ev, target)   == [ev EXCEPT !.action = "JUMP", !.target = target]
Runs(ev, script)    == [ev EXCEPT !.action = "SCRIPT", !.script = script]

----------------------------------------------------------------------------
\* event_compare: the same breakpoint, whatever its action.
EventCompare(e1, e2) ==
    /\ e1.type = e2.type
    /\ e1.type \in MemTypes =>
         /\ e1.kind = e2.kind
         /\ e1.kind = "ADDR" =>
              /\ e1.addr = e2.addr
              /\ e1.match = e2.match
              /\ e1.match \in {"IS_VALUE", "IS_NOT_VALUE"} => e1.value = e2.value
         /\ e1.kind = "RANGE" => e1.from = e2.from /\ e1.to = e2.to
    /\ e1.type \in RegTypes => e1.reg = e2.reg /\ e1.value = e2.value
    /\ e1.type = "PC_IS_VALUE" => e1.pc = e2.pc

NoDuplicates(bp) ==
    \A i, j \in 1 .. Len(bp) : i # j => ~EventCompare(bp[i], bp[j])

\* Variant of Refused: one entry too many.
RefusedLate(bp, ev) ==
    \/ Len(bp) > MaxBp
    \/ \E i \in 1 .. Len(bp) : EventCompare(bp[i], ev)

\* register_breakpoint: a full table or a breakpoint that exists refuses it.
Refused(bp, ev) ==
    \/ Len(bp) >= MaxBp
    \/ \E i \in 1 .. Len(bp) : EventCompare(bp[i], ev)

RegisterBreakpoint(bp, ev) == IF Refused(bp, ev) THEN bp ELSE Append(bp, ev)

\* The number typed by the user is kept in a uint8_t.
BpNumber(n) == n % 256
ValidNumber(bp, n) == BpNumber(n) \in 1 .. Len(bp)

\* "bp remove": the entries behind the removed one move up.
RemoveBreakpoint(bp, n) ==
    IF ~ValidNumber(bp, n) THEN bp
    ELSE [i \in 1 .. Len(bp) - 1 |-> IF i < BpNumber(n) THEN bp[i] ELSE bp[i + 1]]

\* "bp enable" and "bp disable" of one entry and of all.
SetDisabled(bp, n, disabled) ==
    IF ValidNumber(bp, n) THEN [bp EXCEPT ![BpNumber(n)].disabled = disabled] ELSE bp

SetAllDisabled(bp, disabled) ==
    [i \in 1 .. Len(bp) |-> [bp[i] EXCEPT !.disabled = disabled]]

----------------------------------------------------------------------------
\* simulate_check_for_breakpoints: entry ev fires before the instruction.
FiresBeforeInstr(ev, pc, regs) ==
    /\ ~ev.disabled
    /\ \/ ev.type = "REGISTER_IS_VALUE" /\ regs[ev.reg] = ev.value
       \/ ev.type = "REGISTER_IS_NOT_VALUE" /\ regs[ev.reg] # ev.value
       \/ ev.type = "PC_IS_VALUE" /\ pc = ev.pc

\* mem_rw_check_for_breakpoints: entry ev fires on the access acc.  There is
\* no test for IS_NOT_VALUE.
FiresOnAccess(ev, acc) ==
    /\ ~ev.disabled
    /\ ev.type = acc.type
    /\ ev.kind = "ADDR" => ev.addr = acc.addr
    /\ ev.kind = "RANGE" => acc.addr \in ev.from .. ev.to
    /\ ev.match = "IS_VALUE" => ev.value = acc.val
    /\ ev.match = "IS_UNDEF" => ~acc.init
=============================================================================
