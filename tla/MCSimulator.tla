---------------------------- MODULE MCSimulator ----------------------------
(***************************************************************************)
(* Instances of Simulator for TLC: small firmware images with a timer      *)
(* interrupt, breakpoint tables and commands.                              *)
(*                                                                         *)
(* Every image starts TIMER1 and interrupts and then loops over two        *)
(* instructions x and y that vary; a subroutine at 32 returns at once; the *)
(* handler at 64 acknowledges the timer and writes a word of its own.      *)
(* With WordSize = 4 and PrescalerReload = 2 the timer interrupts every 8  *)
(* steps, which drifts through the loop and hits every instruction of it.  *)
(***************************************************************************)
EXTENDS SimProps, TLC

\* Addresses: a word and its neighbour in one page, the handler's word in
\* another page, a page nobody writes, and the devices.
A == 100
B == 104
H == 200
U == 300
CTRL == 400
CLR == 404
STATUS == 408
MASK == 412
CNT == 416
RX == 420

MCAddr == {A, B, H, U, CTRL, CLR, STATUS, MASK, CNT, RX}
MCPage == [a \in MCAddr |-> a \div 100]
MCDevice ==
    [a \in MCAddr |-> CASE a = CTRL -> "CTRL" [] a = CLR -> "INT_CLEAR"
                        [] a = STATUS -> "IRQ_STATUS" [] a = MASK -> "INT_MASK"
                        [] a = CNT -> "CNT" [] a = RX -> "UART_RX" [] OTHER -> "none"]

I(op, r, s, imm) ==
    [op |-> op, r |-> r, s |-> s, imm |-> imm, sr |-> "PSW", len |-> 4,
     list |-> <<>>, move |-> 0]
Short(i) == [i EXCEPT !.len = 2]
SpecialOp(op, r, sr) == [I(op, r, r, 0) EXCEPT !.sr = sr]

Set(r, v)    == I("set", r, 0, v)
Load(r, a)   == I("lwi", r, 0, a)
Store(r, a)  == I("swi", r, 0, a)
LoadMultiple(list, a)  == [I("lmw", 0, 30, a) EXCEPT !.list = list, !.move = 4 * Len(list)]
StoreMultiple(list, a) == [I("smw", 0, 30, a) EXCEPT !.list = list, !.move = -4 * Len(list)]
Call(from)   == I("jal", 0, 0, 32 - from)
Back(from)   == I("j", 0, 0, 12 - from)

Setup == 0 :> Set(0, 1) @@ 4 :> Store(0, CTRL) @@ 8 :> I("setgie", 0, 0, 1)
Handler64 == 64 :> Set(1, IRQ_MASK_TMR1) @@ 68 :> Store(1, CLR)
               @@ 72 :> Store(1, H) @@ 76 :> I("iret", 0, 0, 0)
Subroutine == 32 :> I("ret", 0, LP, 0)

\* x at 12, y behind it, and the jump back.
Image(x, y) ==
    LET b == 12 + x.len
        e == b + y.len
    IN Setup @@ Handler64 @@ Subroutine @@ 12 :> x @@ b :> y @@ e :> Back(e)

\* Programs without special registers and without loads of devices.
Remember == Image(Store(0, A), Load(0, A))
Halves   == Image(Short(Store(0, B)), Load(0, A))
Loops    == Image(Set(0, 0), I("beqz", 0, 0, -4))
Calls    == Image(Call(12), Short(Set(0, 2)))
CallsReg == Image(Set(30, 32), I("jral", 0, 30, 0))
Unset    == Image(Short(Load(0, U)), Store(0, A))

\* Programs with the rest.
SpecialRegs == Image(SpecialOp("mfsr", 0, "IPC"), SpecialOp("mtsr", 0, "IPSW"))
Unknown     == Image(I("unimpl", 0, 0, 0), Set(0, 0))
Idle        == Image(I("setgie", 0, 0, 0), I("j", 0, 0, 0))
Devices     == Image(Load(0, STATUS), Store(0, CNT))
Masked      == Image(Store(0, MASK), Load(0, MASK))
Astray      == Image(Set(0, 3), I("jr", 0, 0, 0))
Typed       == Image(Load(0, RX), Load(0, CLR))
Frame       == Setup @@ Handler64 @@ 12 :> Set(30, 8)
                   @@ 16 :> StoreMultiple(<<0, 1>>, A) @@ 20 :> LoadMultiple(<<0, 1>>, A)
                   @@ 24 :> Back(24)
Torn        == Image(Store(0, A), LoadMultiple(<<0, 1>>, A))

Session(image, table) == [code |-> image, bp |-> table]

Command0 == [cmd |-> "bad", n |-> 0, v |-> 0, ev |-> BlankEvent]
SetReg(r, v)   == [Command0 EXCEPT !.cmd = "reg", !.n = r, !.v = v]
SetWord(a, v)  == [Command0 EXCEPT !.cmd = "word", !.n = a, !.v = v]
SetPc(a)       == [Command0 EXCEPT !.cmd = "setpc", !.n = a]
BpCmd(name, n) == [Command0 EXCEPT !.cmd = name, !.n = n]
Create(ev)     == [Command0 EXCEPT !.cmd = "create", !.ev = ev]

Stop(ev) == Does(ev, "STOP")
Msg(ev)  == Does(ev, "MESSAGE")

ReadA   == MemBp("MEMORY_READ", A, "IS_ACCESSED", 0)
WriteA  == MemBp("MEMORY_WRITE", A, "IS_ACCESSED", 0)

NoScripts == [s \in {} |-> Command0]
NoCommands == {}

----------------------------------------------------------------------------
(* A debugging session with everything in it: stops, jumps and scripts, in *)
(* tables where they meet, pokes of registers, memory and PC, programs     *)
(* that fail in every way, crashes and restarts of the simulator.          *)

MCScriptName == {"reg", "word", "pc", "remove", "create", "bad"}
MCScripts ==
    [s \in MCScriptName |->
        CASE s = "reg"    -> SetReg(0, 2)
          [] s = "word"   -> SetWord(B, 5)
          [] s = "pc"     -> SetPc(12)
          [] s = "remove" -> BpCmd("remove", 1)
          [] s = "create" -> Create(Stop(PcBp(16)))
          [] OTHER        -> Command0]

DebugSessions ==
    {Session(Remember, <<Stop(RegBp("REGISTER_IS_VALUE", 0, 1)), Jumps(PcBp(12), 16)>>),
     Session(Loops, <<Jumps(PcBp(12), 16), Stop(PcBp(16))>>),
     Session(Remember, <<Jumps(ReadA, 12)>>),
     Session(Halves, <<Stop(MemBp("MEMORY_READ", B, "IS_UNDEF", 0)), Stop(PcBp(64))>>),
     Session(Devices, <<Stop(RangeBp("MEMORY_WRITE", A, CNT, "IS_VALUE", 1))>>),
     Session(SpecialRegs, <<Stop(RegBp("REGISTER_IS_NOT_VALUE", 0, 1))>>),
     Session(Unknown, <<Stop(ReadA)>>), Session(Idle, <<>>),
     Session(Masked, <<>>), Session(Astray, <<>>), Session(Unset, <<>>),
     Session(Typed, <<Stop(MemBp("MEMORY_READ", RX, "IS_VALUE", 7))>>),
     Session(Frame, <<Stop(MemBp("MEMORY_READ", B, "IS_ACCESSED", 0))>>),
     Session(Frame, <<Stop(WriteA)>>),
     Session(Torn, <<>>)}
    \cup {Session(Calls, <<Runs(PcBp(16), s), Stop(PcBp(64))>>) : s \in MCScriptName}
    \cup {Session(Remember, <<Runs(WriteA, s),
                              Stop(RangeBp("MEMORY_WRITE", A, B, "IS_ACCESSED", 0))>>) :
               s \in {"remove", "create"}}

DebugCommands ==
    {SetReg(0, 2), SetWord(A, 5), SetPc(12), Command0,
     BpCmd("remove", 257), BpCmd("disable", 2), BpCmd("enableall", 0), Create(Msg(PcBp(64)))}
DebugRuns == {Forever}

----------------------------------------------------------------------------
(* Sessions for the progress properties.                                   *)

LiveScripts == [s \in {"remove", "create"} |->
                   IF s = "remove" THEN BpCmd("remove", 1) ELSE Create(Stop(PcBp(20)))]

\* A pending interrupt has to wait: the main program masks interrupts over some
\* of its instructions, or the handler runs for longer than the timer's period.
Masking == Setup @@ Handler64 @@ 12 :> I("setgie", 0, 0, 0) @@ 16 :> Set(0, 1)
               @@ 20 :> I("setgie", 0, 0, 1) @@ 24 :> Set(0, 1) @@ 28 :> Back(28)
SlowHandler == Setup @@ 64 :> Set(1, IRQ_MASK_TMR1) @@ 68 :> Store(1, CLR)
                   @@ [a \in {72, 76, 80, 84, 88, 92} |-> Set(1, 0)]
                   @@ 96 :> I("iret", 0, 0, 0) @@ 12 :> Set(0, 0) @@ 16 :> Back(16)

LiveSessions ==
    {Session(image, table) :
        image \in {Image(Store(0, A), Call(16)), Image(Set(0, 0), Short(Load(0, A)))},
        table \in {<<>>, <<Jumps(PcBp(20), 12), Msg(WriteA)>>,
                   <<Runs(PcBp(32), "remove"), Msg(PcBp(16))>>, <<Runs(WriteA, "create")>>}}
    \cup {Session(image, <<Msg(PcBp(16))>>) : image \in {Masking, SlowHandler}}
LiveRuns == {2, Forever}
=============================================================================
