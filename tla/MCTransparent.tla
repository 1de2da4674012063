--------------------------- MODULE MCTransparent ---------------------------
(***************************************************************************)
(* Instances of Transparent for TLC: the programs of MCSimulator that use  *)
(* no special registers, with their handler at 64.                         *)
(***************************************************************************)
EXTENDS MCSimulator, Transparent

MCMainReg == {0, LP}
MCMainAddr == {A, B, U}
MCHandler == DOMAIN Handler64

\* Two registers are saved, changed and restored; the second word of a load was
\* never written.
Keep(i) == [i EXCEPT !.move = 0]
Spill == Setup @@ Handler64 @@ 12 :> Keep(StoreMultiple(<<0, 30>>, A)) @@ 16 :> Set(0, 2)
             @@ 20 :> Keep(LoadMultiple(<<30, 0>>, A)) @@ 24 :> Back(24)
Lacking == Image(Store(0, A), Keep(LoadMultiple(<<30, 0>>, A)))

\* A stop on every kind of breakpoint, an entry that only reports, and a
\* disabled one, with each program.
StopTables ==
    {<<Stop(PcBp(12)), Stop(WriteA)>>,
     <<Stop(ReadA), Stop(PcBp(64))>>,
     <<Stop(RegBp("REGISTER_IS_NOT_VALUE", 0, 1)), Msg(WriteA)>>,
     <<Stop(RangeBp("MEMORY_WRITE", A, B, "IS_VALUE", 1)),
       [Stop(PcBp(72)) EXCEPT !.disabled = TRUE]>>}
StopSessions ==
    {Session(image, table) : image \in {Remember, Halves, Loops, Calls, CallsReg, Unset,
                                      Spill, Lacking},
                             table \in StopTables}
StopCommands == {BpCmd("remove", 1), BpCmd("enableall", 0), BpCmd("disable", 1)}
StopRuns == {1, 2, Forever}
=============================================================================
