----------------------------- MODULE DocClaims -----------------------------
(***************************************************************************)
(* What MANUAL.TXT and the comments of simulate/ say about breakpoints and *)
(* stepping, where the code does something else.                           *)
(***************************************************************************)
EXTENDS MCSimulator

Elements(seq) == {seq[i] : i \in 1 .. Len(seq)}

(***************************************************************************)
(* MANUAL.TXT, "stop to stop if simulation is running": when a stop        *)
(* breakpoint has fired, run returns.  simulate() looks at PC_manipulated  *)
(* first, so a jump that fires in the same walk swallows the stop.         *)
(***************************************************************************)
StopStops == (phase = "end" /\ mode = "run" /\ stop) => ret = "STOPPED_ON_BP"

(***************************************************************************)
(* MANUAL.TXT, "PC $val for bp when PC==$val" and "stop to stop": no       *)
(* instruction is executed at the address of an enabled stop breakpoint    *)
(* that was there when the step began and still is.  When a script removes *)
(* an entry in the middle of the walk, the next one moves into its place   *)
(* and is passed over.                                                     *)
(***************************************************************************)
NoEntryIsSkipped ==
    (phase = "exec" /\ mode = "run") =>
        \A i \in 1 .. Len(bp) :
            (bp[i] \in Elements(before.bp) /\ bp[i].type = "PC_IS_VALUE"
                /\ bp[i].action = "STOP" /\ ~bp[i].disabled) => bp[i].pc # cpu.pc

----------------------------------------------------------------------------
StopThenJump ==
    {Session(Remember, <<Stop(PcBp(12)), Jumps(RegBp("REGISTER_IS_VALUE", 0, 1), 16)>>)}
RemoveScript == [s \in {"remove"} |-> BpCmd("remove", 1)]
RemovedFirst ==
    {Session(Remember, <<Runs(RegBp("REGISTER_IS_VALUE", 0, 1), "remove"), Stop(PcBp(12))>>)}
ForeverOnly  == {Forever}
=============================================================================
