----------------------------- MODULE MCDevices -----------------------------
(***************************************************************************)
(* The devices of the simulator and the programs behind its links, one of   *)
(* them per behaviour: they share no state, the firmware that drives them   *)
(* is one program, and what it does between two accesses to a device is in  *)
(* the nondeterminism of that device's module.  What is not chosen stays in *)
(* its initial state.                                                       *)
(***************************************************************************)
EXTENDS SspFlash, SerialLink, TapLink, VideoReceiver

VARIABLE device

devicevars == <<device, ssp, link, tap, rcv>>

Init ==
    /\ device \in {"ssp", "serial", "tap", "receiver"}
    /\ SspInit /\ RcvInit
    /\ SlInit /\ \A a \in DOMAIN link.mem : link.mem[a] = 7
    /\ TapInit /\ (device # "tap" => tap.build = "tap")

Next ==
    /\ UNCHANGED device
    /\ \/ device = "ssp" /\ SspNext /\ UNCHANGED <<link, tap, rcv>>
       \/ device = "serial" /\ SlNext /\ UNCHANGED <<ssp, tap, rcv>>
       \/ device = "tap" /\ TapNext /\ UNCHANGED <<ssp, link, rcv>>
       \/ device = "receiver" /\ RcvNext /\ UNCHANGED <<ssp, link, tap>>

Spec == Init /\ [][Next]_devicevars
=============================================================================
