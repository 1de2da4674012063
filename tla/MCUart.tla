------------------------------- MODULE MCUart -------------------------------
(***************************************************************************)
(* A FIFO of two words behind an event buffer of three and a terminal read *)
(* of four, in the order 32 < 50 < 250 of the code; two letters, an arrow  *)
(* key that is delivered as byte 254 and a scroll key that is not.         *)
(***************************************************************************)
EXTENDS UartConsole

MCKey == {"a", "left", "up"}
MCWord == {"zero", "a", "fe"}
MCByte == [k \in MCKey \ {"up"} |-> IF k = "left" THEN "fe" ELSE k]
=============================================================================
