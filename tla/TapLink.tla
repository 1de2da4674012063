------------------------------- MODULE TapLink -------------------------------
(***************************************************************************)
(* The network interface of the simulated device (simulate/mac.c) and, in  *)
(* the build CONNECT_TO_TAP, the program that moves its packets between two *)
(* named pipes and a network device of the host                            *)
(* (simulate/connector_tap/connector.c).  Without it a packet is a file.    *)
(* Packets are numbers; a register holds the number of the packet whose     *)
(* length or status it would.                                              *)
(***************************************************************************)
EXTENDS Integers, Sequences

CONSTANTS TapBuilds,   \* subset of {"tap", "files"}
          MacRegs,     \* registers without a meaning of their own
          MacVals,     \* values written there
          MacMem,      \* MAX_MEM
          TapPackets,  \* bound: packets sent each way
          TapFiles     \* 256, the file names tx00.bin and so on

\* The registers the interface itself writes have names of their own.
ASSUME TapAssumption ==
    /\ TapBuilds \subseteq {"tap", "files"}
    /\ MacRegs \cap {"start", "length", "status"} = {}
    /\ TapFiles \in Nat \ {0}

VARIABLE tap
\* tap.build   how the simulator was compiled;  tap.status "run" or "exit"
\* tap.mem     mem, nb_vals: pairs <<address, value>>
\* tap.reg     the last write to each register (for MacRemembers)
\* tap.txbuf, tap.txlen, tap.rxbuf: tx_buffer, sz_data_tx_buffer, rx_buffer
\* tap.pc      what mac_write still writes to the pipe
\* tap.fifo1   to the simulator: packets;  tap.fifo2  from it: pieces
\* tap.seen    the packet whose length the firmware read, 0 for none
\* tap.conn    "run" or "exit", of the connector program
\* tap.started, tap.out   packets the firmware started, writes to the device
\* tap.sent, tap.got      packets of the host, packets the firmware read
\* tap.files, tap.filenumber   what save_tx wrote
\* tap.raced, tap.overtaken    the connector read between two of the writes, or
\* late; a packet came before the one before it was read

TapInit ==
    \E b \in TapBuilds :
       tap = [build |-> b, status |-> "run", mem |-> <<>>, reg |-> [r \in MacRegs |-> 0],
              txbuf |-> 0, txlen |-> 0, rxbuf |-> <<>>, pc |-> <<>>, fifo1 |-> <<>>, fifo2 |-> <<>>,
              conn |-> "run", seen |-> 0, started |-> <<>>, out |-> <<>>, sent |-> <<>>, got |-> <<>>,
              files |-> [n \in 0..(TapFiles - 1) |-> 0], filenumber |-> 0,
              raced |-> FALSE, overtaken |-> FALSE]

TapFirmware == tap.status = "run" /\ tap.pc = <<>>

----------------------------------------------------------------------------
(* mac.c: registers.                                                       *)

\* search: the first entry of an address, 0 when there is none.
MacSearch(mem, a) ==
    IF \E i \in DOMAIN mem : mem[i][1] = a
    THEN CHOOSE i \in DOMAIN mem : mem[i][1] = a /\ \A j \in 1..(i - 1) : mem[j][1] # a
    ELSE 0

\* Variant of MacSave: a register written before gets a second entry.
MacSaveAppends(t, a, v) ==
    IF Len(t.mem) < MacMem THEN [t EXCEPT !.mem = Append(@, <<a, v>>)] ELSE [t EXCEPT !.status = "exit"]

\* save, outside the buffer and its length
MacSave(t, a, v) ==
    LET pos == MacSearch(t.mem, a)
    IN CASE pos # 0 -> [t EXCEPT !.mem[pos] = <<a, v>>]
         [] pos = 0 /\ Len(t.mem) < MacMem -> [t EXCEPT !.mem = Append(@, <<a, v>>)]
         [] OTHER -> [t EXCEPT !.status = "exit"]

\* load: a register never written is left to the memory behind, 0 here.
MacLoad(t, a) == LET pos == MacSearch(t.mem, a) IN IF pos = 0 THEN 0 ELSE t.mem[pos][2]

MacWrite ==
    /\ TapFirmware
    /\ \E r \in MacRegs, v \in MacVals :
          tap' = [MacSave(tap, r, v) EXCEPT !.reg[r] = v]

\* The firmware fills tx_buffer, and writes the length it has.
MacFill ==
    /\ TapFirmware
    /\ Len(tap.started) < TapPackets
    /\ tap.txbuf = Len(tap.started)
    /\ tap' = [tap EXCEPT !.txbuf = @ + 1]

MacLength == TapFirmware /\ tap.txlen # tap.txbuf /\ tap' = [tap EXCEPT !.txlen = tap.txbuf]

\* save_tx
MacSaveTx(t) ==
    [t EXCEPT !.files[t.filenumber] = t.txlen, !.filenumber = (@ + 1) % TapFiles]

\* mac_write of 0x90 to 0x90907118: a file, or three writes to the pipe.
MacStart ==
    /\ TapFirmware
    /\ tap.txbuf = tap.txlen
    /\ tap.txbuf > Len(tap.started)
    /\ LET t == [tap EXCEPT !.started = Append(@, tap.txbuf)]
       IN tap' = IF tap.build = "files" THEN MacSaveTx(t)
                 ELSE [t EXCEPT !.pc = <<"flags", "proto", "data">>]

\* One write; behind the last the register reads 0x10.
MacPipe ==
    /\ tap.status = "run"
    /\ tap.pc # <<>>
    /\ LET piece == IF Head(tap.pc) = "data" THEN <<"data", tap.txlen>> ELSE <<Head(tap.pc), 0>>
           t == [tap EXCEPT !.pc = Tail(@), !.fifo2 = Append(@, piece)]
       IN tap' = IF Len(tap.pc) = 1 THEN MacSave(t, "start", 16) ELSE t

----------------------------------------------------------------------------
(* mac.c: reception.                                                       *)

\* A packet in rx_buffer, its length and its status in the registers.
MacReceived(t, packets) ==
    MacSave(MacSave([t EXCEPT !.rxbuf = packets,
                       !.overtaken = @ \/ Len(packets) > 1 \/ MacLoad(t, "length") # 0],
                    "length", packets[1]),
            "status", packets[1])

\* Variant of check_for_mac_rx: the packet is taken before its protocol is known.
check_for_mac_rxFirst ==
    /\ TapFirmware
    /\ tap.fifo1 # <<>>
    /\ tap' = MacReceived([tap EXCEPT !.fifo1 = <<>>], <<tap.fifo1[Len(tap.fifo1)]>>)

\* check_for_mac_rx: all the bytes of the pipe, without the header of the first
\* packet; a protocol that is neither ARP nor IPv4 (here 0) ends the program.
check_for_mac_rx ==
    /\ TapFirmware
    /\ tap.fifo1 # <<>>
    /\ LET t == [tap EXCEPT !.fifo1 = <<>>]
       IN tap' = IF Head(tap.fifo1) = 0 THEN [t EXCEPT !.status = "exit"]
                 ELSE MacReceived(t, tap.fifo1)

\* The command rx: a file is read whole, or the read fails half-way, with
\* rx_buffer overwritten and the registers as they were.
rx ==
    /\ TapFirmware
    /\ tap.build = "files"
    /\ Len(tap.sent) < TapPackets
    /\ LET n == Len(tap.sent) + 1
       IN \/ tap' = MacReceived([tap EXCEPT !.sent = Append(@, n)], <<n>>)
          \/ tap' = [tap EXCEPT !.rxbuf = <<0 - 1>>, !.overtaken = TRUE]

\* The firmware reads the length, later the packet, and clears the length.
MacFirmwareSees ==
    /\ TapFirmware
    /\ tap.seen = 0
    /\ MacLoad(tap, "length") # 0
    /\ tap' = [tap EXCEPT !.seen = MacLoad(tap, "length")]

MacFirmwareReads ==
    /\ TapFirmware
    /\ tap.seen # 0
    /\ tap' = [MacSave(tap, "length", 0) EXCEPT !.seen = 0, !.got = Append(@, tap.rxbuf)]

----------------------------------------------------------------------------
(* connector.c: its loop handles the network device, then the pipe.        *)

\* A packet of the host, of a protocol the simulator knows or (0) not.
TapToFifo ==
    /\ tap.build = "tap"
    /\ tap.conn = "run"
    /\ Len(tap.sent) < TapPackets
    /\ \E n \in {0, Len(tap.sent) + 1} :
          tap' = [tap EXCEPT !.sent = Append(@, n), !.fifo1 = Append(@, n)]

TapWhole(n) == <<<<"flags", 0>>, <<"proto", 0>>, <<"data", n>>>>

\* read takes what the pipe holds and writes it to the device as one packet; a
\* packet without an Ethernet header is refused, which ends the connector.
TapFromFifo ==
    /\ tap.conn = "run"
    /\ tap.fifo2 # <<>>
    /\ tap' = [tap EXCEPT !.fifo2 = <<>>, !.out = Append(@, tap.fifo2),
                  !.conn = IF \E i \in DOMAIN tap.fifo2 : tap.fifo2[i][1] = "data" THEN "run" ELSE "exit",
                  !.raced = @ \/ Len(tap.fifo2) # 3 \/ tap.pc # <<>>]

TapNext ==
    \/ MacWrite \/ MacFill \/ MacLength \/ MacStart \/ MacPipe
    \/ check_for_mac_rx \/ rx \/ MacFirmwareSees \/ MacFirmwareReads
    \/ TapToFifo \/ TapFromFifo

----------------------------------------------------------------------------
\* A register of the interface reads as it was last written, whatever packets
\* were received and sent in between, unless the table of 500 entries filled up
\* and ended the program (simulate/mac.c:61-83).
MacRemembers ==
    tap.status = "run" => \A r \in MacRegs : MacLoad(tap, r) = tap.reg[r]

\* Packets arrive whole and in their order, to the host while the connector reads
\* behind the third write and before the next packet, and to the firmware while
\* it has read a packet before the next one comes; the last 256 packets are in
\* the files.  Nothing in mac.c:170-176 or 247-266 sees to either condition.
TapDelivers ==
    /\ ~tap.raced => tap.out = [i \in 1..Len(tap.out) |-> TapWhole(tap.started[i])]
    /\ ~tap.overtaken /\ tap.status = "run" =>
          tap.got = [i \in 1..Len(tap.got) |-> <<tap.sent[i]>>]
    /\ tap.build = "files" =>
          \A i \in 1..Len(tap.started) :
             i + TapFiles > Len(tap.started) => tap.files[(i - 1) % TapFiles] = tap.started[i]
=============================================================================
