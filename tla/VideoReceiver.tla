--------------------------- MODULE VideoReceiver ---------------------------
(***************************************************************************)
(* test_receive/receive.c: assembles frames from the packets of a patched   *)
(* device.  The socket takes all IPv4 traffic of the interface: blocks are  *)
(* lost, doubled or reordered, and a packet of any size but 49 and 1052     *)
(* bytes is read as a block, with whatever stands at the place of its       *)
(* numbers.  A block is [frame, block, last]; its 1020 bytes are not.       *)
(***************************************************************************)
EXTENDS Integers, Sequences

CONSTANTS RcvFrames,    \* frame numbers
          RcvBlocks,    \* block numbers, 0 among them
          RcvFrameMax   \* bound: SZ_FRAME_MAX in blocks (the code does not check it)

\* Bit 15 of a block number is the mark of the last block.
ASSUME RcvAssumption == RcvBlocks \subseteq 0..32767

VARIABLE rcv
\* rcv.state  "recv", "done";  rcv.run  the variable run
\* rcv.marker, rcv.write, rcv.previous: marker_sof_received, write_output,
\* frame_previous and block_previous;  rcv.data  framedata up to sz_frame
\* rcv.out    what was written last

RcvBlock == [frame : RcvFrames, block : RcvBlocks, last : BOOLEAN]

\* A block number as the code has it: bit 15 marks the last of a frame.
RcvNumber(b) == IF b.last THEN 32768 + b.block ELSE b.block

RcvInit ==
    rcv = [state |-> "recv", run |-> TRUE, marker |-> FALSE, write |-> FALSE,
           previous |-> [frame |-> 0, number |-> 0], data |-> <<>>, out |-> <<>>]

\* 49 bytes: a frame will start.
RcvMarker ==
    /\ rcv.state = "recv"
    /\ rcv' = [rcv EXCEPT !.marker = TRUE, !.state = IF rcv.run THEN "recv" ELSE "done"]

\* 1052 bytes with another length in the header: ignored.
RcvUnknown ==
    /\ rcv.state = "recv"
    /\ rcv' = [rcv EXCEPT !.state = IF rcv.run THEN "recv" ELSE "done"]

RcvStarts(b) == ~b.last /\ b.block = 0

\* Variant of RcvDamaged: only a step backwards is noticed.
RcvDamagedBack(b) ==
    ~RcvStarts(b) /\ ~b.last /\ RcvNumber(b) <= rcv.previous.number

\* SKIP_DAMAGED: a block that is neither first nor last and does not follow the
\* block before it.
RcvDamaged(b) ==
    ~RcvStarts(b) /\ ~b.last /\ RcvNumber(b) # rcv.previous.number + 1

\* Any other packet.  A last block is appended and written whatever its number
\* and its frame are, and the frame is only forgotten when block 0 comes.
RcvReceive ==
    /\ rcv.state = "recv"
    /\ \E b \in RcvBlock :
          LET data == IF RcvStarts(b) THEN <<b>> ELSE Append(rcv.data, b)
              write == (rcv.write \/ RcvStarts(b)) /\ ~RcvDamaged(b)
          IN /\ Len(data) <= RcvFrameMax
             /\ rcv' = [rcv EXCEPT !.state = IF rcv.run THEN "recv" ELSE "done", !.marker = FALSE,
                                   !.previous = [frame |-> b.frame, number |-> RcvNumber(b)],
                                   !.write = write, !.data = data,
                                   !.out = IF b.last /\ write THEN data ELSE @]

\* sigint: seen by the loop behind the next packet only.
RcvCtrlC == rcv.state = "recv" /\ rcv.run /\ rcv' = [rcv EXCEPT !.run = FALSE]

RcvNext == RcvMarker \/ RcvUnknown \/ RcvReceive \/ RcvCtrlC

----------------------------------------------------------------------------
\* Whatever comes from the network, what is written begins with block 0 and has
\* its blocks in their order without a gap, up to one or more last blocks (a
\* last block that comes twice writes its frame twice, the second time longer;
\* test_receive/receive.c:190-241).
RcvWritesInOrder ==
    rcv.out # <<>> =>
        \E k \in 1..Len(rcv.out) :
            /\ \A i \in 1..k : ~rcv.out[i].last /\ rcv.out[i].block = i - 1
            /\ \A i \in (k + 1)..Len(rcv.out) : rcv.out[i].last
=============================================================================
