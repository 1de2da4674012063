------------------------------ MODULE SspFlash ------------------------------
(***************************************************************************)
(* The serial port of the flash (simulate/sspc.c) and the flash behind it   *)
(* (simulate/flash_spi.c), with the firmware that uses them: any accesses   *)
(* of its own, and go_into_bootloader (custom_firmware/connector2/sspc.c).  *)
(* Every transfer is answered at once into the receive FIFO.  The flash is  *)
(* counted in words, and a word is named by its address.                    *)
(***************************************************************************)
EXTENDS Integers, Sequences, FiniteSets

CONSTANTS SspFifoSize,   \* FIFO_RX_SIZE
          SspFlashWords, \* FLASH_SIZE in words
          SspMaxSent     \* bound: transfers between two clears of the FIFO

ASSUME SspAssumption == SspFifoSize \in Nat \ {0} /\ SspFlashWords \in Nat \ {0}

VARIABLE ssp
\* ssp.running  FALSE when go_into_bootloader has given up
\* ssp.todo     what go_into_bootloader still writes
\* ssp.fifo     fifo_rx, nb_entries_fifo_rx
\* ssp.addr, ssp.latch: addr and the write enable latch of flash_spi.c
\* ssp.sent, ssp.taken, ssp.deep, ssp.base: the transfers since the FIFO was
\* cleared, the words read since, whether a word was lost, and the address
\* there was at the clear (for the property)

SspInit ==
    ssp = [running |-> TRUE, todo |-> <<>>, fifo |-> <<>>, addr |-> 0, latch |-> FALSE,
           sent |-> <<>>, taken |-> 0, deep |-> FALSE, base |-> 0]

\* The words 0 and 2 as answers; neither is a word of the flash here.
SspZero == 0 - 1
SspLatchSet == 0 - 2

\* Variant of SspPush: a full FIFO keeps its words and drops the new one.
SspPushDrops(fifo, word) == IF Len(fifo) >= SspFifoSize THEN fifo ELSE Append(fifo, word)

\* fifo_push: a full FIFO loses its oldest word.
SspPush(fifo, word) ==
    Append(IF Len(fifo) >= SspFifoSize THEN Tail(fifo) ELSE fifo, word)

\* The commands by their first byte, and a word of zeros, which reads on.
SspCommands ==
    {<<op, a>> : op \in {"address", "erase"}, a \in 0..(SspFlashWords - 1)}
        \cup {<<op, 0>> : op \in {"latch", "status", "word", "other"}}

\* flash_spi_transfer: the answer, and addr and the latch after it.
flash_spi_transfer(cmd) ==
    CASE cmd[1] = "address" -> <<SspZero, cmd[2], ssp.latch>>
      [] cmd[1] = "latch" -> <<SspZero, ssp.addr, TRUE>>
      [] cmd[1] = "erase" -> <<SspZero, cmd[2], FALSE>>
      [] cmd[1] = "status" -> <<IF ssp.latch THEN SspLatchSet ELSE SspZero, ssp.addr, ssp.latch>>
      [] cmd[1] = "word" -> <<ssp.addr, ssp.addr + 1, ssp.latch>>
      [] OTHER -> <<SspZero, ssp.addr, ssp.latch>>

----------------------------------------------------------------------------
\* sspc_write to CTRL_REG2 with SSP_RX_FIFO_CLR.
SspCleared(s) == [s EXCEPT !.fifo = <<>>, !.sent = <<>>, !.taken = 0, !.deep = FALSE,
                           !.base = s.addr]

SspClear == ssp.running /\ ssp.todo = <<>> /\ ssp' = SspCleared(ssp)

\* sspc_write to DATA_REG; the flash ends at SspFlashWords (reading behind it
\* is beyond the allocated array).
SspTransferred(s, cmd) ==
    LET t == flash_spi_transfer(cmd)
    IN [s EXCEPT !.fifo = SspPush(s.fifo, t[1]), !.addr = t[2], !.latch = t[3],
                 !.sent = Append(@, cmd), !.deep = @ \/ Len(s.fifo) >= SspFifoSize]

SspWrite ==
    /\ ssp.running
    /\ ssp.todo = <<>>
    /\ Len(ssp.sent) < SspMaxSent
    /\ \E cmd \in SspCommands :
          /\ cmd[1] = "word" => ssp.addr < SspFlashWords
          /\ ssp' = SspTransferred(ssp, cmd)

\* sspc_read of DATA_REG; an empty FIFO gives 0.
SspRead ==
    /\ ssp.running
    /\ ssp.todo = <<>>
    /\ ssp.fifo # <<>>
    /\ ssp' = [ssp EXCEPT !.fifo = Tail(@), !.taken = @ + 1]

\* go_into_bootloader: three commands, each behind a clear of the FIFO.  The
\* busy bit of STATUS it waits for is never set.  It ends in a loop.
go_into_bootloader ==
    /\ ssp.running
    /\ ssp.todo = <<>>
    /\ ssp' = [ssp EXCEPT !.todo = <<<<"latch", 0>>, <<"status", 0>>,
                                     <<"erase", SspFlashWords - 1>>>>]

SspBootloaderStep ==
    /\ ssp.running
    /\ ssp.todo # <<>>
    /\ ssp' = [SspTransferred(SspCleared(ssp), Head(ssp.todo)) EXCEPT
                   !.todo = Tail(@), !.running = Len(ssp.todo) > 1]

SspNext == SspClear \/ SspWrite \/ SspRead \/ go_into_bootloader \/ SspBootloaderStep

----------------------------------------------------------------------------
\* What the flash has to answer to the k-th transfer since the clear: a word
\* is the one at the last address given before it, counted on from there by the
\* words read in between.
SspAnswer(k) ==
    LET sets == {j \in 1..(k - 1) : ssp.sent[j][1] \in {"address", "erase"}}
        from == IF sets = {} THEN 0 ELSE CHOOSE j \in sets : \A m \in sets : m <= j
        start == IF from = 0 THEN ssp.base ELSE ssp.sent[from][2]
    IN start + Cardinality({j \in (from + 1)..(k - 1) : ssp.sent[j][1] = "word"})

\* The write enable latch as the k-th transfer finds it.
SspLatchAt(k) ==
    \E j \in 1..(k - 1) : /\ ssp.sent[j][1] = "latch"
                         /\ \A m \in (j + 1)..(k - 1) : ssp.sent[m][1] # "erase"

\* What the firmware reads next is the answer to the oldest transfer not read
\* yet: while no more than FIFO_RX_SIZE answers wait none is skipped, and beyond
\* that the newest FIFO_RX_SIZE are still in order (simulate/sspc.c:71-77).  The
\* words are those of the flash, whatever status reads, erases and unknown
\* commands come between them.
SspReadsTheFlash ==
    /\ ~ssp.deep => Len(ssp.fifo) = Len(ssp.sent) - ssp.taken
    /\ \A i \in 1..Len(ssp.fifo) :
          LET k == Len(ssp.sent) - Len(ssp.fifo) + i
          IN CASE ssp.sent[k][1] = "word" -> ssp.fifo[i] = SspAnswer(k)
               [] ssp.sent[k][1] = "status" -> SspLatchAt(k) => ssp.fifo[i] = SspLatchSet
               [] OTHER -> ssp.fifo[i] = SspZero
=============================================================================
