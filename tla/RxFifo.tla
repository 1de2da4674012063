------------------------------- MODULE RxFifo -------------------------------
(***************************************************************************)
(* The receive FIFO that simulate/uart.c and simulate/sspc.c each have a   *)
(* copy of: an array fifo_rx of FIFO_RX_SIZE words and the number of       *)
(* entries.  The oldest entry is always at index 0.                        *)
(***************************************************************************)
EXTENDS Integers, Sequences

CONSTANTS FifoSize,  \* FIFO_RX_SIZE: 32
          Word,      \* what an entry can hold
          Zero       \* the word 0

ASSUME RxFifoAssumption == FifoSize \in Nat \ {0} /\ Zero \in Word

Slots == 0 .. FifoSize - 1

Fifo == [slot : [Slots -> Word], n : 0 .. FifoSize]

FifoReset == [slot |-> [i \in Slots |-> Zero], n |-> 0]

\* What fifo_pop returns.
FifoFront(f) == IF f.n > 0 THEN f.slot[0] ELSE Zero

\* Variant of FifoPop: the entries are moved by one too few.
FifoPopShort(f) ==
    IF f.n = 0 THEN f
    ELSE [slot |-> [i \in Slots |-> IF i < FifoSize - 2 THEN f.slot[i + 1] ELSE f.slot[i]],
          n    |-> f.n - 1]

\* fifo_pop: memmove of all but the first entry; the last slot keeps its word.
FifoPop(f) ==
    IF f.n = 0 THEN f
    ELSE [slot |-> [i \in Slots |-> IF i < FifoSize - 1 THEN f.slot[i + 1] ELSE f.slot[i]],
          n    |-> f.n - 1]

\* Variants of FifoPush: no test for a full FIFO, or one that comes too early.
FifoPushUnchecked(f, w) == [slot |-> [f.slot EXCEPT ![f.n] = w], n |-> f.n + 1]
FifoPushEarly(f, w) ==
    LET g == IF f.n + 1 >= FifoSize THEN FifoPop(f) ELSE f
    IN [slot |-> [g.slot EXCEPT ![g.n] = w], n |-> g.n + 1]

\* fifo_push: a full FIFO loses its oldest entry.
FifoPush(f, w) ==
    LET g == IF f.n >= FifoSize THEN FifoPop(f) ELSE f
    IN [slot |-> [g.slot EXCEPT ![g.n] = w], n |-> g.n + 1]

\* The entries, oldest first.
Entries(f) == [i \in 1 .. f.n |-> f.slot[i - 1]]
=============================================================================
