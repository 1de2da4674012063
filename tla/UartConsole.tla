---------------------------- MODULE UartConsole ----------------------------
(***************************************************************************)
(* The receive side of the simulated UART (simulate/uart.c) between the    *)
(* user who types in the UART window and the firmware that waits in        *)
(* inbyte() (custom_firmware/connector2/uart.c).  Keys go through the      *)
(* terminal, read_input (window.c) and dispatcher (dispatcher.c) into the  *)
(* FIFO, only while no simulation runs (main.c); the firmware polls the    *)
(* line status register and reads the receiver buffer register, only while *)
(* one does.  The debugger reads the same register: a memory view or a     *)
(* dump of it, and a breakpoint that stops the run on the firmware's read. *)
(***************************************************************************)
EXTENDS RxFifo, FiniteSets

CONSTANTS
    Key,        \* what can be typed
    Byte,       \* Byte[k]: the word a key is pushed as, for the keys that are
    ReadMax,    \* SZ_BUF of window.c: 250 bytes are read at once
    EventMax,   \* SZ_EVENT_BUFFER: 50 of them are handled
    MaxKeys     \* bound: keys typed in a session

\* The keys with no byte are the scroll keys, for which the window has no handler.
ASSUME ConsoleAssumption ==
    /\ DOMAIN Byte \subseteq Key
    /\ \A k \in DOMAIN Byte : Byte[k] \in Word \ {Zero}
    /\ ReadMax \in Nat \ {0} /\ EventMax \in Nat \ {0} /\ MaxKeys \in Nat

VARIABLES
    window,   \* keys in the terminal of the UART window
    events,   \* the rest of what read_input has returned
    fifo,     \* fifo_rx, nb_entries_fifo_rx
    ready,    \* STATUS_REG_DATA_READY of line_status_reg
    running,  \* run_sim is executing
    bpStop,   \* a breakpoint stops on reads of the receiver buffer register
    fw,       \* the firmware in inbyte(): polling, or about to read
    got,      \* what inbyte() has returned
    out,      \* history: the word the register gave last
    typed,    \* history: the keys typed
    spoiled   \* history: a key was dropped or read by the debugger

terminal == <<window, events, typed>>
sim == <<running, bpStop>>
firmware == <<fw, got>>
vars == <<window, events, fifo, ready, running, bpStop, fw, got, out, typed, spoiled>>

Init ==
    /\ window = <<>> /\ events = <<>> /\ fifo = FifoReset /\ ready = FALSE
    /\ running = FALSE /\ bpStop \in BOOLEAN
    /\ fw = "poll" /\ got = <<>> /\ out = Zero /\ typed = <<>> /\ spoiled = FALSE

----------------------------------------------------------------------------
\* Variant of ReadRegister: the status bit stays when the FIFO runs empty.
ReadRegisterSticky ==
    /\ fifo' = FifoPop(fifo) /\ out' = FifoFront(fifo)
    /\ UNCHANGED ready

\* Variant of ReadRegister: the status bit goes with the first word.
ReadRegisterClears ==
    /\ fifo' = FifoPop(fifo) /\ out' = FifoFront(fifo)
    /\ ready' = FALSE

\* uart_read(RECEIVER_BUFFER_REG) with fifo_pop.
ReadRegister ==
    /\ fifo' = FifoPop(fifo) /\ out' = FifoFront(fifo)
    /\ ready' = (ready /\ fifo.n # 1)

\* The user types, also while a simulation runs.
Type ==
    /\ Len(typed) < MaxKeys
    /\ \E k \in Key : window' = Append(window, k) /\ typed' = Append(typed, k)
    /\ UNCHANGED <<events, fifo, ready, sim, firmware, out, spoiled>>

ReadAtOnce == IF Len(window) < ReadMax THEN Len(window) ELSE ReadMax

\* read_input, one round of dispatcher(W_UART, w_uart): what does not fit into the
\* event buffer is forgotten.
ReadInput ==
    /\ ~running /\ events = <<>> /\ window # <<>>
    /\ events' = SubSeq(window, 1, IF ReadAtOnce < EventMax THEN ReadAtOnce ELSE EventMax)
    /\ window' = SubSeq(window, ReadAtOnce + 1, Len(window))
    /\ spoiled' = (spoiled \/ ReadAtOnce > EventMax)
    /\ UNCHANGED <<fifo, ready, sim, firmware, out, typed>>

\* One event of it: uart_keypress, or a scroll key.
Keypress ==
    /\ events # <<>>
    /\ events' = Tail(events)
    /\ IF Head(events) \in DOMAIN Byte
       THEN /\ fifo' = FifoPush(fifo, Byte[Head(events)]) /\ ready' = TRUE
            /\ spoiled' = (spoiled \/ fifo.n = FifoSize)
       ELSE UNCHANGED <<fifo, ready, spoiled>>
    /\ UNCHANGED <<window, sim, firmware, out, typed>>

\* The main loop is back at the prompt.
AtPrompt == ~running /\ events = <<>>

\* run and the end of a run: by its number of steps, Ctrl+C, another breakpoint.
StartRun ==
    /\ AtPrompt /\ running' = TRUE
    /\ UNCHANGED <<terminal, fifo, ready, bpStop, firmware, out, spoiled>>

EndRun ==
    /\ running /\ running' = FALSE
    /\ UNCHANGED <<terminal, fifo, ready, bpStop, firmware, out, spoiled>>

\* The user disables the breakpoint.
DropBreakpoint ==
    /\ AtPrompt /\ bpStop
    /\ bpStop' = FALSE
    /\ UNCHANGED <<terminal, fifo, ready, running, firmware, out, spoiled>>

\* The memory view or a dump covers the register.
View ==
    /\ AtPrompt
    /\ ReadRegister
    /\ spoiled' = TRUE
    /\ UNCHANGED <<terminal, sim, firmware>>

\* while(!(LINE_STATUS_REG & DATA_READY)); one round.
Poll ==
    /\ running /\ fw = "poll"
    /\ fw' = IF ready THEN "read" ELSE "poll"
    /\ UNCHANGED <<terminal, fifo, ready, sim, got, out, spoiled>>

\* return RECEIVER_BUFFER_REG; the breakpoint looks at the value that was read
\* and stops: the instruction is executed again later.
Read ==
    /\ running /\ fw = "read"
    /\ ReadRegister
    /\ IF bpStop
       THEN /\ running' = FALSE /\ spoiled' = TRUE
            /\ UNCHANGED <<fw, got>>
       ELSE /\ got' = Append(got, FifoFront(fifo)) /\ fw' = "poll"
            /\ UNCHANGED <<running, spoiled>>
    /\ UNCHANGED <<terminal, bpStop>>

Next ==
    \/ Type \/ ReadInput \/ Keypress \/ StartRun \/ EndRun \/ DropBreakpoint \/ View
    \/ Poll \/ Read

Spec == Init /\ [][Next]_vars

\* The simulated firmware runs, or the main loop does.
FairSpec == Spec /\ WF_vars(Poll \/ Read) /\ WF_vars(ReadInput \/ Keypress)

----------------------------------------------------------------------------
TypeOK ==
    /\ window \in Seq(Key) /\ events \in Seq(Key) /\ typed \in Seq(Key) /\ got \in Seq(Word)
    /\ fifo \in Fifo /\ ready \in BOOLEAN /\ running \in BOOLEAN /\ bpStop \in BOOLEAN
    /\ fw \in {"poll", "read"} /\ out \in Word /\ spoiled \in BOOLEAN

\* The status bit is kept by fifo_pop and fifo_push, apart from the count: it
\* says that there is something to read exactly when there is.
ReadyMeansData == ready <=> fifo.n > 0

\* How many of the first n keys typed are pushed as a word.
Pushed(n) == Cardinality({i \in 1 .. n : typed[i] \in DOMAIN Byte})

(***************************************************************************)
(* No key is lost, repeated or overtaken on its way to the firmware, and   *)
(* inbyte() never returns a word that was not typed, through any order of  *)
(* typing, runs and stops, unless more keys were waiting than the event    *)
(* buffer or the FIFO hold, or the debugger read the register: the keys    *)
(* still waiting are the last ones typed, and what the firmware has and    *)
(* the FIFO holds are the words of all before them.                        *)
(***************************************************************************)
NoKeyLost ==
    ~spoiled =>
        LET waiting == events \o window
            handled == Len(typed) - Len(waiting)
            words   == got \o Entries(fifo)
        IN /\ waiting = SubSeq(typed, handled + 1, Len(typed))
           /\ Len(words) = Pushed(handled)
           /\ \A i \in 1 .. handled :
                 typed[i] \in DOMAIN Byte => words[Pushed(i)] = Byte[typed[i]]

Queue == INSTANCE LossyQueue WITH Capacity <- FifoSize, Value <- Word, Nothing <- Zero,
                                  queue <- Entries(fifo)

\* Array and counter, moved by memmove and incremented by two routines, implement
\* the queue they stand for, when words are pushed, read, viewed and overflow.
ImplementsQueue == Queue!Spec

(***************************************************************************)
(* A word in the FIFO reaches the firmware as long as the run goes on.     *)
(***************************************************************************)
DataIsRead == (running /\ fifo.n > 0) ~> (~running \/ fifo.n = 0)

(***************************************************************************)
(* breakpoints.h, "BP before read is executed": a run that stops on the    *)
(* read has not taken anything out of the FIFO.                            *)
(***************************************************************************)
StopsBeforeRead == [][(Read /\ bpStop) => fifo' = fifo]_vars
=============================================================================
