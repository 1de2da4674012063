----------------------------- MODULE SerialLink -----------------------------
(***************************************************************************)
(* The simulator built with CONNECT_TO_REAL: accesses to peripherals it     *)
(* does not know go over a serial line to the real device                   *)
(* (simulate/connector_serial.c) and are done there by the connector        *)
(* firmware (custom_firmware/connector_to_simulator).  The line carries     *)
(* units: a request is its first character, its address and its value; a    *)
(* reply is "ok" and the two halves of a word.  The line and the terminal   *)
(* driver deliver late, in pieces, and may lose units.                      *)
(***************************************************************************)
EXTENDS Integers, Sequences

CONSTANTS SlAddr,     \* addresses of the device
          SlVal,      \* values, some of them the code of a character
          SlMaxLost,  \* bound: units lost
          SlMaxRuns   \* bound: starts of the simulator

ASSUME SlAssumption == SlAddr \subseteq Nat

VARIABLE link
\* link.host    "idle", "get", "set" (a request is out), "exited"
\* link.asked   address and value of that request;  link.saved  the variable saved
\* link.answer  what the last con_getval returned, for link.asked
\* link.down, link.up   units on the way to the device and back
\* link.tty     units that arrived at the open port
\* link.buf     the request the device collects;  link.mem  its registers
\* link.view    what the simulated firmware made of them: its last writes
\* link.began   what 0x9090a80c held when the run began
\* link.wrote   0x9090c208 was written in this run
\* link.lost, link.runs: counters;  link.torn: a reply was read before its end,
\* link.dirty: a run began while an old request or reply was still on its way

SlSet == 61        \* '='
SlGet == 63        \* '?'
SlOk == 111
SlFiller == 99     \* the word behind the "ok" of a write
SlShadowed == 0    \* 0x9090c208, whose writes con_setval keeps
SlSaved == 0 - 1   \* 0x9090c20c, which con_getval answers with them
SlSkipped == 0 - 2 \* 0x9090a80c, whose writes con_setval drops
SlGarbage == 98

SlPlaces == SlAddr \cup {SlShadowed, SlSaved, SlSkipped}

SlInit ==
    \E mem \in [SlPlaces -> SlVal] :
       link = [host |-> "idle", asked |-> <<SlShadowed, 0>>, saved |-> 0, answer |-> SlGarbage,
               down |-> <<>>, up |-> <<>>, tty |-> <<>>, buf |-> <<>>, mem |-> mem, view |-> mem,
               began |-> mem[SlSkipped], wrote |-> FALSE, lost |-> 0, runs |-> 1, torn |-> FALSE, dirty |-> FALSE]

----------------------------------------------------------------------------
(* The simulator.                                                          *)

\* con_setval returns before it sends anything: the firmware's write is lost.
SlSkips ==
    /\ link.host = "idle"
    /\ \E v \in SlVal : link' = [link EXCEPT !.view[SlSkipped] = v]

\* con_setval writes the request.
SlAsksToSet(a, v) ==
    link' = [link EXCEPT !.host = "set", !.asked = <<a, v>>, !.answer = SlGarbage,
                !.down = @ \o <<SlSet, a, v>>, !.view[a] = v,
                !.saved = IF a = SlShadowed THEN v ELSE @,
                !.wrote = @ \/ a = SlShadowed]

con_setval ==
    \/ SlSkips
    \/ /\ link.host = "idle"
       /\ \E a \in SlPlaces \ {SlSkipped}, v \in SlVal : SlAsksToSet(a, v)

\* con_getval writes the request, with a filler as its value.
con_getval ==
    /\ link.host = "idle"
    /\ \E a \in SlPlaces \ {SlSaved} :
          link' = [link EXCEPT !.host = "get", !.asked = <<a, 0>>, !.answer = SlGarbage,
                      !.down = @ \o <<SlGet, a, SlFiller>>]

\* con_getval of 0x9090c20c answers with the value kept, 0 at first.
SlGetSaved ==
    /\ link.host = "idle"
    /\ link' = [link EXCEPT !.asked = <<SlSaved, 0>>, !.answer = link.saved]

\* A word from its halves: any word when the buffer was not filled that far.
SlWords(units) ==
    IF Len(units) < 3 THEN SlVal \cup {SlGarbage}
    ELSE IF units[2] = units[3] THEN {units[2]} ELSE {SlGarbage}

SlExit == [link EXCEPT !.host = "exited", !.tty = <<>>]

\* read of ten bytes, and the test for "ok".
SlUnits == SubSeq(link.tty, 1, IF Len(link.tty) < 5 THEN Len(link.tty) ELSE 5)
SlIsOk(units) == units # <<>> /\ Head(units) = SlOk

SlTaken(units) ==
    \E w \in SlWords(units) :
       link' = [link EXCEPT !.host = "idle",
                   !.tty = SubSeq(@, Len(units) + 1, Len(@)),
                   !.answer = IF link.host = "get" THEN w ELSE @,
                   !.torn = @ \/ (link.host = "get" /\ Len(units) < 3)]

\* Variant of SlRead: the call also ends when nothing has arrived yet.
SlReadLater ==
    /\ link.host \in {"get", "set"}
    /\ \/ SlUnits = <<>> /\ link' = [link EXCEPT !.host = "idle"]
       \/ SlUnits # <<>> /\ ~SlIsOk(SlUnits) /\ link' = SlExit
       \/ SlIsOk(SlUnits) /\ SlTaken(SlUnits)

\* The read behind the 5 ms wait: what has arrived ends the program unless it
\* begins with "ok".
SlRead ==
    /\ link.host \in {"get", "set"}
    /\ \/ ~SlIsOk(SlUnits) /\ link' = SlExit
       \/ SlIsOk(SlUnits) /\ SlTaken(SlUnits)

\* The user starts the simulator again: init_connector opens the port.
init_connector ==
    /\ link.host = "exited"
    /\ link.runs < SlMaxRuns
    /\ link' = [link EXCEPT !.host = "idle", !.saved = 0, !.answer = SlGarbage, !.runs = @ + 1,
                   !.view = link.mem, !.began = link.mem[SlSkipped], !.wrote = FALSE, !.torn = FALSE,
                   !.dirty = link.down # <<>> \/ link.up # <<>> \/ link.buf # <<>>]

----------------------------------------------------------------------------
(* The line: the head of a queue is delivered or lost.                     *)

SlArrives ==
    /\ link.up # <<>>
    /\ link' = [link EXCEPT !.up = Tail(@),
                   !.tty = IF link.host = "exited" THEN <<>> ELSE Append(@, Head(link.up))]

SlLoses ==
    /\ link.lost < SlMaxLost
    /\ \/ link.down # <<>> /\ link' = [link EXCEPT !.down = Tail(@), !.lost = @ + 1]
       \/ link.up # <<>> /\ link' = [link EXCEPT !.up = Tail(@), !.lost = @ + 1]

----------------------------------------------------------------------------
(* The device: main reads a request, parse does it.                        *)

\* Units before the first character of a request are skipped.
SlInbyte ==
    /\ link.down # <<>>
    /\ Len(link.buf) < 3
    /\ link' = [link EXCEPT !.down = Tail(@),
                   !.buf = IF @ = <<>> /\ Head(link.down) \notin {SlSet, SlGet} THEN <<>>
                           ELSE Append(@, Head(link.down))]

\* readmem and writemem: an address outside SlAddr is some other place.
SlMem(a) == IF a \in DOMAIN link.mem THEN link.mem[a] ELSE SlGarbage

SlParse ==
    /\ Len(link.buf) = 3
    /\ IF link.buf[1] = SlSet
       THEN link' = [link EXCEPT !.buf = <<>>, !.up = @ \o <<SlOk, SlFiller, SlFiller>>,
                        !.mem = [a \in DOMAIN @ |-> IF a = link.buf[2] THEN link.buf[3] ELSE @[a]]]
       ELSE link' = [link EXCEPT !.buf = <<>>,
                        !.up = @ \o <<SlOk, SlMem(link.buf[2]), SlMem(link.buf[2])>>]

SlNext ==
    \/ con_setval \/ con_getval \/ SlGetSaved \/ SlRead \/ init_connector
    \/ SlArrives \/ SlLoses
    \/ SlInbyte \/ SlParse

----------------------------------------------------------------------------
\* What the device has to hold: the last value written to each address; at
\* 0x9090a80c what it held when the run began, for no write reaches it.
SlOwed(l) == [a \in SlPlaces |-> IF a = SlSkipped THEN l.began ELSE l.view[a]]

\* What a read of 0x9090c20c has to return: the value this run wrote last to
\* 0x9090c208, or 0.
SlKept(l) == IF l.wrote THEN l.view[SlShadowed] ELSE 0

\* Between two accesses of a run that is not exited the device behaves as the
\* memory of the simulated firmware but for 0x9090a80c: it holds the last value
\* written to each other address, and the last read returned what it holds, or
\* the value kept.  Units lost or late end the program instead.  It needs a line
\* that was quiet when the run began, and replies that were whole when they were
\* read: nothing in connector_serial.c:71-87 or 113-121 asks for either.
SlRemoteMemory ==
    link.host = "idle" /\ ~link.dirty /\ ~link.torn =>
        /\ link.mem = SlOwed(link)
        /\ link.answer # SlGarbage =>
              link.answer = IF link.asked[1] = SlSaved THEN SlKept(link)
                            ELSE SlOwed(link)[link.asked[1]]
=============================================================================
