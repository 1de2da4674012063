----------------------------- MODULE UartProofs -----------------------------
(***************************************************************************)
(* The UART's receive FIFO is a lossy queue for every size: the array with *)
(* its counter implements LossyQueue, the status bit follows the counter,  *)
(* and no key is lost, in every session.                                   *)
(***************************************************************************)
EXTENDS UartConsole, FiniteSetTheorems, SequenceTheorems, TLAPS

\* What is in a FIFO is a sequence of words.
LEMMA EntriesType ==
    ASSUME NEW f \in Fifo
    PROVE  Entries(f) \in Seq(Word) /\ Len(Entries(f)) = f.n
<1>1. f.n \in Nat /\ \A i \in 1 .. f.n : i - 1 \in Slots
  BY RxFifoAssumption DEF Fifo, Slots
<1>2. Entries(f) \in [1 .. f.n -> Word]
  BY <1>1 DEF Entries, Fifo
<1>3. Entries(f) \in Seq(Word)
  BY <1>1, <1>2, SeqDef
<1>4. DOMAIN Entries(f) = 1 .. f.n
  BY DEF Entries
<1> QED
  BY <1>1, <1>3, <1>4, LenProperties

\* fifo_pop keeps the FIFO a FIFO, and takes away the front entry only.
LEMMA PopType ==
    ASSUME NEW f \in Fifo
    PROVE  FifoPop(f) \in Fifo /\ FifoFront(f) \in Word
  BY RxFifoAssumption DEF FifoPop, FifoFront, Fifo, Slots

LEMMA PopEntries ==
    ASSUME NEW f \in Fifo, f.n > 0
    PROVE  /\ Entries(FifoPop(f)) = Tail(Entries(f))
           /\ FifoFront(f) = Head(Entries(f))
           /\ Entries(f) # <<>>
<1>1. Entries(f) \in Seq(Word) /\ Len(Entries(f)) = f.n
  BY EntriesType
<1>2. FifoPop(f) \in Fifo /\ FifoPop(f).n = f.n - 1
  BY PopType, RxFifoAssumption DEF FifoPop, Fifo
<1>3. Len(Entries(FifoPop(f))) = f.n - 1 /\ Entries(FifoPop(f)) \in Seq(Word)
  BY <1>2, EntriesType
<1>4. Entries(f) # <<>>
  BY <1>1, RxFifoAssumption DEF Fifo
<1>5. Tail(Entries(f)) \in Seq(Word) /\ Len(Tail(Entries(f))) = f.n - 1
  BY <1>1, <1>4
<1>6. ASSUME NEW i \in 1 .. f.n - 1
      PROVE  Entries(FifoPop(f))[i] = Tail(Entries(f))[i]
  <2>1. Tail(Entries(f))[i] = Entries(f)[i + 1]
    BY <1>1, <1>4, <1>5
  <2>2. Entries(f)[i + 1] = f.slot[i]
    BY RxFifoAssumption DEF Entries, Fifo
  <2>3. Entries(FifoPop(f))[i] = FifoPop(f).slot[i - 1]
    BY <1>2, RxFifoAssumption DEF Entries, Fifo
  <2>4. FifoPop(f).slot[i - 1] = f.slot[i]
    BY RxFifoAssumption DEF FifoPop, Fifo, Slots
  <2> QED
    BY <2>1, <2>2, <2>3, <2>4
<1>7. Entries(FifoPop(f)) = Tail(Entries(f))
  BY <1>3, <1>5, <1>6
<1>8. FifoFront(f) = Head(Entries(f))
  BY <1>1, <1>4, RxFifoAssumption DEF FifoFront, Entries, Fifo
<1> QED
  BY <1>4, <1>7, <1>8

\* A FIFO with room: the word goes behind the entries.
LEMMA RoomEntries ==
    ASSUME NEW f \in Fifo, f.n < FifoSize, NEW w \in Word
    PROVE  LET g == [slot |-> [f.slot EXCEPT ![f.n] = w], n |-> f.n + 1]
           IN g \in Fifo /\ Entries(g) = Append(Entries(f), w)
<1> DEFINE g == [slot |-> [f.slot EXCEPT ![f.n] = w], n |-> f.n + 1]
<1>1. g \in Fifo /\ g.n = f.n + 1
  BY RxFifoAssumption DEF Fifo, Slots
<1>2. Entries(f) \in Seq(Word) /\ Len(Entries(f)) = f.n
  BY EntriesType
<1>3. Entries(g) \in Seq(Word) /\ Len(Entries(g)) = f.n + 1
  BY <1>1, EntriesType
<1>4. Append(Entries(f), w) \in Seq(Word) /\ Len(Append(Entries(f), w)) = f.n + 1
  BY <1>2
<1>5. ASSUME NEW i \in 1 .. f.n + 1
      PROVE  Entries(g)[i] = Append(Entries(f), w)[i]
  <2>1. Entries(g)[i] = [f.slot EXCEPT ![f.n] = w][i - 1]
    BY <1>1, RxFifoAssumption DEF Entries, Fifo
  <2>2. CASE i = f.n + 1
    <3>1. [f.slot EXCEPT ![f.n] = w][i - 1] = w
      BY <2>2, RxFifoAssumption DEF Fifo, Slots
    <3>2. Append(Entries(f), w)[i] = w
      BY <1>2, <2>2
    <3> QED
      BY <2>1, <3>1, <3>2
  <2>3. CASE i # f.n + 1
    <3>1. [f.slot EXCEPT ![f.n] = w][i - 1] = f.slot[i - 1]
      BY <2>3, RxFifoAssumption DEF Fifo, Slots
    <3>2. Append(Entries(f), w)[i] = Entries(f)[i]
      BY <1>2, <2>3, RxFifoAssumption DEF Fifo
    <3>3. Entries(f)[i] = f.slot[i - 1]
      BY <2>3, RxFifoAssumption DEF Entries, Fifo
    <3> QED
      BY <2>1, <3>1, <3>2, <3>3
  <2> QED
    BY <2>2, <2>3
<1>6. Entries(g) = Append(Entries(f), w)
  BY <1>3, <1>4, <1>5
<1> QED
  BY <1>1, <1>6

\* fifo_push: the word goes behind, and a full FIFO loses its front.
LEMMA PushEntries ==
    ASSUME NEW f \in Fifo, NEW w \in Word
    PROVE  /\ FifoPush(f, w) \in Fifo
           /\ FifoPush(f, w).n > 0
           /\ Entries(FifoPush(f, w)) =
                  Append(IF Len(Entries(f)) = FifoSize THEN Tail(Entries(f)) ELSE Entries(f), w)
<1>1. Len(Entries(f)) = f.n
  BY EntriesType
<1>2. CASE f.n = FifoSize
  <2>1. FifoPop(f) \in Fifo /\ FifoPop(f).n = f.n - 1
    BY <1>2, PopType, RxFifoAssumption DEF FifoPop, Fifo
  <2>2. FifoPop(f).n < FifoSize
    BY <1>2, <2>1, RxFifoAssumption DEF Fifo
  <2>3. FifoPush(f, w) =
            [slot |-> [FifoPop(f).slot EXCEPT ![FifoPop(f).n] = w], n |-> FifoPop(f).n + 1]
    BY <1>2, RxFifoAssumption DEF FifoPush
  <2>4. FifoPush(f, w) \in Fifo /\ Entries(FifoPush(f, w)) = Append(Entries(FifoPop(f)), w)
    BY <2>1, <2>2, <2>3, RoomEntries
  <2>5. Entries(FifoPop(f)) = Tail(Entries(f))
    BY <1>2, PopEntries, RxFifoAssumption
  <2>6. FifoPush(f, w).n > 0
    BY <1>2, <2>1, <2>3, RxFifoAssumption
  <2> QED
    BY <1>1, <1>2, <2>4, <2>5, <2>6
<1>3. CASE f.n # FifoSize
  <2>1. f.n < FifoSize /\ f.n \in Nat
    BY <1>3, RxFifoAssumption DEF Fifo
  <2>2. FifoPush(f, w) = [slot |-> [f.slot EXCEPT ![f.n] = w], n |-> f.n + 1]
    BY <2>1, RxFifoAssumption DEF FifoPush
  <2>3. FifoPush(f, w) \in Fifo /\ Entries(FifoPush(f, w)) = Append(Entries(f), w)
    BY <2>1, <2>2, RoomEntries
  <2>4. FifoPush(f, w).n > 0
    BY <2>1, <2>2
  <2> QED
    BY <1>1, <1>3, <2>3, <2>4
<1> QED
  BY <1>2, <1>3

----------------------------------------------------------------------------
\* Reading the register keeps the FIFO well-formed and the bit in step with it.
LEMMA ReadRegisterFacts ==
    ASSUME fifo \in Fifo, ready \in BOOLEAN, ReadRegister
    PROVE  /\ fifo' \in Fifo /\ out' \in Word
           /\ ready' \in BOOLEAN
           /\ ReadyMeansData => ReadyMeansData'
<1>1. fifo' \in Fifo /\ out' \in Word
  BY PopType DEF ReadRegister
<1>2. ready' \in BOOLEAN
  BY DEF ReadRegister
<1>3. fifo'.n = IF fifo.n = 0 THEN 0 ELSE fifo.n - 1
  BY DEF ReadRegister, FifoPop, Fifo
<1>4. (fifo'.n > 0) <=> (fifo.n > 0 /\ fifo.n # 1)
  BY <1>3, RxFifoAssumption DEF Fifo
<1>5. ready' <=> (ready /\ fifo.n # 1)
  BY DEF ReadRegister
<1> QED
  BY <1>1, <1>2, <1>4, <1>5 DEF ReadyMeansData

\* TypeOK is kept by every step.
LEMMA TypeStep ==
    ASSUME TypeOK, [Next]_vars
    PROVE  TypeOK'
<1> USE RxFifoAssumption, ConsoleAssumption
<1>1. CASE Type
  BY <1>1 DEF Type, TypeOK, sim, firmware
<1>2. CASE ReadInput
  <2>1. ReadAtOnce \in Nat /\ ReadAtOnce <= Len(window)
    BY DEF ReadAtOnce, TypeOK
  <2>2. events' \in Seq(Key) /\ window' \in Seq(Key)
    BY <1>2, <2>1, SubSeqProperties, ElementOfSeq DEF ReadInput, TypeOK
  <2> QED
    BY <1>2, <2>2 DEF ReadInput, TypeOK, sim, firmware
<1>3. CASE Keypress
  <2>1. events' \in Seq(Key)
    BY <1>3 DEF Keypress, TypeOK
  <2>2. fifo' \in Fifo /\ ready' \in BOOLEAN /\ spoiled' \in BOOLEAN
    <3>1. CASE Head(events) \in DOMAIN Byte
      <4>1. fifo' = FifoPush(fifo, Byte[Head(events)]) /\ ready' = TRUE
            /\ spoiled' = (spoiled \/ fifo.n = FifoSize)
        BY <1>3, <3>1 DEF Keypress
      <4>2. Byte[Head(events)] \in Word
        BY <3>1
      <4>3. fifo' \in Fifo
        BY <4>1, <4>2, PushEntries DEF TypeOK
      <4> QED
        BY <4>1, <4>3 DEF TypeOK
    <3>2. CASE Head(events) \notin DOMAIN Byte
      BY <1>3, <3>2 DEF Keypress, TypeOK
    <3> QED
      BY <3>1, <3>2
  <2> QED
    BY <1>3, <2>1, <2>2 DEF Keypress, TypeOK, sim, firmware
<1>4. CASE StartRun
  BY <1>4 DEF StartRun, TypeOK, terminal, firmware
<1>5. CASE EndRun
  BY <1>5 DEF EndRun, TypeOK, terminal, firmware
<1>6. CASE DropBreakpoint
  BY <1>6 DEF DropBreakpoint, TypeOK, terminal, firmware
<1>7. CASE View
  <2>1. fifo' \in Fifo /\ out' \in Word /\ ready' \in BOOLEAN
    BY <1>7, ReadRegisterFacts DEF View, TypeOK
  <2> QED
    BY <1>7, <2>1 DEF View, TypeOK, terminal, sim, firmware
<1>8. CASE Poll
  BY <1>8 DEF Poll, TypeOK, terminal, sim
<1>9. CASE Read
  <2>1. fifo' \in Fifo /\ out' \in Word /\ ready' \in BOOLEAN
    BY <1>9, ReadRegisterFacts DEF Read, TypeOK
  <2>2. FifoFront(fifo) \in Word
    BY PopType DEF TypeOK
  <2>3. got' \in Seq(Word) /\ fw' \in {"poll", "read"}
    <3>1. CASE bpStop
      BY <1>9, <3>1 DEF Read, TypeOK
    <3>2. CASE ~bpStop
      <4>1. got' = Append(got, FifoFront(fifo)) /\ fw' = "poll"
        BY <1>9, <3>2 DEF Read
      <4> QED
        BY <2>2, <4>1 DEF TypeOK
    <3> QED
      BY <3>1, <3>2
  <2>4. running' \in BOOLEAN /\ spoiled' \in BOOLEAN
    BY <1>9 DEF Read, TypeOK
  <2> QED
    BY <1>9, <2>1, <2>3, <2>4 DEF Read, TypeOK, terminal
<1>10. CASE UNCHANGED vars
  BY <1>10 DEF vars, TypeOK
<1> QED
  BY <1>1, <1>2, <1>3, <1>4, <1>5, <1>6, <1>7, <1>8, <1>9, <1>10 DEF Next

\* The reset FIFO is empty.
LEMMA ResetFacts == FifoReset \in Fifo /\ FifoReset.n = 0 /\ Entries(FifoReset) = <<>>
<1>1. FifoReset \in Fifo /\ FifoReset.n = 0
  BY RxFifoAssumption DEF FifoReset, Fifo, Slots
<1>2. Len(Entries(FifoReset)) = 0 /\ Entries(FifoReset) \in Seq(Word)
  BY <1>1, EntriesType
<1> QED
  BY <1>1, <1>2, EmptySeq

(***************************************************************************)
(* Every variable of the console keeps its type, for every FIFO size.      *)
(***************************************************************************)
THEOREM ConsoleTypeCorrect == Spec => []TypeOK
<1>1. ASSUME Init PROVE TypeOK
  <2>1. window \in Seq(Key) /\ events \in Seq(Key) /\ typed \in Seq(Key) /\ got \in Seq(Word)
    BY <1>1, EmptySeq DEF Init
  <2>2. fifo \in Fifo /\ out \in Word
    BY <1>1, ResetFacts, RxFifoAssumption DEF Init
  <2>3. fw \in {"poll", "read"}
    BY <1>1 DEF Init
  <2>4. ready \in BOOLEAN /\ running \in BOOLEAN /\ bpStop \in BOOLEAN /\ spoiled \in BOOLEAN
    BY <1>1 DEF Init
  <2> QED
    BY <2>1, <2>2, <2>3, <2>4 DEF TypeOK
<1>2. TypeOK /\ [Next]_vars => TypeOK'
  BY TypeStep
<1> QED
  BY <1>1, <1>2, PTL DEF Spec

(***************************************************************************)
(* The status bit the firmware polls says that there is something to read  *)
(* exactly when there is, however reads by firmware and debugger, key      *)
(* presses and overflows alternate.                                        *)
(***************************************************************************)
THEOREM ReadyCorrect == Spec => []ReadyMeansData
<1>1. Init => ReadyMeansData
  BY ResetFacts DEF Init, ReadyMeansData
<1>2. ASSUME TypeOK, ReadyMeansData, [Next]_vars
      PROVE  ReadyMeansData'
  <2>1. CASE Keypress
    <3>1. CASE Head(events) \in DOMAIN Byte
      <4>1. Byte[Head(events)] \in Word
        BY <3>1, ConsoleAssumption
      <4>2. fifo' = FifoPush(fifo, Byte[Head(events)]) /\ ready'
        BY <2>1, <3>1 DEF Keypress
      <4>3. fifo'.n > 0
        BY <1>2, <4>1, <4>2, PushEntries DEF TypeOK
      <4> QED
        BY <4>2, <4>3 DEF ReadyMeansData
    <3>2. CASE Head(events) \notin DOMAIN Byte
      BY <1>2, <2>1, <3>2 DEF Keypress, ReadyMeansData
    <3> QED
      BY <3>1, <3>2
  <2>2. CASE View \/ Read
    BY <1>2, <2>2, ReadRegisterFacts DEF View, Read, TypeOK
  <2>3. CASE UNCHANGED <<fifo, ready>>
    BY <1>2, <2>3 DEF ReadyMeansData
  <2>4. (Type \/ ReadInput \/ StartRun \/ EndRun \/ DropBreakpoint \/ Poll \/ UNCHANGED vars)
            => UNCHANGED <<fifo, ready>>
    BY DEF Type, ReadInput, StartRun, EndRun, DropBreakpoint, Poll, vars
  <2> QED
    BY <1>2, <2>1, <2>2, <2>3, <2>4 DEF Next
<1> QED
  BY <1>1, <1>2, ConsoleTypeCorrect, PTL DEF Spec

(***************************************************************************)
(* The array moved by memmove and its counter implement the lossy queue:   *)
(* words leave in the order in which they came, each once, and only a full *)
(* FIFO loses one, its oldest.                                             *)
(***************************************************************************)
THEOREM FifoImplementsQueue == Spec => ImplementsQueue
<1>1. Init => Queue!Init
  BY ResetFacts DEF Init, Queue!Init
<1>2. ASSUME TypeOK, [Next]_vars
      PROVE  [Queue!Next]_<<Entries(fifo), out>>
  <2>1. ASSUME ReadRegister
        PROVE  Queue!Next
    <3>1. CASE fifo.n > 0
      <4>1. /\ Entries(fifo') = Tail(Entries(fifo)) /\ out' = Head(Entries(fifo))
            /\ Entries(fifo) # <<>>
        BY <1>2, <2>1, <3>1, PopEntries DEF ReadRegister, TypeOK
      <4> QED
        BY <4>1 DEF Queue!Next, Queue!Get
    <3>2. CASE ~(fifo.n > 0)
      <4>1. fifo.n = 0
        BY <1>2, <3>2, RxFifoAssumption DEF TypeOK, Fifo
      <4>2. Entries(fifo) = <<>>
        BY <1>2, <4>1, EntriesType, EmptySeq DEF TypeOK
      <4>3. fifo' = fifo /\ out' = Zero
        BY <2>1, <4>1, <3>2 DEF ReadRegister, FifoPop, FifoFront
      <4> QED
        BY <4>2, <4>3 DEF Queue!Next, Queue!GetNothing
    <3> QED
      BY <3>1, <3>2
  <2>2. CASE Keypress
    <3>1. CASE Head(events) \in DOMAIN Byte
      <4>1. Byte[Head(events)] \in Word
        BY <3>1, ConsoleAssumption
      <4>2. Entries(fifo') = Append(IF Len(Entries(fifo)) = FifoSize THEN Tail(Entries(fifo))
                                    ELSE Entries(fifo), Byte[Head(events)])
        BY <1>2, <2>2, <3>1, <4>1, PushEntries DEF Keypress, TypeOK
      <4>3. out' = out
        BY <2>2 DEF Keypress
      <4> QED
        BY <4>1, <4>2, <4>3 DEF Queue!Next, Queue!Put
    <3>2. CASE Head(events) \notin DOMAIN Byte
      BY <2>2, <3>2 DEF Keypress
    <3> QED
      BY <3>1, <3>2
  <2>3. CASE View \/ Read
    BY <2>1, <2>3 DEF View, Read
  <2>4. (Type \/ ReadInput \/ StartRun \/ EndRun \/ DropBreakpoint \/ Poll \/ UNCHANGED vars)
            => UNCHANGED <<fifo, out>>
    BY DEF Type, ReadInput, StartRun, EndRun, DropBreakpoint, Poll, vars
  <2> QED
    BY <1>2, <2>2, <2>3, <2>4 DEF Next
<1> QED
  BY <1>1, <1>2, ConsoleTypeCorrect, PTL DEF Spec, Queue!Spec, ImplementsQueue

----------------------------------------------------------------------------
\* Keys on their way: of the keys ks, h were handled and the rest waits; what was
\* handled has come to words.
PushedKeys(ks, n) == {i \in 1 .. n : ks[i] \in DOMAIN Byte}

Waits(ks, rest, h) ==
    /\ h + Len(rest) = Len(ks)
    /\ \A i \in 1 .. Len(rest) : rest[i] = ks[h + i]

Came(ks, words, h) ==
    /\ Len(words) = Cardinality(PushedKeys(ks, h))
    /\ \A i \in 1 .. h :
          ks[i] \in DOMAIN Byte => words[Cardinality(PushedKeys(ks, i))] = Byte[ks[i]]

\* As long as nothing was spoiled, the firmware reads only what is there, and every
\* key is handled or waits.
KeysKept ==
    ~spoiled =>
        /\ fw = "read" => fifo.n > 0
        /\ \E h \in Nat : /\ Waits(typed, events \o window, h)
                          /\ Came(typed, got \o Entries(fifo), h)

LEMMA PushedKeysFacts ==
    ASSUME NEW ks, NEW n \in Nat
    PROVE  /\ IsFiniteSet(PushedKeys(ks, n)) /\ Cardinality(PushedKeys(ks, n)) \in Nat
           /\ ks[n + 1] \in DOMAIN Byte =>
                 Cardinality(PushedKeys(ks, n + 1)) = Cardinality(PushedKeys(ks, n)) + 1
           /\ ks[n + 1] \notin DOMAIN Byte =>
                 PushedKeys(ks, n + 1) = PushedKeys(ks, n)
           /\ \A i \in 1 .. n :
                 Cardinality(PushedKeys(ks, i)) <= Cardinality(PushedKeys(ks, n))
<1> DEFINE p == PushedKeys(ks, n)
<1>1. \A m \in Nat : IsFiniteSet(PushedKeys(ks, m)) /\ Cardinality(PushedKeys(ks, m)) \in Nat
  <2> SUFFICES ASSUME NEW m \in Nat
               PROVE  IsFiniteSet(PushedKeys(ks, m)) /\ Cardinality(PushedKeys(ks, m)) \in Nat
    OBVIOUS
  <2>1. IsFiniteSet(1 .. m)
    BY FS_Interval
  <2>2. PushedKeys(ks, m) \in SUBSET (1 .. m)
    BY DEF PushedKeys
  <2> QED
    BY <2>1, <2>2, FS_Subset, FS_CardinalityType
<1>2. ASSUME ks[n + 1] \in DOMAIN Byte
      PROVE  Cardinality(PushedKeys(ks, n + 1)) = Cardinality(p) + 1
  <2>1. PushedKeys(ks, n + 1) = p \cup {n + 1} /\ n + 1 \notin p
    BY <1>2 DEF PushedKeys
  <2> HIDE DEF p
  <2> QED
    BY <1>1, <2>1, FS_AddElement DEF p
<1>3. ASSUME ks[n + 1] \notin DOMAIN Byte
      PROVE  PushedKeys(ks, n + 1) = p
  BY <1>3 DEF PushedKeys
<1>4. ASSUME NEW i \in 1 .. n
      PROVE  Cardinality(PushedKeys(ks, i)) <= Cardinality(p)
  <2>1. PushedKeys(ks, i) \in SUBSET p
    BY DEF PushedKeys
  <2> HIDE DEF p
  <2> QED
    BY <1>1, <2>1, FS_Subset DEF p
<1> QED
  BY <1>1, <1>2, <1>3, <1>4

\* The next key is handled: one of them adds its word, another nothing.
LEMMA CameNext ==
    ASSUME NEW ks \in Seq(Key), NEW words \in Seq(Word), NEW h \in Nat, Came(ks, words, h)
    PROVE  /\ ks[h + 1] \in DOMAIN Byte => Came(ks, Append(words, Byte[ks[h + 1]]), h + 1)
           /\ ks[h + 1] \notin DOMAIN Byte => Came(ks, words, h + 1)
<1>1. PICK c \in Nat : c = Cardinality(PushedKeys(ks, h))
  BY PushedKeysFacts
<1>2. Len(words) = c
  BY <1>1 DEF Came
<1>3. \A i \in 1 .. h + 1 : i \in 1 .. h \/ i = h + 1
  OBVIOUS
<1>4. ASSUME ks[h + 1] \in DOMAIN Byte
      PROVE  Came(ks, Append(words, Byte[ks[h + 1]]), h + 1)
  <2> DEFINE w == Byte[ks[h + 1]]
             more == Append(words, w)
  <2>1. w \in Word
    BY <1>4, ConsoleAssumption
  <2>2. /\ Len(more) = c + 1 /\ more[c + 1] = w
        /\ \A i \in 1 .. c : more[i] = words[i]
    BY <1>2, <2>1, AppendProperties
  <2>3. Cardinality(PushedKeys(ks, h + 1)) = c + 1
    BY <1>1, <1>4, PushedKeysFacts
  <2>4. ASSUME NEW i \in 1 .. h, ks[i] \in DOMAIN Byte
        PROVE  more[Cardinality(PushedKeys(ks, i))] = Byte[ks[i]]
    <3>1. PICK d \in Nat : d = Cardinality(PushedKeys(ks, i))
      BY PushedKeysFacts
    <3>2. d <= c
      BY <1>1, <3>1, PushedKeysFacts
    <3>3. d >= 1
      <4>1. i - 1 \in Nat /\ (i - 1) + 1 = i
        OBVIOUS
      <4>2. PICK b \in Nat : b = Cardinality(PushedKeys(ks, i - 1))
        BY <4>1, PushedKeysFacts
      <4>3. d = b + 1
        BY <2>4, <3>1, <4>1, <4>2, PushedKeysFacts
      <4> QED
        BY <4>3
    <3>4. more[d] = words[d]
      BY <2>2, <3>2, <3>3
    <3> QED
      BY <2>4, <3>1, <3>4 DEF Came
  <2> HIDE DEF more, w
  <2>5. \A i \in 1 .. h + 1 :
           ks[i] \in DOMAIN Byte => more[Cardinality(PushedKeys(ks, i))] = Byte[ks[i]]
    BY <1>3, <2>2, <2>3, <2>4 DEF w
  <2>6. Came(ks, more, h + 1)
    BY <2>2, <2>3, <2>5 DEF Came
  <2> QED
    BY <2>6 DEF more, w
<1>5. ASSUME ks[h + 1] \notin DOMAIN Byte
      PROVE  Came(ks, words, h + 1)
  <2>1. PushedKeys(ks, h + 1) = PushedKeys(ks, h)
    BY <1>5, PushedKeysFacts
  <2> QED
    BY <1>3, <1>5, <2>1 DEF Came
<1> QED
  BY <1>4, <1>5

\* One key more is typed.
LEMMA KeyTyped ==
    ASSUME NEW ks \in Seq(Key), NEW rest \in Seq(Key), NEW words, NEW h \in Nat, NEW k \in Key,
           Waits(ks, rest, h), Came(ks, words, h)
    PROVE  Waits(Append(ks, k), Append(rest, k), h) /\ Came(Append(ks, k), words, h)
<1> DEFINE more == Append(ks, k)
           longer == Append(rest, k)
<1>1. PICK m, n \in Nat : m = Len(ks) /\ n = Len(rest) /\ h + n = m
  BY DEF Waits
<1>2. /\ Len(more) = m + 1 /\ more[m + 1] = k /\ \A i \in 1 .. m : more[i] = ks[i]
      /\ Len(longer) = n + 1 /\ longer[n + 1] = k /\ \A i \in 1 .. n : longer[i] = rest[i]
  BY <1>1, AppendProperties
<1> HIDE DEF more, longer
<1>3. \A i \in 1 .. n : h + i \in 1 .. m
  BY <1>1
<1>4. \A i \in 1 .. n : longer[i] = more[h + i]
  BY <1>1, <1>2, <1>3 DEF Waits
<1>5. h + (n + 1) = m + 1 /\ \A i \in 1 .. n + 1 : i \in 1 .. n \/ i = n + 1
  BY <1>1
<1>6. Waits(more, longer, h)
  BY <1>2, <1>4, <1>5 DEF Waits
<1>7. \A i \in 1 .. h : i \in 1 .. m /\ more[i] = ks[i]
  BY <1>1, <1>2
<1>8. \A n1 \in 0 .. h : PushedKeys(more, n1) = PushedKeys(ks, n1)
  BY <1>7 DEF PushedKeys
<1>9. Came(more, words, h)
  <2>1. PushedKeys(more, h) = PushedKeys(ks, h)
    BY <1>8
  <2>2. \A i \in 1 .. h : PushedKeys(more, i) = PushedKeys(ks, i)
    BY <1>8
  <2> QED
    BY <1>7, <2>1, <2>2 DEF Came
<1> QED
  BY <1>6, <1>9 DEF more, longer

\* One key less waits.
LEMMA KeyTaken ==
    ASSUME NEW ks \in Seq(Key), NEW rest \in Seq(Key), NEW h \in Nat, Waits(ks, rest, h), rest # <<>>
    PROVE  Waits(ks, Tail(rest), h + 1) /\ ks[h + 1] = Head(rest)
<1>1. PICK m, n \in Nat : m = Len(ks) /\ n = Len(rest) /\ h + n = m /\ n > 0
  BY DEF Waits
<1> DEFINE t == Tail(rest)
<1>2. Len(t) = n - 1 /\ \A i \in 1 .. n - 1 : t[i] = rest[i + 1]
  BY <1>1, HeadTailProperties
<1> HIDE DEF t
<1>3. \A i \in 1 .. n - 1 : i + 1 \in 1 .. n /\ h + (i + 1) = (h + 1) + i
  BY <1>1
<1>4. (h + 1) + (n - 1) = m
  BY <1>1
<1>5. \A i \in 1 .. n - 1 : t[i] = ks[(h + 1) + i]
  BY <1>1, <1>2, <1>3 DEF Waits
<1>6. Waits(ks, t, h + 1)
  BY <1>1, <1>2, <1>4, <1>5 DEF Waits
<1>7. 1 \in 1 .. Len(rest) /\ rest[1] = Head(rest)
  BY <1>1
<1> QED
  BY <1>6, <1>7 DEF Waits, t

\* Steps that move neither keys nor words.
LEMMA KeysStay ==
    ASSUME KeysKept, UNCHANGED <<events, window, typed, got, fifo>>, spoiled => spoiled',
           fw' = "read" => fw = "read" \/ fifo.n > 0
    PROVE  KeysKept'
<1>1. events' \o window' = events \o window /\ got' \o Entries(fifo') = got \o Entries(fifo)
  OBVIOUS
<1> QED
  BY <1>1 DEF KeysKept

LEMMA KeysStep ==
    ASSUME TypeOK, ReadyMeansData, KeysKept, [Next]_vars
    PROVE  KeysKept'
<1> SUFFICES ASSUME ~spoiled'
             PROVE  KeysKept'
  BY DEF KeysKept
<1>0. ~spoiled
  BY DEF Next, vars, Type, ReadInput, Keypress, StartRun, EndRun, DropBreakpoint, View, Poll, Read
<1>a. /\ events \in Seq(Key) /\ window \in Seq(Key) /\ typed \in Seq(Key) /\ got \in Seq(Word)
      /\ fifo \in Fifo /\ fifo.n \in Nat
  BY RxFifoAssumption DEF TypeOK, Fifo
<1>b. PICK h \in Nat : Waits(typed, events \o window, h) /\ Came(typed, got \o Entries(fifo), h)
  BY <1>0 DEF KeysKept
<1>c. Entries(fifo) \in Seq(Word) /\ Len(Entries(fifo)) = fifo.n
  BY <1>a, EntriesType
<1>1. CASE Type
  <2>1. PICK k \in Key : window' = Append(window, k) /\ typed' = Append(typed, k)
    BY <1>1 DEF Type
  <2>2. events' = events /\ fifo' = fifo /\ got' = got /\ fw' = fw
    BY <1>1 DEF Type, firmware
  <2>3. events \o Append(window, k) = Append(events \o window, k)
    BY <1>a
  <2>4. events \o window \in Seq(Key)
    BY <1>a
  <2>5. Waits(typed', events' \o window', h) /\ Came(typed', got' \o Entries(fifo'), h)
    BY <1>a, <1>b, <2>1, <2>2, <2>3, <2>4, KeyTyped
  <2> QED
    BY <1>0, <2>2, <2>5 DEF KeysKept
<1>2. CASE ReadInput
  <2> DEFINE r == ReadAtOnce
  <2>a. ~(r > EventMax)
    BY <1>2 DEF ReadInput
  <2>b. Len(window) \in Nat /\ ReadMax \in Nat /\ EventMax \in Nat
    BY <1>a, ConsoleAssumption
  <2>c. r = IF Len(window) < ReadMax THEN Len(window) ELSE ReadMax
    BY DEF ReadAtOnce
  <2> HIDE DEF r
  <2>1. r \in 0 .. Len(window) /\ r <= EventMax
    BY <2>a, <2>b, <2>c
  <2>2. events = <<>> /\ events' = SubSeq(window, 1, r) /\ window' = SubSeq(window, r + 1, Len(window))
    <3>2. (IF r < EventMax THEN r ELSE EventMax) = r
      BY <1>a, <2>1, ConsoleAssumption
    <3> QED
      BY <1>2, <3>2 DEF ReadInput, r
  <2>3. events' \o window' = window
    <3>1. 1 \in 1 .. Len(window) + 1 /\ r \in 1 - 1 .. Len(window) /\ Len(window) \in r .. Len(window)
      BY <1>a, <2>1
    <3>2. SubSeq(window, 1, r) \o SubSeq(window, r + 1, Len(window)) = SubSeq(window, 1, Len(window))
      BY <1>a, <3>1, ConcatAdjacentSubSeq
    <3>3. SubSeq(window, 1, Len(window)) = window
      BY <1>a, SubSeqFull
    <3> QED
      BY <2>2, <3>2, <3>3
  <2>4. events \o window = window
    BY <1>a, <2>2, ConcatEmptySeq
  <2>5. typed' = typed /\ fifo' = fifo /\ got' = got /\ fw' = fw
    BY <1>2 DEF ReadInput, firmware
  <2> QED
    BY <1>0, <1>b, <2>3, <2>4, <2>5 DEF KeysKept
<1>3. CASE Keypress
  <2> DEFINE rest == events \o window
             k == Head(events)
             words == got \o Entries(fifo)
  <2>1. events # <<>> /\ events' = Tail(events) /\ window' = window /\ typed' = typed /\ got' = got
        /\ fw' = fw
    BY <1>3 DEF Keypress, firmware
  <2>2. rest \in Seq(Key) /\ rest # <<>> /\ Head(rest) = k /\ Tail(rest) = Tail(events) \o window
    <3>1. rest \in Seq(Key) /\ rest # <<>>
      BY <1>a, <2>1
    <3>2. Head(rest) = k
      BY <1>a, <2>1
    <3>3. Tail(rest) = Tail(events) \o window
      BY <1>a, <2>1
    <3> QED
      BY <3>1, <3>2, <3>3
  <2>3. Waits(typed, Tail(rest), h + 1) /\ typed[h + 1] = k
    BY <1>a, <1>b, <2>2, KeyTaken
  <2>4. words \in Seq(Word)
    BY <1>a, <1>c
  <2>5. CASE k \in DOMAIN Byte
    <3>1. Byte[k] \in Word
      BY <2>5, ConsoleAssumption
    <3>2. fifo' = FifoPush(fifo, Byte[k]) /\ fifo.n # FifoSize
      BY <1>3, <2>5 DEF Keypress
    <3>3. Entries(fifo') = Append(Entries(fifo), Byte[k]) /\ fifo'.n > 0
      BY <1>a, <1>c, <3>1, <3>2, PushEntries
    <3>4. got \o Append(Entries(fifo), Byte[k]) = Append(words, Byte[k])
      BY <1>a, <1>c, <3>1
    <3>5. Came(typed, Append(words, Byte[k]), h + 1)
      BY <1>a, <1>b, <2>3, <2>4, <2>5, CameNext
    <3> HIDE DEF k, rest, words
    <3>6. /\ Waits(typed', events' \o window', h + 1)
          /\ Came(typed', got' \o Entries(fifo'), h + 1)
      BY <2>1, <2>2, <2>3, <3>3, <3>4, <3>5
    <3> QED
      BY <3>3, <3>6 DEF KeysKept
  <2>6. CASE k \notin DOMAIN Byte
    <3>1. fifo' = fifo
      BY <1>3, <2>6 DEF Keypress
    <3>2. Came(typed, words, h + 1)
      BY <1>a, <1>b, <2>3, <2>4, <2>6, CameNext
    <3>3. /\ Waits(typed', events' \o window', h + 1)
          /\ Came(typed', got' \o Entries(fifo'), h + 1)
      BY <2>1, <2>2, <2>3, <3>1, <3>2
    <3> QED
      BY <1>0, <2>1, <3>1, <3>3 DEF KeysKept
  <2> QED
    BY <2>5, <2>6
<1>4. CASE Read
  <2> DEFINE e == Entries(fifo)
  <2>1. /\ got' = Append(got, FifoFront(fifo)) /\ fw' = "poll" /\ fw = "read"
        /\ fifo' = FifoPop(fifo) /\ UNCHANGED <<window, events, typed>>
    BY <1>4 DEF Read, ReadRegister, terminal
  <2>2. fifo.n > 0
    BY <1>0, <2>1 DEF KeysKept
  <2>3. Entries(fifo') = Tail(e) /\ FifoFront(fifo) = Head(e) /\ e # <<>>
    BY <1>a, <2>1, <2>2, PopEntries
  <2> HIDE DEF e
  <2>4. \A s, t \in Seq(Word) : t # <<>> => Append(s, Head(t)) \o Tail(t) = s \o t
    OBVIOUS
  <2>5. got' \o Entries(fifo') = got \o e
    BY <1>a, <1>c, <2>1, <2>3, <2>4 DEF e
  <2> QED
    BY <1>b, <2>1, <2>5 DEF KeysKept, e
<1>5. CASE Poll
  BY <1>a, <1>5, KeysStay DEF Poll, terminal, ReadyMeansData
<1>6. CASE StartRun \/ EndRun \/ DropBreakpoint \/ UNCHANGED vars
  <2>1. UNCHANGED <<events, window, typed, got, fifo, fw, spoiled>>
    BY <1>6 DEF StartRun, EndRun, DropBreakpoint, vars, terminal, firmware
  <2> QED
    BY <2>1, KeysStay
<1>7. ~View
  BY DEF View
<1> QED
  BY <1>1, <1>2, <1>3, <1>4, <1>5, <1>6, <1>7 DEF Next

(***************************************************************************)
(* Every key typed reaches the firmware once and in its order, or waits to, *)
(* unless a buffer was full or the debugger read the register: for every    *)
(* size of the FIFO and of the two buffers before it.                       *)
(***************************************************************************)
THEOREM KeysArrive == Spec => []NoKeyLost
<1>1. Init => KeysKept
  <2> SUFFICES ASSUME Init
               PROVE  KeysKept
    OBVIOUS
  <2>1. events \o window = <<>> /\ got \o Entries(fifo) = <<>>
    BY ResetFacts DEF Init
  <2>2. PushedKeys(typed, 0) = {}
    BY DEF PushedKeys
  <2>3. Waits(typed, <<>>, 0) /\ Came(typed, <<>>, 0)
    <3>1. Cardinality(PushedKeys(typed, 0)) = 0
      BY <2>2, FS_EmptySet, Zenon
    <3> QED
      BY <3>1 DEF Waits, Came, Init
  <2> QED
    BY <2>1, <2>3 DEF KeysKept, Init
<1>2. TypeOK /\ ReadyMeansData /\ KeysKept /\ [Next]_vars => KeysKept'
  BY KeysStep
<1>3. TypeOK /\ KeysKept => NoKeyLost
  <2> SUFFICES ASSUME TypeOK, KeysKept, ~spoiled
               PROVE  NoKeyLost
    BY DEF NoKeyLost
  <2>1. PICK h \in Nat : Waits(typed, events \o window, h) /\ Came(typed, got \o Entries(fifo), h)
    BY DEF KeysKept
  <2>a. PICK words : words = got \o Entries(fifo)
    OBVIOUS
  <2>2. PICK rest \in Seq(Key), t \in Seq(Key) : rest = events \o window /\ t = typed
    <3>1. events \o window \in Seq(Key) /\ typed \in Seq(Key)
      BY DEF TypeOK
    <3> QED
      BY <3>1
  <2>3. h + Len(rest) = Len(t) /\ \A i \in 1 .. Len(rest) : rest[i] = t[h + i]
    BY <2>1, <2>2 DEF Waits
  <2>4. h = Len(t) - Len(rest)
    BY <2>3
  <2>5. rest = SubSeq(t, h + 1, Len(t))
    <3> DEFINE u == SubSeq(t, h + 1, Len(t))
    <3>1. u \in Seq(Key) /\ Len(u) = Len(rest) /\ \A i \in 1 .. Len(u) : u[i] = t[h + i]
      BY <2>3
    <3> HIDE DEF u
    <3>2. rest = u
      BY <2>3, <3>1, SeqEqual
    <3> QED
      BY <3>2 DEF u
  <2>6. \A i : Pushed(i) = Cardinality(PushedKeys(t, i))
    BY <2>2 DEF Pushed, PushedKeys
  <2>7. /\ Len(words) = Pushed(h)
        /\ \A i \in 1 .. h : t[i] \in DOMAIN Byte => words[Pushed(i)] = Byte[t[i]]
    BY <2>1, <2>2, <2>a, <2>6 DEF Came
  <2> QED
    BY <2>2, <2>a, <2>4, <2>5, <2>7, Zenon DEF NoKeyLost
<1> QED
  BY <1>1, <1>2, <1>3, ConsoleTypeCorrect, ReadyCorrect, PTL DEF Spec
=============================================================================
