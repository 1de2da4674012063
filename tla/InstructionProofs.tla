------------------------- MODULE InstructionProofs -------------------------
(***************************************************************************)
(* Proofs about single instructions.  Load and store multiple (StackFrame), *)
(* for every instruction, every base and every size of the address space;  *)
(* and the decoder (DecodeInstr), for every word at every address.         *)
(***************************************************************************)
EXTENDS StackFrame, DecodeInstr, FiniteSetTheorems, SequenceTheorems, TLAPS

----------------------------------------------------------------------------
(* Addresses modulo Space.  Every address is less than two spaces away from *)
(* the one the base register holds.                                        *)

LEMMA SpaceFacts == Space \in Nat /\ Space > 128 /\ Space = 4 * (Space \div 4) /\ Space \div 4 \in Nat
BY LsmAssumption, SMTT(30)

LEMMA Wrap ==
    ASSUME NEW S \in Nat, S > 0, NEW v \in Int
    PROVE  /\ v % S \in 0 .. S - 1
           /\ (-2 * S <= v /\ v < -S) => v % S = v + 2 * S
           /\ (-S <= v /\ v < 0) => v % S = v + S
           /\ (0 <= v /\ v < S) => v % S = v
           /\ (S <= v /\ v < 2 * S) => v % S = v - S
           /\ (2 * S <= v /\ v < 3 * S) => v % S = v - 2 * S
<1>1. v % S \in 0 .. S - 1
  BY SMTT(30)
<1>2. (-2 * S <= v /\ v < -S) => v % S = v + 2 * S
  BY SMTT(30)
<1>3. (-S <= v /\ v < 0) => v % S = v + S
  BY SMTT(30)
<1>4. (0 <= v /\ v < S) => v % S = v
  BY SMTT(30)
<1>5. (S <= v /\ v < 2 * S) => v % S = v - S
  BY SMTT(30)
<1>6. (2 * S <= v /\ v < 3 * S) => v % S = v - 2 * S
  BY SMTT(30)
<1> QED
  BY <1>1, <1>2, <1>3, <1>4, <1>5, <1>6

\* Going d bytes from the base and e bytes from there is going d + e bytes.
LEMMA WrapTwice ==
    ASSUME NEW b \in 0 .. Space - 1, NEW d \in -144 .. 144, NEW e \in -144 .. 144,
           d + e \in -144 .. 144
    PROVE  (((b + d) % Space) + e) % Space = (b + (d + e)) % Space
<1> DEFINE v == b + d
           m == v % Space
           x == m + e
           y == b + (d + e)
           p == x % Space
           q == y % Space
<1>1. Space \in Nat /\ Space > 128
  BY SpaceFacts
<1>2. v \in Int /\ -2 * Space <= v /\ v < 3 * Space /\ y \in Int /\ -2 * Space <= y /\ y < 3 * Space
  BY <1>1
<1>3. m \in 0 .. Space - 1 /\ (m = v + 2 * Space \/ m = v + Space \/ m = v \/ m = v - Space \/ m = v - 2 * Space)
  BY <1>1, <1>2, Wrap
<1> HIDE DEF m
<1>4. x \in Int /\ -2 * Space <= x /\ x < 3 * Space
  BY <1>1, <1>3
<1> HIDE DEF x, y, v
<1>5. /\ p \in 0 .. Space - 1
      /\ p = x + 2 * Space \/ p = x + Space \/ p = x \/ p = x - Space \/ p = x - 2 * Space
  BY <1>1, <1>4, Wrap
<1>6. /\ q \in 0 .. Space - 1
      /\ q = y + 2 * Space \/ q = y + Space \/ q = y \/ q = y - Space \/ q = y - 2 * Space
  BY <1>1, <1>2, Wrap
<1> HIDE DEF p, q
<1>7. p = q
  BY <1>1, <1>3, <1>5, <1>6 DEF x, y, v
<1> QED
  BY <1>7 DEF p, q, x, y, v, m

\* Offsets less than a space apart lead to different addresses.
LEMMA WrapInjective ==
    ASSUME NEW b \in 0 .. Space - 1, NEW d \in -144 .. 144, NEW e \in -144 .. 144,
           d - e < Space, e - d < Space, (b + d) % Space = (b + e) % Space
    PROVE  d = e
<1> DEFINE x == b + d
           y == b + e
           p == x % Space
           q == y % Space
<1>1. Space \in Nat /\ Space > 128
  BY SpaceFacts
<1>2. /\ x \in Int /\ -2 * Space <= x /\ x < 3 * Space
      /\ y \in Int /\ -2 * Space <= y /\ y < 3 * Space
  BY <1>1
<1>3. p = q
  OBVIOUS
<1> HIDE DEF x, y
<1>4. /\ p \in 0 .. Space - 1
      /\ p = x + 2 * Space \/ p = x + Space \/ p = x \/ p = x - Space \/ p = x - 2 * Space
  BY <1>1, <1>2, Wrap
<1>5. q = y + 2 * Space \/ q = y + Space \/ q = y \/ q = y - Space \/ q = y - 2 * Space
  BY <1>1, <1>2, Wrap
<1> HIDE DEF p, q
<1> QED
  BY <1>1, <1>2, <1>3, <1>4, <1>5 DEF x, y

\* A multiple of 4 stays one, because Space is.
LEMMA WrapWord ==
    ASSUME NEW k \in Int, -2 * Space <= 4 * k, 4 * k < 3 * Space
    PROVE  (4 * k) % Space \in WordAddrs
<1> DEFINE w == Space \div 4
           x == 4 * k
           m == x % Space
<1>1. Space \in Nat /\ Space > 128 /\ Space = 4 * w /\ w \in Nat
  BY SpaceFacts
<1>2. x \in Int /\ -2 * Space <= x /\ x < 3 * Space
  BY <1>1
<1>3. /\ m \in 0 .. Space - 1
      /\ m = x + 2 * Space \/ m = x + Space \/ m = x \/ m = x - Space \/ m = x - 2 * Space
  <2> HIDE DEF x
  <2> QED
    BY <1>1, <1>2, Wrap
<1> HIDE DEF m, w
<1>4. PICK j \in -2 .. 2 : m = x + j * Space
  BY <1>1, <1>2, <1>3
<1>5. m = 4 * (k + j * w)
  BY <1>1, <1>4
<1>6. j * w \in Int
  BY <1>1
<1> DEFINE n == k + j * w
<1>7. n \in Int /\ m = 4 * n
  BY <1>5, <1>6
<1> HIDE DEF n
<1>8. n \in 0 .. w - 1
  BY <1>1, <1>3, <1>7
<1> QED
  BY <1>7, <1>8 DEF WordAddrs, m, w

----------------------------------------------------------------------------
(* The registers of an instruction                                         *)

LEMMA IntervalSize ==
    ASSUME NEW a \in Int, NEW b \in Int, a <= b, NEW S, S = a .. b
    PROVE  IsFiniteSet(S) /\ Cardinality(S) = b - a + 1
BY FS_Interval

LEMMA ListFacts ==
    ASSUME NEW i \in LsmOps
    PROVE  /\ RegList(i) \subseteq GPR
           /\ IsFiniteSet(RegList(i))
           /\ Cardinality(RegList(i)) \in 0 .. 32
           /\ TNReg(i) \in Int
           /\ TNReg(i) - Cardinality(RegList(i)) \in 0 .. 4
           /\ TNReg(i) = Cardinality(RegList(i)) <=> RangeRegs(i) \cap EnabledRegs(i) = {}
<1> DEFINE R == RangeRegs(i)
           E == EnabledRegs(i)
<1>1. R \subseteq GPR /\ E \subseteq 28 .. 31 /\ E \subseteq GPR
  BY DEF RangeRegs, EnabledRegs, LsmOps, GPR
<1>2. /\ IsFiniteSet(GPR) /\ Cardinality(GPR) = 32
      /\ IsFiniteSet(28 .. 31) /\ Cardinality(28 .. 31) = 4
  <2> DEFINE H == 28 .. 31
  <2>1. GPR = 0 .. 31 /\ 31 - 0 + 1 = 32 /\ 0 \in Int /\ 31 \in Int /\ 0 <= 31
    BY DEF GPR
  <2>2. IsFiniteSet(GPR) /\ Cardinality(GPR) = 32
    BY <2>1, IntervalSize
  <2>3. H = 28 .. 31 /\ 31 - 28 + 1 = 4 /\ 28 \in Int /\ 31 \in Int /\ 28 <= 31
    OBVIOUS
  <2> HIDE DEF H
  <2>4. IsFiniteSet(H) /\ Cardinality(H) = 4
    BY <2>3, IntervalSize
  <2> QED
    BY <2>2, <2>4 DEF H
<1> HIDE DEF R, E
<1>3. IsFiniteSet(R) /\ IsFiniteSet(E) /\ Cardinality(E) <= 4
  BY <1>1, <1>2, FS_Subset
<1>4. /\ Cardinality(R) \in Nat /\ Cardinality(E) \in Nat
      /\ IsFiniteSet(R \cap E) /\ Cardinality(R \cap E) \in Nat
      /\ Cardinality(R \cap E) <= Cardinality(E)
  BY <1>3, FS_Intersection, FS_CardinalityType
<1>5. Cardinality(R \cup E) = Cardinality(R) + Cardinality(E) - Cardinality(R \cap E)
  BY <1>3, FS_Union
<1>6. IsFiniteSet(R \cup E) /\ R \cup E \subseteq GPR /\ Cardinality(R \cup E) <= 32
  BY <1>1, <1>2, FS_Subset
<1>7. Cardinality(R \cap E) = 0 <=> R \cap E = {}
  BY <1>4, FS_EmptySet
<1>8. Cardinality(R \cup E) \in Nat
  BY <1>6, FS_CardinalityType
<1> DEFINE n == Cardinality(R \cup E)
           t == Cardinality(R) + Cardinality(E)
<1>9. /\ n \in 0 .. 32 /\ t \in Int /\ t - n \in 0 .. 4
      /\ t = n <=> R \cap E = {}
  <2> DEFINE r == Cardinality(R)
             e == Cardinality(E)
             c == Cardinality(R \cap E)
  <2>1. /\ r \in Nat /\ e \in Nat /\ c \in Nat /\ c <= e /\ e <= 4
        /\ n = r + e - c /\ n \in Nat /\ n <= 32 /\ t = r + e
        /\ c = 0 <=> R \cap E = {}
    BY <1>3, <1>4, <1>5, <1>6, <1>7, <1>8
  <2> HIDE DEF r, e, c, n, t
  <2> QED
    BY <2>1
<1>10. RegList(i) = R \cup E /\ TNReg(i) = t
  BY DEF RegList, TNReg, R, E
<1> HIDE DEF n, t
<1> QED
  BY <1>6, <1>9, <1>10 DEF n, R, E

\* The count of words and the last address agree unless a register is named twice.
LEMMA ErrorIsNamedTwice ==
    ASSUME NEW i \in LsmOps, NEW b \in 0 .. Space - 1
    PROVE  AddrError(i, b) <=> RangeRegs(i) \cap EnabledRegs(i) # {}
<1> DEFINE n == Cardinality(RegList(i))
           t == TNReg(i)
           d == FirstAddr(i, b) + 4 * n - 4 - LastAddr(i, b)
<1>1. /\ n \in Int /\ t \in Int /\ t - n \in 0 .. 4
      /\ t = n <=> RangeRegs(i) \cap EnabledRegs(i) = {}
  BY ListFacts
<1>2. i.down \in BOOLEAN /\ i.after \in BOOLEAN
  BY DEF LsmOps
<1>3. b \in Int /\ Space \in Nat /\ Space > 128
  BY SpaceFacts
<1> HIDE DEF n, t
<1>4. d = 4 * (n - t)
  <2>1. CASE ~i.down /\ ~i.after
    BY <1>1, <1>3, <2>1 DEF FirstAddr, LastAddr, t
  <2>2. CASE ~i.down /\ i.after
    BY <1>1, <1>3, <2>2 DEF FirstAddr, LastAddr, t
  <2>3. CASE i.down /\ ~i.after
    BY <1>1, <1>3, <2>3 DEF FirstAddr, LastAddr, t
  <2>4. CASE i.down /\ i.after
    BY <1>1, <1>3, <2>4 DEF FirstAddr, LastAddr, t
  <2> QED
    BY <1>2, <2>1, <2>2, <2>3, <2>4
<1>5. d % Space # 0 <=> t # n
  <2> HIDE DEF d
  <2>1. d \in Int /\ -16 <= d /\ d <= 0 /\ (d = 0 <=> t = n)
    BY <1>1, <1>4
  <2>2. d % Space = IF d < 0 THEN d + Space ELSE d
    BY <1>3, <2>1, Wrap
  <2> QED
    BY <1>3, <2>1, <2>2
<1> QED
  BY <1>1, <1>5 DEF AddrError, d, n

LEMMA PlaceInjective ==
    ASSUME NEW i \in LsmOps, NEW r \in GPR, NEW q \in GPR
    PROVE  Place(i, r) \in Int /\ (Place(i, r) = Place(i, q) => r = q)
BY DEF Place, GPR

\* Every register of the list has a word of its own.
LEMMA SlotFacts ==
    ASSUME NEW i \in LsmOps, NEW r \in RegList(i)
    PROVE  /\ Slot(i, r) \in 0 .. Cardinality(RegList(i)) - 1
           /\ \A q \in RegList(i) : Slot(i, r) = Slot(i, q) => r = q
<1> DEFINE L == RegList(i)
           Below(q) == {p \in L : Place(i, p) < Place(i, q)}
<1>1. L \subseteq GPR /\ IsFiniteSet(L) /\ Cardinality(L) \in Nat
  BY ListFacts
<1>2. \A q \in L : Place(i, q) \in Int
  BY <1>1, PlaceInjective
<1>3. \A q \in L : IsFiniteSet(Below(q)) /\ Cardinality(Below(q)) \in Nat
  BY <1>1, FS_Subset, FS_CardinalityType
<1>4. Slot(i, r) < Cardinality(L)
  <2>1. Below(r) \in SUBSET L /\ r \notin Below(r)
    BY <1>2
  <2> HIDE DEF Below
  <2>2. Cardinality(Below(r)) <= Cardinality(L) /\ Cardinality(L) # Cardinality(Below(r))
    BY <1>1, <2>1, FS_Subset
  <2> QED
    BY <1>1, <1>3, <2>2 DEF Slot, Below
<1>5. ASSUME NEW p \in L, NEW q \in L, Place(i, p) < Place(i, q)
      PROVE  Slot(i, p) # Slot(i, q)
  <2>1. Below(p) \in SUBSET Below(q) /\ p \in Below(q) /\ p \notin Below(p)
    BY <1>2, <1>5
  <2> HIDE DEF Below
  <2>2. Cardinality(Below(q)) # Cardinality(Below(p))
    BY <1>3, <2>1, FS_Subset
  <2> QED
    BY <2>2 DEF Slot, Below
<1>6. ASSUME NEW q \in L, Slot(i, r) = Slot(i, q)
      PROVE  r = q
  <2>1. Place(i, r) = Place(i, q)
    BY <1>2, <1>5, <1>6
  <2> QED
    BY <1>1, <2>1, PlaceInjective
<1>7. Slot(i, r) = Cardinality(Below(r))
  BY DEF Slot
<1> HIDE DEF Below
<1>8. Slot(i, r) \in 0 .. Cardinality(L) - 1
  BY <1>1, <1>3, <1>4, <1>7
<1> QED
  BY <1>6, <1>8

\* How far the first word is from the base.
Offset(i) ==
    (IF i.down THEN -4 * TNReg(i) ELSE 0) + (IF i.down <=> i.after THEN 0 ELSE 4)

LEMMA WordFacts ==
    ASSUME NEW i \in LsmOps, NEW b \in 0 .. Space - 1, NEW r \in RegList(i)
    PROVE  /\ Offset(i) + 4 * Slot(i, r) \in -144 .. 144
           /\ WordAddr(i, b, r) = (b + (Offset(i) + 4 * Slot(i, r))) % Space
<1>1. TNReg(i) \in 0 .. 36 /\ Slot(i, r) \in 0 .. 31
  BY ListFacts, SlotFacts
<1>2. i.down \in BOOLEAN /\ i.after \in BOOLEAN
  BY DEF LsmOps
<1>3. b \in Int /\ Space \in Nat
  BY SpaceFacts
<1> DEFINE t == TNReg(i)
           s == Slot(i, r)
<1> HIDE DEF t, s
<1>4. /\ Offset(i) + 4 * s \in -144 .. 144
      /\ FirstAddr(i, b) + 4 * s = b + (Offset(i) + 4 * s)
  <2>1. CASE ~i.down /\ ~i.after
    BY <1>1, <1>3, <2>1 DEF FirstAddr, Offset, t, s
  <2>2. CASE ~i.down /\ i.after
    BY <1>1, <1>3, <2>2 DEF FirstAddr, Offset, t, s
  <2>3. CASE i.down /\ ~i.after
    BY <1>1, <1>3, <2>3 DEF FirstAddr, Offset, t, s
  <2>4. CASE i.down /\ i.after
    BY <1>1, <1>3, <2>4 DEF FirstAddr, Offset, t, s
  <2> QED
    BY <1>2, <2>1, <2>2, <2>3, <2>4
<1> QED
  BY <1>4 DEF WordAddr, s

\* A base is a word address.
LEMMA BaseFacts ==
    ASSUME NEW b \in Bases
    PROVE  b \in 0 .. Space - 1 /\ \E k \in Int : b = 4 * k
<1> DEFINE w == Space \div 4
<1>1. w \in Nat /\ Space = 4 * w
  BY SpaceFacts
<1>2. PICK k \in 0 .. w - 1 : b = 4 * k
  BY FrameAssumption
<1> HIDE DEF w
<1> QED
  BY <1>1, <1>2

LEMMA WordAddrFacts ==
    ASSUME NEW i \in LsmOps, NEW b \in Bases, NEW r \in RegList(i)
    PROVE  /\ WordAddr(i, b, r) \in WordAddrs
           /\ \A q \in RegList(i) : WordAddr(i, b, q) = WordAddr(i, b, r) => q = r
<1>1. b \in 0 .. Space - 1 /\ Space \in Nat /\ Space > 128
  BY BaseFacts, SpaceFacts
<1>2. PICK k \in Int : b = 4 * k
  BY BaseFacts
<1>3. WordAddr(i, b, r) \in WordAddrs
  <2>1. TNReg(i) \in Int /\ Slot(i, r) \in Int
    BY ListFacts, SlotFacts
  <2>2. PICK d \in Int : Offset(i) + 4 * Slot(i, r) = 4 * d
    <3> DEFINE t == TNReg(i)
               s == Slot(i, r)
    <3> HIDE DEF t, s
    <3>1. t \in Int /\ s \in Int
      BY <2>1 DEF t, s
    <3>2. \/ Offset(i) + 4 * s = 4 * (s - t) \/ Offset(i) + 4 * s = 4 * (s - t + 1)
          \/ Offset(i) + 4 * s = 4 * s \/ Offset(i) + 4 * s = 4 * (s + 1)
      BY <3>1 DEF Offset, t
    <3>3. s - t \in Int /\ s - t + 1 \in Int /\ s + 1 \in Int
      BY <3>1
    <3> QED
      BY <3>1, <3>2, <3>3 DEF s
  <2>3. d \in -36 .. 36 /\ WordAddr(i, b, r) = (b + 4 * d) % Space
    BY <1>1, <2>2, WordFacts
  <2>4. k + d \in Int /\ b + 4 * d = 4 * (k + d)
    BY <1>2, <2>2
  <2>5. -2 * Space <= 4 * (k + d) /\ 4 * (k + d) < 3 * Space
    BY <1>1, <2>3, <2>4
  <2> QED
    BY <2>3, <2>4, <2>5, WrapWord
<1>4. ASSUME NEW q \in RegList(i), WordAddr(i, b, q) = WordAddr(i, b, r)
      PROVE  q = r
  <2>1. Slot(i, q) \in 0 .. 31 /\ Slot(i, r) \in 0 .. 31
    BY ListFacts, SlotFacts
  <2> DEFINE d == Offset(i) + 4 * Slot(i, r)
             e == Offset(i) + 4 * Slot(i, q)
  <2>2. d \in -144 .. 144 /\ e \in -144 .. 144 /\ (b + d) % Space = (b + e) % Space
    BY <1>1, <1>4, WordFacts
  <2>3. Offset(i) \in Int
    BY ListFacts DEF Offset
  <2>4. d - e = 4 * (Slot(i, r) - Slot(i, q))
    BY <2>1, <2>3
  <2> DEFINE s == Slot(i, r)
             u == Slot(i, q)
  <2> HIDE DEF d, e, s, u
  <2>5. d - e < Space /\ e - d < Space
    <3>1. s \in 0 .. 31 /\ u \in 0 .. 31 /\ d - e = 4 * (s - u)
      BY <2>1, <2>4 DEF s, u
    <3> QED
      BY <1>1, <2>2, <3>1
  <2>6. d = e
    BY <1>1, <2>2, <2>5, WrapInjective
  <2>7. Slot(i, r) = Slot(i, q)
    BY <2>1, <2>2, <2>4, <2>6
  <2> QED
    BY <2>7, SlotFacts
<1> QED
  BY <1>3, <1>4

----------------------------------------------------------------------------
(* Saving and restoring                                                    *)

LEMMA StoredFacts ==
    ASSUME NEW i \in LsmOps, NEW rs, rs[i.a] \in Bases, NEW m, DOMAIN m = WordAddrs
    PROVE  /\ DOMAIN Stored(i, rs, m) = WordAddrs
           /\ \A r \in RegList(i) : Stored(i, rs, m)[WordAddr(i, rs[i.a], r)] = rs[r]
           /\ \A w \in WordAddrs :
                 (\A r \in RegList(i) : WordAddr(i, rs[i.a], r) # w) => Stored(i, rs, m)[w] = m[w]
<1> DEFINE At(w) == {q \in RegList(i) : WordAddr(i, rs[i.a], q) = w}
<1>1. ASSUME NEW r \in RegList(i)
      PROVE  Stored(i, rs, m)[WordAddr(i, rs[i.a], r)] = rs[r]
  <2> DEFINE w == WordAddr(i, rs[i.a], r)
  <2>1. w \in WordAddrs /\ At(w) = {r}
    BY <1>1, WordAddrFacts
  <2>2. At(w) # {} /\ (CHOOSE q \in At(w) : TRUE) = r
    BY <2>1
  <2> QED
    BY <2>1, <2>2 DEF Stored
<1>2. ASSUME NEW w \in WordAddrs, \A r \in RegList(i) : WordAddr(i, rs[i.a], r) # w
      PROVE  Stored(i, rs, m)[w] = m[w]
  BY <1>2 DEF Stored
<1> QED
  BY <1>1, <1>2 DEF Stored

\* What Restore takes over from the save: the list, and the size of the frame.
LEMMA RestoreFields ==
    ASSUME NEW i \in LsmOps, i = save
    PROVE  /\ Restore \in LsmOps
           /\ Restore.a = i.a /\ Restore.modify = i.modify /\ Restore.aligned = i.aligned
           /\ Restore.down = IF i.modify THEN ~i.down ELSE i.down
           /\ Restore.after = IF i.modify THEN ~i.after ELSE i.after
           /\ RangeRegs(Restore) = RangeRegs(i) /\ EnabledRegs(Restore) = EnabledRegs(i)
           /\ ~i.modify => Restore = i
<1>1. Restore = IF i.modify THEN [i EXCEPT !.after = ~i.after, !.down = ~i.down] ELSE i
  BY DEF Restore, LsmOps
<1>2. /\ Restore \in LsmOps
      /\ Restore.a = i.a /\ Restore.modify = i.modify /\ Restore.aligned = i.aligned
      /\ Restore.rb = i.rb /\ Restore.re = i.re /\ Restore.enable = i.enable
      /\ Restore.down = IF i.modify THEN ~i.down ELSE i.down
      /\ Restore.after = IF i.modify THEN ~i.after ELSE i.after
      /\ ~i.modify => Restore = i
  BY <1>1 DEF LsmOps
<1> QED
  BY <1>2 DEF RangeRegs, EnabledRegs

LEMMA RestoreList ==
    ASSUME NEW i \in LsmOps, i = save
    PROVE  /\ RegList(Restore) = RegList(i) /\ TNReg(Restore) = TNReg(i)
           /\ \A r \in RegList(i) : Slot(Restore, r) = Slot(i, r)
<1>1. RegList(Restore) = RegList(i) /\ TNReg(Restore) = TNReg(i)
  BY RestoreFields DEF RegList, TNReg
<1>2. \A r : Place(Restore, r) = Place(i, r)
  BY RestoreFields DEF Place
<1> QED
  BY <1>1, <1>2 DEF Slot

\* The base register after the save, when the base moves.
Moved(i) == (IF i.down THEN -4 ELSE 4) * TNReg(i)

LEMMA MovedFacts ==
    ASSUME NEW i \in LsmOps
    PROVE  /\ Moved(i) \in -144 .. 144
           /\ TNReg(i) \in 0 .. 36
           /\ Moved(i) = IF i.down THEN -4 * TNReg(i) ELSE 4 * TNReg(i)
<1>1. TNReg(i) \in 0 .. 36
  <2> DEFINE t == TNReg(i)
             n == Cardinality(RegList(i))
  <2>1. t \in Int /\ n \in 0 .. 32 /\ t - n \in 0 .. 4
    BY ListFacts
  <2> HIDE DEF t, n
  <2>2. t \in 0 .. 36
    BY <2>1
  <2> QED
    BY <2>2 DEF t
<1>2. i.down \in BOOLEAN
  BY DEF LsmOps
<1> QED
  BY <1>1, <1>2 DEF Moved

LEMMA UpdatedFacts ==
    ASSUME NEW i \in LsmOps, NEW rs, rs = [r \in GPR |-> rs[r]]
    PROVE  /\ Updated(i, rs) = [r \in GPR |-> Updated(i, rs)[r]]
           /\ \A r \in GPR \ {i.a} : Updated(i, rs)[r] = rs[r]
           /\ ~i.modify => Updated(i, rs) = rs
           /\ i.modify => Updated(i, rs)[i.a] = (rs[i.a] + Moved(i)) % Space
<1>1. i.a \in GPR
  BY DEF LsmOps
<1>2. CASE ~i.modify
  BY <1>2 DEF Updated
<1>3. CASE i.modify
  <2>1. Updated(i, rs) = [rs EXCEPT ![i.a] = (rs[i.a] + Moved(i)) % Space]
    BY <1>3 DEF Updated, Moved
  <2> HIDE DEF Updated
  <2> DEFINE b == (rs[i.a] + Moved(i)) % Space
  <2> HIDE DEF b
  <2>2. Updated(i, rs) = [r \in GPR |-> IF r = i.a THEN b ELSE rs[r]]
    BY <2>1 DEF b
  <2> QED
    BY <1>1, <1>3, <2>2 DEF b
<1> QED
  BY <1>2, <1>3

\* The restore reads each register where the save wrote it.
LEMMA RestoreReadsTheFrame ==
    ASSUME NEW i \in LsmOps, i = save, NEW b \in 0 .. Space - 1, NEW r \in RegList(i)
    PROVE  WordAddr(Restore, IF i.modify THEN (b + Moved(i)) % Space ELSE b, r)
              = WordAddr(i, b, r)
<1>1. CASE ~i.modify
  BY <1>1, RestoreFields
<1>2. CASE i.modify
  <2> DEFINE c == (b + Moved(i)) % Space
             s == Slot(i, r)
             t == TNReg(i)
             d == Offset(i) + 4 * s
             e == Offset(Restore) + 4 * s
             v == Moved(i)
  <2>1. /\ Restore \in LsmOps /\ r \in RegList(Restore) /\ Slot(Restore, r) = s
        /\ TNReg(Restore) = t /\ Restore.down = ~i.down /\ Restore.after = ~i.after
    BY <1>2, RestoreFields, RestoreList
  <2>2. c \in 0 .. Space - 1
    BY SpaceFacts, Wrap, MovedFacts
  <2>3. d \in -144 .. 144 /\ WordAddr(i, b, r) = (b + d) % Space
    BY WordFacts
  <2>4. e \in -144 .. 144 /\ WordAddr(Restore, c, r) = (c + e) % Space
    BY <2>1, <2>2, WordFacts
  <2>5. d = v + e
    <3>1. i.down \in BOOLEAN /\ i.after \in BOOLEAN /\ t \in Int /\ s \in Int
      BY ListFacts, SlotFacts DEF LsmOps
    <3>2. v = IF i.down THEN -4 * t ELSE 4 * t
      BY MovedFacts
    <3>3. Offset(i) = (IF i.down THEN -4 * t ELSE 0) + (IF i.down <=> i.after THEN 0 ELSE 4)
      BY DEF Offset
    <3>4. Offset(Restore) = (IF i.down THEN 0 ELSE -4 * t) + (IF i.down <=> i.after THEN 0 ELSE 4)
      BY <2>1, <3>1 DEF Offset
    <3> HIDE DEF t, s, v
    <3> QED
      BY <3>1, <3>2, <3>3, <3>4
  <2>6. v \in -144 .. 144
    BY MovedFacts
  <2> HIDE DEF v, d, e
  <2>7. (((b + v) % Space) + e) % Space = (b + (v + e)) % Space
    BY <2>3, <2>4, <2>5, <2>6, WrapTwice
  <2>8. (c + e) % Space = (b + d) % Space
    BY <2>5, <2>7 DEF v
  <2> QED
    BY <1>2, <2>3, <2>4, <2>8
<1> QED
  BY <1>1, <1>2 DEF LsmOps

\* The restore gives the base back.
LEMMA RestoreMovesBack ==
    ASSUME NEW i \in LsmOps, i = save, NEW b \in 0 .. Space - 1, i.modify
    PROVE  (((b + Moved(i)) % Space) + Moved(Restore)) % Space = b
<1>1. /\ Moved(i) \in -144 .. 144 /\ Moved(Restore) \in -144 .. 144
      /\ Moved(i) + Moved(Restore) = 0
  <2> DEFINE t == TNReg(i)
  <2>1. Restore \in LsmOps /\ TNReg(Restore) = t /\ Restore.down = ~i.down
    BY RestoreFields, RestoreList
  <2>2. /\ Moved(i) = IF i.down THEN -4 * t ELSE 4 * t
        /\ Moved(Restore) = IF i.down THEN 4 * t ELSE -4 * t
        /\ t \in 0 .. 36
    BY <2>1, MovedFacts
  <2> HIDE DEF t
  <2> QED
    BY <2>2
<1> DEFINE v == Moved(i)
           u == Moved(Restore)
<1> HIDE DEF v, u
<1>2. v \in -144 .. 144 /\ u \in -144 .. 144 /\ v + u \in -144 .. 144
  BY <1>1 DEF v, u
<1>3. (((b + v) % Space) + u) % Space = (b + (v + u)) % Space
  BY <1>2, WrapTwice
<1>4. b % Space = b /\ b + (v + u) = b
  BY <1>1, SpaceFacts, Wrap DEF v, u
<1> QED
  BY <1>3, <1>4 DEF v, u

----------------------------------------------------------------------------
(* The invariant: memory holds the frame from the push to the last read,   *)
(* the base register says where it is, and the function has changed only   *)
(* registers that it saved.                                                *)

FrameTypes ==
    /\ save \in Saves
    /\ at \in {"save", "body", "restore", "done", "exit"}
    /\ regs = [r \in GPR |-> regs[r]] /\ regs0 = [r \in GPR |-> regs0[r]]
    /\ regs0[save.a] \in Bases
    /\ DOMAIN mem0 = WordAddrs

Framed ==
    /\ mem = Stored(save, regs0, mem0)
    /\ regs[save.a] = Updated(save, regs0)[save.a]
    /\ \A r \in GPR \ (RegList(save) \cup {save.a}) : regs[r] = regs0[r]
    /\ RangeRegs(save) \cap EnabledRegs(save) = {}

FrameInv ==
    /\ FrameTypes
    /\ at = "save" => regs = regs0 /\ mem = mem0
    /\ at \in {"body", "restore"} => Framed
    /\ RestoreUndoesSave
    /\ ExitsOnlyOnBadList

FrameSpec == FrameInit /\ [][FrameNext]_framevars

LEMMA SaveFacts ==
    ASSUME FrameTypes
    PROVE  /\ save \in LsmOps /\ save.a \in GPR
           /\ ~(save.modify /\ save.a \in RegList(save))
           /\ regs0[save.a] \in 0 .. Space - 1
BY FrameAssumption, BaseFacts DEF FrameTypes, LsmOps

\* A load that a breakpoint ends anywhere leaves the frame's registers as they are
\* or brings them back.
LEMMA LoadedFacts ==
    ASSUME FrameTypes, Framed, NEW n
    PROVE  /\ Loaded(Restore, regs, mem, n) = [r \in GPR |-> Loaded(Restore, regs, mem, n)[r]]
           /\ Loaded(Restore, regs, mem, n)[save.a] = regs[save.a]
           /\ \A r \in GPR \ (RegList(save) \cup {save.a}) :
                 Loaded(Restore, regs, mem, n)[r] = regs0[r]
           /\ \A r \in RegList(save) :
                 Slot(save, r) < n => Loaded(Restore, regs, mem, n)[r] = regs0[r]
<1> DEFINE i == save
           b == regs0[i.a]
           c == regs[i.a]
           l == Loaded(Restore, regs, mem, n)
<1>1. /\ i \in LsmOps /\ i.a \in GPR /\ b \in Bases /\ b \in 0 .. Space - 1
      /\ ~(i.modify /\ i.a \in RegList(i)) /\ i.modify \in BOOLEAN
  BY SaveFacts DEF FrameTypes, LsmOps
<1>2. c = IF i.modify THEN (b + Moved(i)) % Space ELSE b
  BY <1>1, UpdatedFacts DEF FrameTypes, Framed
<1>3. \A r \in RegList(i) : mem[WordAddr(Restore, c, r)] = regs0[r]
  <2> SUFFICES ASSUME NEW r \in RegList(i)
               PROVE  mem[WordAddr(Restore, c, r)] = regs0[r]
    OBVIOUS
  <2>1. WordAddr(Restore, c, r) = WordAddr(i, b, r)
    BY <1>1, <1>2, RestoreReadsTheFrame
  <2>2. mem[WordAddr(i, b, r)] = regs0[r]
    BY <1>1, StoredFacts DEF FrameTypes, Framed
  <2> QED
    BY <2>1, <2>2
<1>4. /\ Restore.a = i.a /\ RegList(Restore) = RegList(i)
      /\ \A r \in RegList(i) : Slot(Restore, r) = Slot(i, r)
  BY <1>1, RestoreFields, RestoreList
<1>5. RegList(i) \subseteq GPR
  BY <1>1, ListFacts
<1>6. l = [r \in GPR |-> IF r \in RegList(i) /\ Slot(i, r) < n THEN regs0[r] ELSE regs[r]]
  BY <1>3, <1>4 DEF Loaded
<1> HIDE DEF l
<1>7. l[i.a] = c
  <2>1. CASE i.a \in RegList(i)
    <3>1. ~i.modify /\ c = b
      BY <1>1, <1>2, <2>1
    <3> QED
      BY <1>1, <1>6, <3>1
  <2>2. CASE i.a \notin RegList(i)
    BY <1>1, <1>6, <2>2
  <2> QED
    BY <2>1, <2>2
<1>8. l = [r \in GPR |-> l[r]]
  BY <1>6
<1>9. \A r \in GPR \ (RegList(i) \cup {i.a}) : l[r] = regs0[r]
  BY <1>6 DEF Framed
<1>10. \A r \in RegList(i) : Slot(i, r) < n => l[r] = regs0[r]
  BY <1>5, <1>6
<1> QED
  BY <1>7, <1>8, <1>9, <1>10 DEF l

LEMMA FrameInitInv == FrameInit => FrameInv
<1> SUFFICES ASSUME FrameInit
             PROVE  FrameInv
  OBVIOUS
<1>1. save \in Saves /\ save.a \in GPR
  BY FrameAssumption DEF FrameInit, LsmOps
<1>2. PICK b \in Bases : regs = [r \in GPR |-> IF r = save.a THEN b ELSE 1000 + r]
  BY DEF FrameInit
<1>3. FrameTypes
  BY <1>1, <1>2 DEF FrameInit, FrameTypes
<1> QED
  BY <1>3 DEF FrameInit, FrameInv, RestoreUndoesSave, ExitsOnlyOnBadList

LEMMA PushInv == FrameInv /\ Push => FrameInv'
<1> SUFFICES ASSUME FrameInv, Push
             PROVE  FrameInv'
  OBVIOUS
<1> DEFINE i == save
           b == regs0[i.a]
<1>1. /\ FrameTypes /\ regs = regs0 /\ mem = mem0 /\ at = "save"
      /\ save' = save /\ regs0' = regs0 /\ mem0' = mem0
  BY DEF FrameInv, Push
<1>2. i \in LsmOps /\ i.a \in GPR /\ b \in 0 .. Space - 1
  BY <1>1, SaveFacts
<1>3. StoreError(i, b) <=> NamedTwice \/ (save.aligned /\ 31 \in RegList(save))
  BY <1>2, ErrorIsNamedTwice DEF StoreError, NamedTwice
<1>4. CASE StoreError(i, b)
  <2>1. at' = "exit" /\ regs' = regs /\ mem' = mem
    BY <1>1, <1>4 DEF Push
  <2> QED
    BY <1>1, <1>3, <1>4, <2>1
       DEF FrameInv, FrameTypes, RestoreUndoesSave, ExitsOnlyOnBadList, NamedTwice
<1>5. CASE ~StoreError(i, b)
  <2>1. at' = "body" /\ regs' = Updated(i, regs0) /\ mem' = Stored(i, regs0, mem0)
    BY <1>1, <1>5 DEF Push
  <2>2. /\ regs' = [r \in GPR |-> regs'[r]]
        /\ \A r \in GPR \ {i.a} : regs'[r] = regs0[r]
    <3>1. regs0 = [r \in GPR |-> regs0[r]]
      BY <1>1 DEF FrameTypes
    <3> QED
      BY <1>2, <2>1, <3>1, UpdatedFacts
  <2>3. FrameTypes'
    BY <1>1, <2>1, <2>2 DEF FrameTypes
  <2>4. Framed'
    BY <1>1, <1>3, <1>5, <2>1, <2>2 DEF Framed, NamedTwice
  <2> QED
    BY <1>1, <1>3, <1>5, <2>1, <2>3, <2>4
       DEF FrameInv, RestoreUndoesSave, ExitsOnlyOnBadList, NamedTwice
<1> QED
  BY <1>4, <1>5

LEMMA BodyInv == FrameInv /\ Body => FrameInv'
<1> SUFFICES ASSUME FrameInv, Body
             PROVE  FrameInv'
  OBVIOUS
<1>1. /\ FrameTypes /\ Framed /\ at = "body" /\ at' = "restore"
      /\ save' = save /\ regs0' = regs0 /\ mem0' = mem0 /\ mem' = mem
      /\ regs' = [r \in GPR |-> IF r \in RegList(save) \ {save.a} THEN 0 ELSE regs[r]]
  BY DEF FrameInv, Body
<1>2. save.a \in GPR
  BY <1>1, SaveFacts
<1>3. FrameTypes'
  BY <1>1 DEF FrameTypes
<1>4. Framed'
  BY <1>1, <1>2 DEF Framed
<1> QED
  BY <1>1, <1>3, <1>4 DEF FrameInv, RestoreUndoesSave, ExitsOnlyOnBadList, NamedTwice

LEMMA PopStoppedInv == FrameInv /\ PopStopped => FrameInv'
<1> SUFFICES ASSUME FrameInv, PopStopped
             PROVE  FrameInv'
  OBVIOUS
<1>1. /\ FrameTypes /\ Framed /\ at = "restore" /\ at' = at
      /\ save' = save /\ regs0' = regs0 /\ mem0' = mem0 /\ mem' = mem
  BY DEF FrameInv, PopStopped
<1>2. PICK n : regs' = Loaded(Restore, regs, mem, n)
  BY DEF PopStopped
<1>3. FrameTypes'
  BY <1>1, <1>2, LoadedFacts DEF FrameTypes
<1>4. Framed'
  BY <1>1, <1>2, LoadedFacts DEF Framed
<1> QED
  BY <1>1, <1>3, <1>4 DEF FrameInv, RestoreUndoesSave, ExitsOnlyOnBadList, NamedTwice

LEMMA PopInv == FrameInv /\ Pop => FrameInv'
<1> SUFFICES ASSUME FrameInv, Pop
             PROVE  FrameInv'
  OBVIOUS
<1> DEFINE i == save
           b == regs0[i.a]
           c == regs[i.a]
           n == Cardinality(RegList(Restore))
           l == Loaded(Restore, regs, mem, n)
<1>1. /\ FrameTypes /\ Framed /\ at = "restore"
      /\ save' = save /\ regs0' = regs0 /\ mem0' = mem0 /\ mem' = mem
  BY DEF FrameInv, Pop
<1>2. /\ i \in LsmOps /\ i.a \in GPR /\ b \in 0 .. Space - 1
      /\ ~(i.modify /\ i.a \in RegList(i)) /\ i.modify \in BOOLEAN
  BY <1>1, SaveFacts DEF LsmOps
<1>3. /\ Restore \in LsmOps /\ Restore.a = i.a /\ Restore.modify = i.modify
      /\ RangeRegs(Restore) \cap EnabledRegs(Restore) = {}
  BY <1>1, <1>2, RestoreFields DEF Framed
<1>4. c = IF i.modify THEN (b + Moved(i)) % Space ELSE b
  BY <1>1, <1>2, UpdatedFacts DEF FrameTypes, Framed
<1>5. c \in 0 .. Space - 1
  BY <1>2, <1>4, SpaceFacts, Wrap, MovedFacts
<1>6. ~AddrError(Restore, c)
  BY <1>3, <1>5, ErrorIsNamedTwice
<1>7. at' = "done" /\ regs' = Updated(Restore, l)
  BY <1>6 DEF Pop
<1>8. l = [r \in GPR |-> l[r]] /\ l[i.a] = c /\ \A r \in GPR \ {i.a} : l[r] = regs0[r]
  <2>1. \A r \in RegList(i) : Slot(i, r) < n
    <3>1. RegList(Restore) = RegList(i)
      BY <1>2, RestoreList
    <3>2. n \in Int /\ \A r \in RegList(i) : Slot(i, r) \in 0 .. n - 1
      BY <1>2, <3>1, SlotFacts, ListFacts
    <3> QED
      BY <3>2
  <2> HIDE DEF n
  <2> QED
    BY <1>1, <2>1, LoadedFacts
<1> HIDE DEF l
<1>9. regs' = regs0
  <2>1. regs0 = [r \in GPR |-> regs0[r]]
    BY <1>1 DEF FrameTypes
  <2>2. /\ regs' = [r \in GPR |-> regs'[r]]
        /\ \A r \in GPR \ {i.a} : regs'[r] = regs0[r]
    BY <1>3, <1>7, <1>8, UpdatedFacts
  <2>3. regs'[i.a] = b
    <3>1. CASE i.modify
      <4>1. regs'[i.a] = (((b + Moved(i)) % Space) + Moved(Restore)) % Space
        <5>1. Updated(Restore, l)[Restore.a] = (l[Restore.a] + Moved(Restore)) % Space
          BY <1>3, <1>8, <3>1, UpdatedFacts
        <5> QED
          BY <1>3, <1>4, <1>7, <1>8, <3>1, <5>1
      <4> QED
        BY <1>2, <3>1, <4>1, RestoreMovesBack
    <3>2. CASE ~i.modify
      BY <1>3, <1>4, <1>7, <1>8, <3>2, UpdatedFacts
    <3> QED
      BY <3>1, <3>2
  <2> QED
    BY <1>2, <2>1, <2>2, <2>3
<1>10. FrameTypes'
  BY <1>1, <1>7, <1>9 DEF FrameTypes
<1> QED
  BY <1>1, <1>7, <1>9, <1>10 DEF FrameInv, RestoreUndoesSave, ExitsOnlyOnBadList, NamedTwice

LEMMA FrameInvHolds == FrameSpec => []FrameInv
<1>1. FrameInv /\ [FrameNext]_framevars => FrameInv'
  <2>1. FrameInv /\ UNCHANGED framevars => FrameInv'
    BY DEF framevars, FrameInv, FrameTypes, Framed, RestoreUndoesSave, ExitsOnlyOnBadList,
           NamedTwice
  <2> QED
    BY <2>1, PushInv, BodyInv, PopStoppedInv, PopInv DEF FrameNext
<1> QED
  BY <1>1, FrameInitInv, PTL DEF FrameSpec

----------------------------------------------------------------------------
(***************************************************************************)
(* A restore undoes its save, for every instruction, base, size of the     *)
(* address space and however often breakpoints end the load in the middle. *)
(***************************************************************************)
THEOREM FrameRestored == FrameSpec => []RestoreUndoesSave
BY FrameInvHolds, PTL DEF FrameInv

(***************************************************************************)
(* The simulator gives up exactly on a bad list of registers.              *)
(***************************************************************************)
THEOREM FrameExits == FrameSpec => []ExitsOnlyOnBadList
BY FrameInvHolds, PTL DEF FrameInv

\* The words of a push lie between the new stack pointer and the old one.
LEMMA WordsInFrame ==
    ASSUME NEW i \in LsmOps, i.down, i.after, NEW b \in 0 .. Space - 1, NEW r \in RegList(i),
           RangeRegs(i) \cap EnabledRegs(i) = {}
    PROVE  (WordAddr(i, b, r) - ((b + Moved(i)) % Space)) % Space
              < (b - ((b + Moved(i)) % Space)) % Space
<1> DEFINE t == TNReg(i)
           s == Slot(i, r)
           w == WordAddr(i, b, r)
           v == b - 4 * t
           m == v % Space
           x == v + 4 * s
<1>1. t \in 1 .. 32 /\ s \in 0 .. t - 1
  <2> DEFINE n == Cardinality(RegList(i))
  <2>1. n \in 0 .. 32 /\ t = n /\ s \in 0 .. n - 1
    BY ListFacts, SlotFacts
  <2> HIDE DEF n, t, s
  <2> QED
    BY <2>1
<1>2. Moved(i) = -4 * t
  BY MovedFacts
<1>3. w = x % Space
  <2>1. Offset(i) = -4 * t + 0
    BY DEF Offset
  <2>2. w = (b + (-4 * t + 0 + 4 * s)) % Space
    BY <2>1, WordFacts
  <2> HIDE DEF t, s
  <2> QED
    BY <1>1, <2>2
<1>4. b + Moved(i) = v
  BY <1>1, <1>2
<1> HIDE DEF t, s, w
<1>5. Space \in Nat /\ Space > 128 /\ v \in Int /\ x \in Int
  BY <1>1, SpaceFacts
<1>6. m = IF v < 0 THEN v + Space ELSE v
  <2>1. -Space <= v /\ v < Space
    BY <1>1, <1>5
  <2> HIDE DEF v
  <2> QED
    BY <1>5, <2>1, Wrap
<1>7. w = IF x < 0 THEN x + Space ELSE x
  <2>1. -Space <= x /\ x < Space
    BY <1>1, <1>5
  <2> HIDE DEF x
  <2> QED
    BY <1>3, <1>5, <2>1, Wrap
<1> DEFINE y == w - m
           z == b - m
<1>8. y \in Int /\ z \in Int /\ (y = 4 * s \/ y = 4 * s - Space) /\ (z = 4 * t \/ z = 4 * t - Space)
  <2> HIDE DEF m
  <2> QED
    BY <1>1, <1>5, <1>6, <1>7
<1> HIDE DEF y, z
<1>9. y % Space = 4 * s /\ z % Space = 4 * t
  <2>1. 4 * s < Space /\ 4 * t < Space
    BY <1>1, <1>5
  <2>2. y % Space = 4 * s
    BY <1>1, <1>5, <1>8, <2>1, Wrap
  <2>3. z % Space = 4 * t
    BY <1>1, <1>5, <1>8, <2>1, Wrap
  <2> QED
    BY <1>5, <2>2, <2>3
<1> QED
  BY <1>1, <1>4, <1>5, <1>9 DEF y, z, m, w, t

(***************************************************************************)
(* A push changes memory only inside its own frame.                        *)
(***************************************************************************)
THEOREM FrameConfined == FrameSpec => []FrameOnly
<1>1. FrameInv => FrameOnly
  <2> SUFFICES ASSUME FrameInv, at \in {"body", "restore"}, save.down, save.after, save.modify,
                      NEW w \in WordAddrs, mem[w] # mem0[w]
               PROVE  (w - regs[save.a]) % Space < (regs0[save.a] - regs[save.a]) % Space
    BY DEF FrameOnly
  <2> DEFINE i == save
             b == regs0[i.a]
  <2>1. /\ FrameTypes /\ Framed /\ i \in LsmOps /\ i.a \in GPR
        /\ b \in Bases /\ b \in 0 .. Space - 1
    BY SaveFacts DEF FrameInv, FrameTypes
  <2>2. PICK r \in RegList(i) : WordAddr(i, b, r) = w
    BY <2>1, StoredFacts DEF FrameTypes, Framed
  <2>3. regs[i.a] = (b + Moved(i)) % Space
    BY <2>1, UpdatedFacts DEF FrameTypes, Framed
  <2> QED
    BY <2>1, <2>2, <2>3, WordsInFrame DEF Framed
<1> QED
  BY <1>1, FrameInvHolds, PTL

----------------------------------------------------------------------------
(* The decoder (DecodeInstr).  First what the operators on sequences and on *)
(* bits do: a name and its operands put together, and signs extended twice. *)

\* Two sequences that together have the entries of a third are that one.
LEMMA DcConcat ==
    ASSUME NEW S, NEW s \in Seq(S), NEW t \in Seq(S), NEW u \in Seq(S),
           Len(u) = Len(s) + Len(t), \A i \in 1 .. Len(s) : u[i] = s[i],
           \A i \in 1 .. Len(t) : u[Len(s) + i] = t[i]
    PROVE  s \o t = u
<1>1. /\ s \o t \in Seq(S) /\ Len(s \o t) = Len(s) + Len(t)
      /\ \A i \in 1 .. Len(s) + Len(t) :
            (s \o t)[i] = IF i <= Len(s) THEN s[i] ELSE t[i - Len(s)]
  BY ConcatProperties, Zenon
<1>2. Len(s) \in Nat /\ Len(t) \in Nat
  OBVIOUS
<1>3. ASSUME NEW i \in 1 .. Len(s \o t)
      PROVE  (s \o t)[i] = u[i]
  <2>1. CASE i <= Len(s)
    BY <1>1, <1>2, <2>1
  <2>2. CASE i > Len(s)
    <3>1. i - Len(s) \in 1 .. Len(t) /\ Len(s) + (i - Len(s)) = i
      BY <1>1, <1>2, <2>2
    <3> QED
      BY <1>1, <1>2, <2>2, <3>1
  <2> QED
    BY <1>1, <1>2, <2>1, <2>2
<1> QED
  BY <1>1, <1>3, SeqEqual

\* Names and operands put together.
LEMMA DcTuples ==
    /\ \A n : <<n>> \o <<>> = <<n>>
    /\ \A n, a : <<n>> \o <<a>> = <<n, a>>
    /\ \A n, a, b : <<n>> \o <<a, b>> = <<n, a, b>>
    /\ \A n, a, b, c : <<n>> \o <<a, b, c>> = <<n, a, b, c>>
    /\ \A n, a, b, c, d : <<n>> \o <<a, b, c, d>> = <<n, a, b, c, d>>
    /\ \A n, m, a : <<n, m>> \o <<a>> = <<n, m, a>>
    /\ \A n, m, a, b : <<n, m>> \o <<a, b>> = <<n, m, a, b>>
<1>1. ASSUME NEW n
      PROVE  <<n>> \o <<>> = <<n>>
  <2>1. <<n>> \in Seq({n})
    OBVIOUS
  <2> QED
    BY <2>1, ConcatEmptySeq
<1>2. ASSUME NEW n, NEW a
      PROVE  <<n>> \o <<a>> = <<n, a>>
  <2> DEFINE S == {n, a}
             s == <<n>>
             t == <<a>>
             u == <<n, a>>
  <2>1. /\ s \in Seq(S) /\ t \in Seq(S) /\ u \in Seq(S)
        /\ Len(s) = 1 /\ Len(t) = 1 /\ Len(u) = 2
    OBVIOUS
  <2>2. /\ \A i \in 1 .. 1 : i = 1
        /\ \A i \in 1 .. 1 : i = 1
    OBVIOUS
  <2>3. /\ u[1] = s[1]
        /\ u[1 + 1] = t[1]
    OBVIOUS
  <2> HIDE DEF S, s, t, u
  <2>4. Len(u) = Len(s) + Len(t) /\ \A i \in 1 .. Len(s) : u[i] = s[i]
    BY <2>1, <2>2, <2>3
  <2>5. \A i \in 1 .. Len(t) : u[Len(s) + i] = t[i]
    BY <2>1, <2>2, <2>3
  <2>6. s \o t = u
    BY <2>1, <2>4, <2>5, DcConcat, Zenon
  <2> QED
    BY <2>6 DEF s, t, u
<1>3. ASSUME NEW n, NEW a, NEW b
      PROVE  <<n>> \o <<a, b>> = <<n, a, b>>
  <2> DEFINE S == {n, a, b}
             s == <<n>>
             t == <<a, b>>
             u == <<n, a, b>>
  <2>1. /\ s \in Seq(S) /\ t \in Seq(S) /\ u \in Seq(S)
        /\ Len(s) = 1 /\ Len(t) = 2 /\ Len(u) = 3
    OBVIOUS
  <2>2. /\ \A i \in 1 .. 1 : i = 1
        /\ \A i \in 1 .. 2 : i = 1 \/ i = 2
    OBVIOUS
  <2>3. /\ u[1] = s[1]
        /\ u[1 + 1] = t[1] /\ u[1 + 2] = t[2]
    OBVIOUS
  <2> HIDE DEF S, s, t, u
  <2>4. Len(u) = Len(s) + Len(t) /\ \A i \in 1 .. Len(s) : u[i] = s[i]
    BY <2>1, <2>2, <2>3
  <2>5. \A i \in 1 .. Len(t) : u[Len(s) + i] = t[i]
    BY <2>1, <2>2, <2>3
  <2>6. s \o t = u
    BY <2>1, <2>4, <2>5, DcConcat, Zenon
  <2> QED
    BY <2>6 DEF s, t, u
<1>4. ASSUME NEW n, NEW a, NEW b, NEW c
      PROVE  <<n>> \o <<a, b, c>> = <<n, a, b, c>>
  <2> DEFINE S == {n, a, b, c}
             s == <<n>>
             t == <<a, b, c>>
             u == <<n, a, b, c>>
  <2>1. /\ s \in Seq(S) /\ t \in Seq(S) /\ u \in Seq(S)
        /\ Len(s) = 1 /\ Len(t) = 3 /\ Len(u) = 4
    OBVIOUS
  <2>2. /\ \A i \in 1 .. 1 : i = 1
        /\ \A i \in 1 .. 3 : i = 1 \/ i = 2 \/ i = 3
    OBVIOUS
  <2>3. /\ u[1] = s[1]
        /\ u[1 + 1] = t[1] /\ u[1 + 2] = t[2] /\ u[1 + 3] = t[3]
    OBVIOUS
  <2> HIDE DEF S, s, t, u
  <2>4. Len(u) = Len(s) + Len(t) /\ \A i \in 1 .. Len(s) : u[i] = s[i]
    BY <2>1, <2>2, <2>3
  <2>5. \A i \in 1 .. Len(t) : u[Len(s) + i] = t[i]
    BY <2>1, <2>2, <2>3
  <2>6. s \o t = u
    BY <2>1, <2>4, <2>5, DcConcat, Zenon
  <2> QED
    BY <2>6 DEF s, t, u
<1>5. ASSUME NEW n, NEW a, NEW b, NEW c, NEW d
      PROVE  <<n>> \o <<a, b, c, d>> = <<n, a, b, c, d>>
  <2> DEFINE S == {n, a, b, c, d}
             s == <<n>>
             t == <<a, b, c, d>>
             u == <<n, a, b, c, d>>
  <2>1. /\ s \in Seq(S) /\ t \in Seq(S) /\ u \in Seq(S)
        /\ Len(s) = 1 /\ Len(t) = 4 /\ Len(u) = 5
    OBVIOUS
  <2>2. /\ \A i \in 1 .. 1 : i = 1
        /\ \A i \in 1 .. 4 : i = 1 \/ i = 2 \/ i = 3 \/ i = 4
    OBVIOUS
  <2>3. /\ u[1] = s[1]
        /\ u[1 + 1] = t[1] /\ u[1 + 2] = t[2] /\ u[1 + 3] = t[3] /\ u[1 + 4] = t[4]
    OBVIOUS
  <2> HIDE DEF S, s, t, u
  <2>4. Len(u) = Len(s) + Len(t) /\ \A i \in 1 .. Len(s) : u[i] = s[i]
    BY <2>1, <2>2, <2>3
  <2>5. \A i \in 1 .. Len(t) : u[Len(s) + i] = t[i]
    BY <2>1, <2>2, <2>3
  <2>6. s \o t = u
    BY <2>1, <2>4, <2>5, DcConcat, Zenon
  <2> QED
    BY <2>6 DEF s, t, u
<1>6. ASSUME NEW n, NEW m, NEW a
      PROVE  <<n, m>> \o <<a>> = <<n, m, a>>
  <2> DEFINE S == {n, m, a}
             s == <<n, m>>
             t == <<a>>
             u == <<n, m, a>>
  <2>1. /\ s \in Seq(S) /\ t \in Seq(S) /\ u \in Seq(S)
        /\ Len(s) = 2 /\ Len(t) = 1 /\ Len(u) = 3
    OBVIOUS
  <2>2. /\ \A i \in 1 .. 2 : i = 1 \/ i = 2
        /\ \A i \in 1 .. 1 : i = 1
    OBVIOUS
  <2>3. /\ u[1] = s[1] /\ u[2] = s[2]
        /\ u[2 + 1] = t[1]
    OBVIOUS
  <2> HIDE DEF S, s, t, u
  <2>4. Len(u) = Len(s) + Len(t) /\ \A i \in 1 .. Len(s) : u[i] = s[i]
    BY <2>1, <2>2, <2>3
  <2>5. \A i \in 1 .. Len(t) : u[Len(s) + i] = t[i]
    BY <2>1, <2>2, <2>3
  <2>6. s \o t = u
    BY <2>1, <2>4, <2>5, DcConcat, Zenon
  <2> QED
    BY <2>6 DEF s, t, u
<1>7. ASSUME NEW n, NEW m, NEW a, NEW b
      PROVE  <<n, m>> \o <<a, b>> = <<n, m, a, b>>
  <2> DEFINE S == {n, m, a, b}
             s == <<n, m>>
             t == <<a, b>>
             u == <<n, m, a, b>>
  <2>1. /\ s \in Seq(S) /\ t \in Seq(S) /\ u \in Seq(S)
        /\ Len(s) = 2 /\ Len(t) = 2 /\ Len(u) = 4
    OBVIOUS
  <2>2. /\ \A i \in 1 .. 2 : i = 1 \/ i = 2
        /\ \A i \in 1 .. 2 : i = 1 \/ i = 2
    OBVIOUS
  <2>3. /\ u[1] = s[1] /\ u[2] = s[2]
        /\ u[2 + 1] = t[1] /\ u[2 + 2] = t[2]
    OBVIOUS
  <2> HIDE DEF S, s, t, u
  <2>4. Len(u) = Len(s) + Len(t) /\ \A i \in 1 .. Len(s) : u[i] = s[i]
    BY <2>1, <2>2, <2>3
  <2>5. \A i \in 1 .. Len(t) : u[Len(s) + i] = t[i]
    BY <2>1, <2>2, <2>3
  <2>6. s \o t = u
    BY <2>1, <2>4, <2>5, DcConcat, Zenon
  <2> QED
    BY <2>6 DEF s, t, u
<1> QED
  BY <1>1, <1>2, <1>3, <1>4, <1>5, <1>6, <1>7

\* The sign extensions of translate_to_32 are undone by those of simulate().
LEMMA DcExtends ==
    /\ \A v \in 0 .. 255 :
          /\ SignExtend(SignExtend(v, 8, 14) * 2, 15, 32) = SignExtend(v * 2, 9, 32)
          /\ SignExtend(SignExtend(v, 8, 16) * 2, 17, 32) = SignExtend(v * 2, 9, 32)
          /\ SignExtend(SignExtend(v, 8, 20) * 2, 17, 32) = SignExtend(v * 2, 9, 32)
          /\ SignExtend(SignExtend(v, 8, 24) * 2, 25, 32) = SignExtend(v * 2, 9, 32)
    /\ \A v \in 0 .. 31 :
          /\ SignExtend(SignExtend(v, 5, 20), 20, 32) = SignExtend(v, 5, 32)
          /\ SignExtend(v, 15, 32) = v /\ SignExtend(-v, 15, 32) = -v
          /\ SignExtend(v * 2, 16, 32) = v * 2
    /\ \A v \in 0 .. 127 : SignExtend(v * 4, 17, 32) = v * 4
    /\ \A v \in 0 .. 1023 :
          SignExtend(SignExtend(v, 10, 15), 15, 32) = SignExtend(v, 10, 32)
<1>1. ASSUME NEW v \in 0 .. 255
      PROVE  SignExtend(SignExtend(v, 8, 14) * 2, 15, 32) = SignExtend(v * 2, 9, 32)
  BY <1>1 DEF SignExtend, Bits
<1>2. ASSUME NEW v \in 0 .. 255
      PROVE  SignExtend(SignExtend(v, 8, 16) * 2, 17, 32) = SignExtend(v * 2, 9, 32)
  BY <1>2 DEF SignExtend, Bits
<1>3. ASSUME NEW v \in 0 .. 255
      PROVE  SignExtend(SignExtend(v, 8, 20) * 2, 17, 32) = SignExtend(v * 2, 9, 32)
  BY <1>3 DEF SignExtend, Bits
<1>4. ASSUME NEW v \in 0 .. 255
      PROVE  SignExtend(SignExtend(v, 8, 24) * 2, 25, 32) = SignExtend(v * 2, 9, 32)
  BY <1>4 DEF SignExtend, Bits
<1>5. ASSUME NEW v \in 0 .. 31
      PROVE  /\ SignExtend(SignExtend(v, 5, 20), 20, 32) = SignExtend(v, 5, 32)
             /\ SignExtend(v, 15, 32) = v /\ SignExtend(-v, 15, 32) = -v
             /\ SignExtend(v * 2, 16, 32) = v * 2
  BY <1>5 DEF SignExtend, Bits
<1>6. ASSUME NEW v \in 0 .. 127
      PROVE  SignExtend(v * 4, 17, 32) = v * 4
  BY <1>6 DEF SignExtend, Bits
<1>7. ASSUME NEW v \in 0 .. 1023
      PROVE  SignExtend(SignExtend(v, 10, 15), 15, 32) = SignExtend(v, 10, 32)
  BY <1>7 DEF SignExtend, Bits
<1> QED
  BY <1>1, <1>2, <1>3, <1>4, <1>5, <1>6, <1>7

----------------------------------------------------------------------------
(* 32-bit words: the fields decode_32 fills in, then the operation and the *)
(* operands of disassm32 against those of simulate(), opcode by opcode.    *)

\* The fields of instr_t.
DcFields == InstrFields \cup {"opc", "mnemonic"}

\* The rows of the 32-bit tables.
LEMMA DcRows ==
    /\ Opc32 = {"ALU_1", "ADDI", "ANDI", "BR1", "BR2", "MISC", "ALU_2", "J", "JREG", "MEM",
                "LBI", "LBI_bi", "LBSI", "LBSI_bi", "LHI", "LHI_bi", "LHSI", "LHSI_bi", "LSMW",
                "LWI", "LWI_bi", "MOVI", "ORI", "SBI", "SBI_bi", "SETHI", "SHI", "SHI_bi",
                "SLTI", "SLTSI", "SUBRI", "SWI", "SWI_bi", "XORI"}
    /\ HasSub = {"ALU_1", "ALU_2", "BR1", "BR2", "MISC", "J", "JREG", "MEM", "LSMW"}
<1>1. HasSub = {"ALU_1", "ALU_2", "BR1", "BR2", "MISC", "J", "JREG", "MEM", "LSMW"}
  BY SMTT(60) DEF opc32_sub_list, HasSub
<1> QED
  BY <1>1, SMTT(60) DEF opc32_list, Opc32

LEMMA DcTypes ==
    ASSUME NEW o \in Opc32
    PROVE  \/ opc32_list[o][2] \in {"T0", "T1", "T2", "T3", "T4"}
           \/ o \in {"ALU_2", "LSMW"}
BY SMTT(60) DEF opc32_list, Opc32

\* decode_32 fills in the fields of instr_t and no others.
LEMMA DcFilled ==
    ASSUME NEW w, NEW o \in Opc32
    PROVE  LET i == FillArgs32(w, o)
           IN DOMAIN i = DcFields /\ i.opc = o
<1> DEFINE z == [Cleared EXCEPT !.opc = o, !.mnemonic = o, !.len = 4]
           r == [z EXCEPT !.rt = Bits(w, 24, 20), !.ra = Bits(w, 19, 15), !.rb = Bits(w, 14, 10)]
<1>1. DOMAIN z = DcFields /\ z.opc = o
  BY DEF Cleared, DcFields, InstrFields
<1>2. DOMAIN r = DcFields /\ r.opc = o
  <2> HIDE DEF z
  <2> QED
    BY <1>1 DEF DcFields, InstrFields
<1> HIDE DEF z, r
<1>0. opc32_list["ALU_2"][2] = "T5" /\ opc32_list["LSMW"][2] = "T5"
  BY DEF opc32_list
<1>3. CASE opc32_list[o][2] = "T0"
  <2>1. FillArgs32(w, o) = [z EXCEPT !.sub = Bits(w, 24, 24), !.imm1_24 = Bits(w, 23, 0)]
    BY <1>0, <1>3 DEF FillArgs32, z
  <2> QED
    BY <1>1, <2>1
<1>4. CASE opc32_list[o][2] = "T1"
  <2>1. FillArgs32(w, o) = [z EXCEPT !.rt = Bits(w, 24, 20), !.imm1_20 = Bits(w, 19, 0),
                                     !.imm1_16 = Bits(w, 15, 0), !.sub = Bits(w, 19, 16)]
    BY <1>0, <1>4 DEF FillArgs32, z
  <2> QED
    BY <1>1, <2>1
<1>5. CASE opc32_list[o][2] = "T2"
  <2>1. FillArgs32(w, o) = [z EXCEPT !.rt = Bits(w, 24, 20), !.ra = Bits(w, 19, 15),
                                     !.sub = Bits(w, 14, 14), !.imm1_15 = Bits(w, 14, 0),
                                     !.imm1_14 = Bits(w, 13, 0)]
    BY <1>0, <1>5 DEF FillArgs32, z
  <2> QED
    BY <1>1, <2>1
<1>6. CASE opc32_list[o][2] = "T3"
  <2>1. FillArgs32(w, o) = [r EXCEPT !.imm1_5 = Bits(w, 14, 10), !.imm1_2 = Bits(w, 9, 8),
                                     !.sub = Bits(w, 7, 0)]
    BY <1>0, <1>6 DEF FillArgs32, z, r
  <2> QED
    BY <1>2, <2>1
<1>7. CASE opc32_list[o][2] = "T4"
  <2>1. FillArgs32(w, o) =
          [r EXCEPT !.rd = Bits(w, 9, 5), !.rs = Bits(w, 9, 5),
                    !.imm1_5 = Bits(w, 14, 10), !.imm2_5 = Bits(w, 9, 5),
                    !.sub = Bits(w, 4, 0), !.sridx = Bits(w, 19, 10),
                    !.en = Bits(w, 20, 20),
                    !.ra = IF o = "MISC" THEN Bits(w, 24, 20)
                           ELSE Bits(w, 19, 15)]
    BY <1>0, <1>7 DEF FillArgs32, z, r
  <2> QED
    BY <1>2, <2>1
<1>8. CASE o = "ALU_2"
  <2>1. opc32_list[o][2] = "T5"
    BY <1>8 DEF opc32_list
  <2>2. FillArgs32(w, o) = [r EXCEPT !.dt = 0, !.sub = Bits(w, 9, 0), !.imm1_5 = Bits(w, 14, 10),
                                     !.usr = Bits(w, 19, 15), !.group = Bits(w, 14, 10)]
    BY <1>8, <2>1 DEF FillArgs32, z, r
  <2> QED
    BY <1>2, <2>2
<1>9. CASE o = "LSMW"
  <2>1. opc32_list[o][2] = "T5"
    BY <1>9 DEF opc32_list
  <2>2. FillArgs32(w, o) = [z EXCEPT !.rb = Bits(w, 24, 20), !.ra = Bits(w, 19, 15),
                                    !.re = Bits(w, 14, 10), !.enable = Bits(w, 9, 6),
                                    !.sub = Bits(w, 5, 0)]
    BY <1>9, <2>1 DEF FillArgs32, z
  <2> QED
    BY <1>1, <2>2
<1> QED
  BY DcTypes, <1>3, <1>4, <1>5, <1>6, <1>7, <1>8, <1>9

LEMMA DcSlti ==
    ASSUME NEW w \in Nat
    PROVE  FillArgs32(w, "SLTI").imm1_15 \in Nat
<1>1. opc32_list["SLTI"][2] = "T2"
  BY DEF opc32_list
<1> DEFINE z == [Cleared EXCEPT !.opc = "SLTI", !.mnemonic = "SLTI", !.len = 4]
<1>2. DOMAIN z = DcFields
  BY DEF Cleared, DcFields
<1>3. Bits(w, 14, 0) \in Nat
  BY DEF Bits
<1> HIDE DEF z
<1>4. FillArgs32(w, "SLTI") =
        [z EXCEPT !.rt = Bits(w, 24, 20), !.ra = Bits(w, 19, 15), !.sub = Bits(w, 14, 14),
                  !.imm1_15 = Bits(w, 14, 0), !.imm1_14 = Bits(w, 13, 0)]
  BY <1>1 DEF FillArgs32, z
<1> QED
  BY <1>2, <1>3, <1>4 DEF DcFields, InstrFields

Narrow == DOMAIN SameOperands \cup DOMAIN SourceIsTarget \cup DOMAIN ImpliedTarget
            \cup DOMAIN ImpliedLast \cup DOMAIN ImpliedBase \cup {"SUBI333", "SUBI45", "ADDI10S"}

\* Mnemonics whose text is not itself what is executed.
Special == Narrow \cup {"MULR64", "MULSR64", "MFUSR", "MTUSR"}

\* A mnemonic that the manual does not translate stands for itself.
LEMMA DcMeaning ==
    ASSUME NEW t, t[1] \notin Narrow, t[1] \notin {"MULR64", "MULSR64"}
    PROVE  Meaning(t) = t
BY DEF Meaning, Narrow

\* Nameless, and what ShownIsExecuted says, of a text t and an operation op.
DcNameless(t) == /\ t[1] \in {"MFUSR", "MTUSR"}
                 /\ t[3] \in {"<RESERVED>", "<disassm: unimpl>"}

DcAsShown(op, t) ==
    \/ op = <<"unimplemented">>
    \/ IF DcNameless(t) THEN op \in {<<"error">>, <<"MFUSR", t[2], "PC">>}
       ELSE op = Meaning(t)

LEMMA DcItself ==
    ASSUME NEW op, NEW t, op = <<"unimplemented">> \/ (op = t /\ t[1] \notin Special)
    PROVE  DcAsShown(op, t)
<1>1. CASE op = <<"unimplemented">>
  BY <1>1, Zenon DEF DcAsShown
<1>2. CASE op = t /\ t[1] \notin Special
  <2>1. t[1] \notin Narrow /\ t[1] \notin {"MULR64", "MULSR64"} /\ ~DcNameless(t)
    BY <1>2 DEF Special, DcNameless
  <2>2. Meaning(t) = t
    BY <2>1, DcMeaning
  <2> QED
    BY <1>2, <2>1, <2>2, Zenon DEF DcAsShown
<1> QED
  BY <1>1, <1>2

LEMMA DcNarrow ==
    Narrow = {"ADD333", "SUB333", "ADDI333", "SLLI333", "LBI333", "SBI333", "LHI333", "SHI333",
              "LWI333", "SWI333", "LWI333_bi", "SWI333_bi", "SEB33", "SEH33", "ZEH33", "BEQZ38",
              "BNEZ38", "MOVI55", "J8", "JR5", "RET5", "ADD45", "SUB45", "ADDI45", "SRAI45",
              "SRLI45", "SLT45", "SLTS45", "SLTI45", "SLTSI45", "BEQZS8", "BNEZS8", "JRAL5",
              "MOV55", "LWI450", "SWI450", "ZEB33", "XLSB33", "LWI37", "SWI37", "LWI37SP",
              "SWI37SP", "BEQS38", "BNES38", "SUBI333", "SUBI45", "ADDI10S"}
<1>1. DOMAIN SameOperands =
             {"ADD333", "SUB333", "ADDI333", "SLLI333", "LBI333", "SBI333", "LHI333", "SHI333",
              "LWI333", "SWI333", "LWI333_bi", "SWI333_bi", "SEB33", "SEH33", "ZEH33", "BEQZ38",
              "BNEZ38", "MOVI55", "J8", "JR5", "RET5"}
  BY DEF SameOperands
<1>2. DOMAIN SourceIsTarget = {"ADD45", "SUB45", "ADDI45", "SRAI45", "SRLI45"}
  BY DEF SourceIsTarget
<1>3. DOMAIN ImpliedTarget = {"SLT45", "SLTS45", "SLTI45", "SLTSI45", "BEQZS8", "BNEZS8", "JRAL5"}
  BY DEF ImpliedTarget
<1>4. DOMAIN ImpliedLast = {"MOV55", "LWI450", "SWI450", "ZEB33", "XLSB33"}
  BY DEF ImpliedLast
<1>5. DOMAIN ImpliedBase = {"LWI37", "SWI37", "LWI37SP", "SWI37SP", "BEQS38", "BNES38"}
  BY DEF ImpliedBase
<1> HIDE DEF Narrow
<1> QED
  BY <1>1, <1>2, <1>3, <1>4, <1>5, Zenon DEF Narrow

\* No other 32-bit mnemonic is one of them.
LEMMA DcSimulated ==
    /\ Simulated["ALU_1"] \cap Special = {}
    /\ Simulated["ALU_2"] \cap Special = {"MULR64", "MULSR64", "MFUSR", "MTUSR"}
    /\ Simulated["BR1"] \cap Special = {} /\ Simulated["BR2"] \cap Special = {}
    /\ Simulated["J"] \cap Special = {} /\ Simulated["JREG"] \cap Special = {}
    /\ Simulated["MISC"] \cap Special = {} /\ Simulated["MEM"] \cap Special = {}
    /\ Simulated["LSMW"] \cap Special = {} /\ "SETGIE" \notin Special
    /\ Opc32 \cap Special = {}
    /\ {"MULR64", "MULSR64", "MFUSR", "MTUSR"} \cap Narrow = {}
BY DcNarrow, DcRows, SMTT(60) DEF Simulated, Special

\* disassm32 sees the same fields, with the mnemonic of the sub-opcode.
LEMMA DcFields32 ==
    ASSUME NEW i, NEW n, DOMAIN i = DcFields
    PROVE  LET j == [i EXCEPT !.mnemonic = n]
           IN /\ DOMAIN j = DcFields /\ j.mnemonic = n /\ j.opc = i.opc /\ j.sub = i.sub
              /\ j.rt = i.rt /\ j.ra = i.ra /\ j.rb = i.rb /\ j.rs = i.rs /\ j.re = i.re /\ j.dt = i.dt
              /\ j.enable = i.enable /\ j.usr = i.usr /\ j.group = i.group /\ j.sridx = i.sridx
              /\ j.en = i.en /\ j.imm1_24 = i.imm1_24 /\ j.imm1_20 = i.imm1_20
              /\ j.imm1_16 = i.imm1_16 /\ j.imm1_15 = i.imm1_15 /\ j.imm1_14 = i.imm1_14
              /\ j.imm1_5 = i.imm1_5 /\ j.imm1_2 = i.imm1_2 /\ j.imm2_5 = i.imm2_5
BY DEF DcFields, InstrFields

\* Opcodes whose operands are those of OperandRegister.
LEMMA DcOperates ==
    ASSUME NEW i, NEW pc, NEW n, i.opc \in HasSub, i.opc \notin NotSimulated \cup {"exit"},
           Names(i.opc, i.sub) # {}, n = CHOOSE s \in Names(i.opc, i.sub) : TRUE,
           n \in Simulated[i.opc], i.opc \notin {"BR1", "BR2", "J", "JREG"},
           n \notin {"MFUSR", "MTUSR"}, n = "MTSR" => i.imm2_5 = 0
    PROVE  ExecutedOp(i, pc) = <<n>> \o OperandRegister(i, n)
<1>1. ~(n = "MTSR" /\ i.imm2_5 = 2) /\ ~(n = "MTSR" /\ i.imm2_5 # 0)
  OBVIOUS
<1> QED
  BY <1>1, Zenon DEF ExecutedOp

\* Opcodes without sub-opcodes: SLTI only where the constant is not negative.
LEMMA DcImmediate ==
    ASSUME NEW i, NEW pc, i.opc \in Opc32 \ HasSub, DOMAIN i = DcFields,
           i.opc = "SLTI" => i.imm1_15 \in Nat /\ i.imm1_15 < 2^14
    PROVE  LET t == Text32([i EXCEPT !.mnemonic = i.opc], pc)
           IN \/ ExecutedOp(i, pc) = <<"unimplemented">>
              \/ ExecutedOp(i, pc) = t /\ t[1] \notin Special
<1> DEFINE o == i.opc
<1>1. PICK j : j = [i EXCEPT !.mnemonic = o]
  OBVIOUS
<1>2. /\ j.mnemonic = o /\ j.opc = o /\ j.rt = i.rt /\ j.ra = i.ra
      /\ j.imm1_20 = i.imm1_20 /\ j.imm1_15 = i.imm1_15
  BY <1>1, DcFields32
<1>3. o \in {"ADDI", "ANDI", "LBI", "LBI_bi", "LBSI", "LBSI_bi", "LHI", "LHI_bi", "LHSI",
             "LHSI_bi", "LWI", "LWI_bi", "MOVI", "ORI", "SBI", "SBI_bi", "SETHI", "SHI",
             "SHI_bi", "SLTI", "SLTSI", "SUBRI", "SWI", "SWI_bi", "XORI"}
  BY DcRows
<1>4. Text32(j, pc) = TextImmediate(j, pc)
  BY <1>2, <1>3 DEF Text32
<1>5. CASE o = "LHSI_bi"
  BY <1>1, <1>5 DEF ExecutedOp, NotSimulated
<1>6. ASSUME o # "LHSI_bi"
      PROVE  ExecutedOp(i, pc) = <<o>> \o OperandImmediate(i)
  BY <1>3, <1>6, DcRows DEF ExecutedOp, NotSimulated
<1>7. o \notin Special
  BY DcSimulated
<1>8. ASSUME NEW u, o # "LHSI_bi", TextImmediate(j, pc) = u, <<o>> \o OperandImmediate(i) = u, u[1] = o
      PROVE  ExecutedOp(i, pc) = Text32(j, pc) /\ Text32(j, pc)[1] \notin Special
  BY <1>4, <1>6, <1>7, <1>8
<1>9. CASE o = "SETHI"
  <2>1. TextImmediate(j, pc) = <<o, i.rt, i.imm1_20>>
    BY <1>2, <1>9 DEF TextImmediate
  <2>2. OperandImmediate(i) = <<i.rt, i.imm1_20>>
    BY <1>9 DEF OperandImmediate
  <2> QED
    BY <1>1, <1>8, <1>9, <2>1, <2>2, DcTuples
<1>10. CASE o = "MOVI"
  <2>1. TextImmediate(j, pc) = <<o, i.rt, SignExtend(i.imm1_20, 20, 32)>>
    BY <1>2, <1>10 DEF TextImmediate
  <2>2. OperandImmediate(i) = <<i.rt, SignExtend(i.imm1_20, 20, 32)>>
    BY <1>10 DEF OperandImmediate
  <2> QED
    BY <1>1, <1>8, <1>10, <2>1, <2>2, DcTuples
<1>11. ASSUME NEW v, o # "LHSI_bi", TextImmediate(j, pc) = <<o, i.rt, i.ra, v>>,
              OperandImmediate(i) = <<i.rt, i.ra, v>>
       PROVE  ExecutedOp(i, pc) = Text32(j, pc) /\ Text32(j, pc)[1] \notin Special
  BY <1>8, <1>11, DcTuples
<1>12. CASE o \in {"ANDI", "ORI", "XORI"}
  <2>1. TextImmediate(j, pc) = <<o, i.rt, i.ra, i.imm1_15>>
    BY <1>2, <1>12 DEF TextImmediate
  <2>2. OperandImmediate(i) = <<i.rt, i.ra, i.imm1_15>>
    BY <1>12 DEF OperandImmediate
  <2> QED
    BY <1>1, <1>11, <1>12, <2>1, <2>2
<1>13. CASE o = "SLTI"
  <2>1. TextImmediate(j, pc) = <<o, i.rt, i.ra, SignExtend(i.imm1_15, 15, 32)>>
    BY <1>2, <1>13 DEF TextImmediate
  <2>2. OperandImmediate(i) = <<i.rt, i.ra, i.imm1_15>>
    BY <1>13 DEF OperandImmediate
  <2>3. i.imm1_15 \in Nat /\ i.imm1_15 < 2^14
    BY <1>13
  <2>4. SignExtend(i.imm1_15, 15, 32) = i.imm1_15
    BY <2>3 DEF SignExtend, Bits
  <2> QED
    BY <1>1, <1>11, <1>13, <2>1, <2>2, <2>4
<1>14. CASE o \in {"LWI", "SWI", "LWI_bi", "SWI_bi"}
  <2>1. TextImmediate(j, pc) = <<o, i.rt, i.ra, SignExtend(i.imm1_15 * 4, 17, 32)>>
    BY <1>2, <1>14 DEF TextImmediate
  <2>2. OperandImmediate(i) = <<i.rt, i.ra, SignExtend(i.imm1_15 * 4, 17, 32)>>
    BY <1>14 DEF OperandImmediate
  <2> QED
    BY <1>1, <1>11, <1>14, <2>1, <2>2
<1>15. CASE o \in {"LHI", "LHSI", "SHI", "LHI_bi", "SHI_bi"}
  <2>1. TextImmediate(j, pc) = <<o, i.rt, i.ra, SignExtend(i.imm1_15 * 2, 16, 32)>>
    BY <1>2, <1>15 DEF TextImmediate
  <2>2. OperandImmediate(i) = <<i.rt, i.ra, SignExtend(i.imm1_15 * 2, 16, 32)>>
    BY <1>15 DEF OperandImmediate
  <2> QED
    BY <1>1, <1>11, <1>15, <2>1, <2>2
<1>16. CASE o \in {"ADDI", "SUBRI", "SLTSI", "LBI", "LBSI", "SBI", "LBI_bi", "LBSI_bi", "SBI_bi"}
  <2>1. TextImmediate(j, pc) = <<o, i.rt, i.ra, SignExtend(i.imm1_15, 15, 32)>>
    BY <1>2, <1>16 DEF TextImmediate
  <2>2. OperandImmediate(i) = <<i.rt, i.ra, SignExtend(i.imm1_15, 15, 32)>>
    BY <1>16 DEF OperandImmediate
  <2> QED
    BY <1>1, <1>11, <1>16, <2>1, <2>2
<1> QED
  BY <1>3, <1>5, <1>9, <1>10, <1>12, <1>13, <1>14, <1>15, <1>16

\* The fields of ALU_2 that name user registers and pairs.
LEMMA DcAlu2 ==
    ASSUME NEW w \in Nat
    PROVE  LET i == FillArgs32(w, "ALU_2") IN i.rt \in 0 .. 31 /\ i.usr \in 0 .. 31
<1>1. opc32_list["ALU_2"][2] = "T5"
  BY DEF opc32_list
<1> DEFINE z == [Cleared EXCEPT !.opc = "ALU_2", !.mnemonic = "ALU_2", !.len = 4]
           r == [z EXCEPT !.rt = Bits(w, 24, 20), !.ra = Bits(w, 19, 15), !.rb = Bits(w, 14, 10)]
<1>2. DOMAIN z = DcFields
  BY DEF Cleared, DcFields
<1>3. Bits(w, 24, 20) \in 0 .. 31 /\ Bits(w, 19, 15) \in 0 .. 31
  BY DEF Bits
<1>4. FillArgs32(w, "ALU_2") =
        [r EXCEPT !.dt = 0, !.sub = Bits(w, 9, 0), !.imm1_5 = Bits(w, 14, 10),
                  !.usr = Bits(w, 19, 15), !.group = Bits(w, 14, 10)]
  BY <1>1 DEF FillArgs32, z, r
<1> HIDE DEF z
<1>5. DOMAIN r = DcFields /\ r.rt = Bits(w, 24, 20)
  BY <1>2 DEF DcFields, InstrFields
<1> HIDE DEF r
<1> QED
  BY <1>3, <1>4, <1>5 DEF DcFields, InstrFields

\* Opcodes with sub-opcodes.
LEMMA DcNamed ==
    ASSUME NEW i, NEW pc, NEW n, i.opc \in HasSub, DOMAIN i = DcFields,
           i.opc = "ALU_2" => i.rt \in 0 .. 31 /\ i.usr \in 0 .. 31,
           Names(i.opc, i.sub) # {}, n = CHOOSE s \in Names(i.opc, i.sub) : TRUE,
           Text32([i EXCEPT !.mnemonic = n], pc) # Unknown
    PROVE  LET t == Text32([i EXCEPT !.mnemonic = n], pc)
           IN DcAsShown(ExecutedOp(i, pc), t)
<1> DEFINE o == i.opc
<1>1. PICK j : j = [i EXCEPT !.mnemonic = n]
  OBVIOUS
<1>2. /\ j.mnemonic = n /\ j.opc = o /\ j.rt = i.rt /\ j.ra = i.ra /\ j.rb = i.rb
      /\ j.rs = i.rs /\ j.re = i.re /\ j.dt = i.dt /\ j.enable = i.enable /\ j.usr = i.usr
      /\ j.group = i.group /\ j.sridx = i.sridx /\ j.en = i.en /\ j.imm1_24 = i.imm1_24
      /\ j.imm1_16 = i.imm1_16 /\ j.imm1_14 = i.imm1_14
      /\ j.imm1_5 = i.imm1_5 /\ j.imm1_2 = i.imm1_2 /\ j.imm2_5 = i.imm2_5
  BY <1>1, DcFields32
<1>3. o \in {"ALU_1", "ALU_2", "BR1", "BR2", "MISC", "J", "JREG", "MEM", "LSMW"}
  BY DcRows
<1>4. o \notin NotSimulated \cup {"exit"}
  BY <1>3 DEF NotSimulated
<1>5. CASE n \notin Simulated[o]
  <2>1. o # "JREG"
    <3>1. ASSUME o = "JREG" PROVE n \in {"JR", "JRAL", "RET"}
      <4>1. DOMAIN opc32_sub_list[o] = {"JR", "JRAL", "RET"}
        BY <3>1 DEF opc32_sub_list
      <4> QED
        BY <3>1, <4>1 DEF Names
    <3> QED
      <4>1. Simulated["JREG"] = {"JR", "JRAL", "RET"}
        BY DEF Simulated
      <4> QED
        BY <1>5, <3>1, <4>1, Zenon
  <2>2. ExecutedOp(i, pc) = <<"unimplemented">>
    BY <1>4, <1>5, <2>1, Zenon DEF ExecutedOp
  <2> QED
    BY <2>2, Zenon DEF DcAsShown
<1>7. CASE o = "ALU_2" /\ n \in {"MFUSR", "MTUSR"}
  <2>1. n \in Simulated[o]
    BY <1>7 DEF Simulated
  <2>2. ExecutedOp(i, pc) = OperateUsr(i, n)
    BY <1>4, <1>7, <2>1, Zenon DEF ExecutedOp
  <2>3. Text32(j, pc) = <<n, i.rt, get_usr_name(i.group, i.usr)>>
    BY <1>2, <1>7 DEF Text32, TextMultiple
  <2>4. PICK t, op : t = Text32(j, pc) /\ op = ExecutedOp(i, pc)
    OBVIOUS
  <2>5. t[1] = n /\ t[2] = i.rt /\ t[3] = get_usr_name(i.group, i.usr)
    BY <2>3, <2>4
  <2>6. n \notin Narrow
    BY <1>7, DcSimulated
  <2>7. Meaning(t) = t
    BY <1>7, <2>5, <2>6, DcMeaning
  <2>8. CASE i.group # 0 \/ i.usr > 3
    <3>1. t[3] \in {"<RESERVED>", "<disassm: unimpl>"}
      BY <2>5, <2>8 DEF get_usr_name
    <3>2. op \in {<<"error">>, <<"MFUSR", i.rt, "PC">>}
      BY <1>7, <2>2, <2>4, <2>8 DEF OperateUsr
    <3> QED
      BY <1>1, <1>7, <2>4, <2>5, <3>1, <3>2, Zenon DEF DcAsShown, DcNameless
  <2>9. CASE i.group = 0 /\ i.usr \in 0 .. 3
    <3>1. PICK h : h = <<"D0.LO", "D0.HI", "D1.LO", "D1.HI">>[i.usr + 1]
      OBVIOUS
    <3>2. get_usr_name(i.group, i.usr) = h
      BY <2>9, <3>1 DEF get_usr_name
    <3>3. OperateUsr(i, n) = <<n, i.rt, h>>
      BY <2>9, <3>1 DEF OperateUsr
    <3>4. h \notin {"<RESERVED>", "<disassm: unimpl>"}
      <4>1. CASE i.usr = 0
        BY <3>1, <4>1
      <4>2. CASE i.usr = 1
        BY <3>1, <4>2
      <4>3. CASE i.usr = 2
        BY <3>1, <4>3
      <4>4. CASE i.usr = 3
        BY <3>1, <4>4
      <4>5. i.usr = 0 \/ i.usr = 1 \/ i.usr = 2 \/ i.usr = 3
        BY <2>9
      <4> QED
        BY <4>1, <4>2, <4>3, <4>4, <4>5, Zenon
    <3>5. ~DcNameless(t)
      BY <2>5, <3>2, <3>4 DEF DcNameless
    <3> QED
      BY <1>1, <2>2, <2>3, <2>4, <2>7, <3>2, <3>3, <3>5, Zenon DEF DcAsShown
  <2> QED
    BY <1>7, <2>8, <2>9
<1>8. CASE o = "ALU_2" /\ n \in {"MULR64", "MULSR64"}
  <2>1. n \notin {"MFUSR", "MTUSR"} /\ n # "MTSR" /\ o \notin {"BR1", "BR2", "J", "JREG"}
    BY <1>8
  <2>2. ExecutedOp(i, pc) = <<n>> \o OperandRegister(i, n)
    <3>1. n \in Simulated[o]
      BY <1>8 DEF Simulated
    <3> QED
      BY <1>4, <1>8, <2>1, <3>1, DcOperates
  <2>3. OperandRegister(i, n) = OperandProduct(i)
    BY <1>8 DEF OperandRegister
  <2>4. PICK pair : pair = i.rt - (i.rt % 2)
    OBVIOUS
  <2>5. 2 * Bits(i.rt, 4, 1) = pair
    BY <1>8, <2>4 DEF Bits
  <2>6. OperandProduct(i) = <<pair + 1, pair, i.ra, i.rb>>
    BY <2>5 DEF OperandProduct
  <2>7. ExecutedOp(i, pc) = <<n, pair + 1, pair, i.ra, i.rb>>
    <3>1. PICK q : q = pair + 1
      OBVIOUS
    <3>2. <<n>> \o <<q, pair, i.ra, i.rb>> = <<n, q, pair, i.ra, i.rb>>
      BY DcTuples
    <3> QED
      BY <2>2, <2>3, <2>6, <3>1, <3>2, Zenon
  <2>8. PICK t : t = Text32(j, pc)
    OBVIOUS
  <2>9. t = <<n, i.rt, i.ra, i.rb>>
    BY <1>2, <1>8, <2>8 DEF Text32, TextMultiple
  <2>10. t[1] = n /\ t[2] = i.rt /\ t[3] = i.ra /\ t[4] = i.rb
    BY <2>9
  <2>11. n \notin Narrow
    BY <1>8, DcSimulated
  <2>12. Meaning(t) = <<n, pair + 1, pair, i.ra, i.rb>>
    BY <1>8, <2>4, <2>10, <2>11 DEF Meaning, Narrow
  <2>13. ~DcNameless(t)
    BY <1>8, <2>10 DEF DcNameless
  <2> QED
    BY <1>1, <2>7, <2>8, <2>12, <2>13, Zenon DEF DcAsShown
<1>6. CASE n \in Simulated[o] /\ ~(o = "ALU_2" /\ n \in {"MFUSR", "MTUSR", "MULR64", "MULSR64"})
  <2>1. n \notin Special
    BY <1>3, <1>6, DcSimulated
  <2>2. Text32(j, pc) # Unknown
    BY <1>1
  <2>3. ASSUME NEW v, Text32(j, pc) = v, ExecutedOp(i, pc) = v, v[1] = n
        PROVE  DcAsShown(ExecutedOp(i, pc), Text32(j, pc))
    BY <2>1, <2>3, DcItself
  <2>4. CASE o \in {"BR1", "BR2", "J", "JREG"}
    <3>1. ExecutedOp(i, pc) = <<n>> \o OperandBranch(i, n, pc)
      BY <1>4, <1>6, <2>4, Zenon DEF ExecutedOp
    <3>7. ASSUME NEW a, NEW b, NEW c,
                 \/ Text32(j, pc) = <<n, a>> /\ OperandBranch(i, n, pc) = <<a>>
                 \/ Text32(j, pc) = <<n, a, b>> /\ OperandBranch(i, n, pc) = <<a, b>>
                 \/ Text32(j, pc) = <<n, a, b, c>> /\ OperandBranch(i, n, pc) = <<a, b, c>>
          PROVE  DcAsShown(ExecutedOp(i, pc), Text32(j, pc))
      <4>1. <<n, a>>[1] = n /\ <<n, a, b>>[1] = n /\ <<n, a, b, c>>[1] = n
        OBVIOUS
      <4>2. /\ <<n>> \o <<a>> = <<n, a>> /\ <<n>> \o <<a, b>> = <<n, a, b>>
            /\ <<n>> \o <<a, b, c>> = <<n, a, b, c>>
        BY DcTuples
      <4> QED
        BY <2>3, <3>1, <3>7, <4>1, <4>2, Zenon
    <3>2. CASE o = "BR1"
      <4>1. Text32(j, pc) = <<n, i.rt, i.ra, SignExtend(i.imm1_14 * 2, 15, 32) + pc>>
        BY <1>2, <3>2 DEF Text32, TextImmediate
      <4>2. OperandBranch(i, n, pc) = <<i.rt, i.ra, SignExtend(i.imm1_14 * 2, 15, 32) + pc>>
        <5>1. n \in {"BEQ", "BNE"}
          BY <1>6, <3>2 DEF Simulated
        <5> QED
          BY <3>2, <5>1 DEF OperandBranch
      <4> QED
        BY <1>1, <3>7, <4>1, <4>2
    <3>3. CASE o = "BR2"
      <4>1. n \in {"BNEZ", "BGEZ", "BLEZ", "BEQZ", "BGTZ", "BLTZ"}
        BY <1>6, <3>3 DEF Simulated
      <4>2. Text32(j, pc) = <<n, i.rt, SignExtend(i.imm1_16 * 2, 17, 32) + pc>>
        BY <1>2, <3>3, <4>1 DEF Text32, TextImmediate
      <4>3. OperandBranch(i, n, pc) = <<i.rt, SignExtend(i.imm1_16 * 2, 17, 32) + pc>>
        BY <3>3, <4>1 DEF OperandBranch
      <4> QED
        BY <1>1, <3>7, <4>2, <4>3
    <3>4. CASE o = "J"
      <4>1. n \in {"J", "JAL"}
        BY <1>6, <3>4 DEF Simulated
      <4>2. Text32(j, pc) = <<n, SignExtend(i.imm1_24 * 2, 25, 32) + pc>>
        BY <1>2, <3>4 DEF Text32, TextImmediate
      <4>3. OperandBranch(i, n, pc) = <<SignExtend(i.imm1_24 * 2, 25, 32) + pc>>
        BY <3>4, <4>1 DEF OperandBranch
      <4> QED
        BY <1>1, <3>7, <4>2, <4>3
    <3>5. CASE o = "JREG" /\ n = "JRAL"
      <4>1. Text32(j, pc) = <<n, i.rt, i.rb>>
        BY <1>2, <3>5 DEF Text32, TextRegister
      <4>2. OperandBranch(i, n, pc) = <<i.rt, i.rb>>
        BY <3>5 DEF OperandBranch
      <4> QED
        BY <1>1, <3>7, <4>1, <4>2
    <3>6. CASE o = "JREG" /\ n # "JRAL"
      <4>1. Text32(j, pc) = <<n, i.rb>>
        BY <1>2, <3>6 DEF Text32, TextRegister
      <4>2. OperandBranch(i, n, pc) = <<i.rb>>
        BY <3>6 DEF OperandBranch
      <4> QED
        BY <1>1, <3>7, <4>1, <4>2
    <3> QED
      BY <2>4, <3>2, <3>3, <3>4, <3>5, <3>6
  <2>5. CASE o = "MISC" /\ n = "MTSR" /\ i.imm2_5 = 2
    <3>1. ExecutedOp(i, pc) = <<"SETGIE", i.en>>
      BY <1>4, <1>6, <2>5, Zenon DEF ExecutedOp
    <3>2. j.imm2_5 # 0
      BY <1>2, <2>5
    <3>3. Text32(j, pc) = TextRegister(j)
      BY <1>2, <2>5 DEF Text32
    <3>4. TextRegister(j) = <<"SETGIE", i.en>>
      BY <1>2, <2>5, <3>2 DEF TextRegister
    <3> QED
      <4>1. PICK t, op : t = Text32(j, pc) /\ op = ExecutedOp(i, pc)
        OBVIOUS
      <4>2. op = t /\ t[1] \notin Special
        BY <3>1, <3>3, <3>4, <4>1, DcSimulated
      <4> QED
        BY <1>1, <4>1, <4>2, DcItself
  <2>6. CASE o \in {"ALU_1", "ALU_2", "MEM", "LSMW", "MISC"} /\ ~(n = "MTSR" /\ i.imm2_5 # 0)
    <3>1. ExecutedOp(i, pc) = <<n>> \o OperandRegister(i, n)
      <4>1. n \notin {"MFUSR", "MTUSR"}
        BY <1>6, <2>1 DEF Special
      <4> QED
        BY <1>4, <1>6, <2>6, <4>1, DcOperates
    <3>2. ASSUME NEW a, NEW b, NEW c, NEW d,
                 \/ Text32(j, pc) = <<n>> /\ OperandRegister(i, n) = <<>>
                 \/ Text32(j, pc) = <<n, a, b>> /\ OperandRegister(i, n) = <<a, b>>
                 \/ Text32(j, pc) = <<n, a, b, c>> /\ OperandRegister(i, n) = <<a, b, c>>
                 \/ Text32(j, pc) = <<n, a, b, c, d>> /\ OperandRegister(i, n) = <<a, b, c, d>>
          PROVE  DcAsShown(ExecutedOp(i, pc), Text32(j, pc))
      <4>1. <<n>>[1] = n /\ <<n, a, b>>[1] = n /\ <<n, a, b, c>>[1] = n /\ <<n, a, b, c, d>>[1] = n
        OBVIOUS
      <4>2. /\ <<n>> \o <<>> = <<n>> /\ <<n>> \o <<a, b>> = <<n, a, b>>
            /\ <<n>> \o <<a, b, c>> = <<n, a, b, c>>
            /\ <<n>> \o <<a, b, c, d>> = <<n, a, b, c, d>>
        BY DcTuples
      <4> QED
        BY <2>3, <3>1, <3>2, <4>1, <4>2, Zenon
    <3>3. CASE o = "MEM"
      <4>1. Text32(j, pc) = <<n, i.rt, i.ra, i.rb, i.imm1_2>>
        BY <1>2, <3>3 DEF Text32, TextRegister
      <4>2. n \in {"LW", "SW", "LB", "LH", "LBS", "SB"}
        BY <1>6, <3>3 DEF Simulated
      <4>3. OperandRegister(i, n) = <<i.rt, i.ra, i.rb, i.imm1_2>>
        BY <3>3, <4>2 DEF OperandRegister
      <4> QED
        BY <1>1, <3>2, <4>1, <4>3
    <3>4. CASE o = "LSMW"
      <4>2. n \in {"LMW_ai", "LMW_bi", "LMW_ad", "LMW_aim", "LMW_bim", "LMW_adm", "LMW_bdm",
                   "SMW_ai", "SMW_bi", "SMW_ad", "SMW_aim", "SMW_bim", "SMW_adm", "SMW_bdm",
                   "SMWA_adm", "SMWA_bdm", "LMWA_bim"}
        BY <1>6, <3>4 DEF Simulated
      <4>1. Text32(j, pc) = <<n, i.rb, i.ra, i.re, i.enable>>
        BY <1>2, <3>4, <4>2 DEF Text32, TextMultiple
      <4>3. OperandRegister(i, n) = <<i.rb, i.ra, i.re, i.enable>>
        BY <3>4, <4>2 DEF OperandRegister
      <4> QED
        BY <1>1, <3>2, <4>1, <4>3
    <3>5. CASE o = "ALU_1"
      <4>1. n \in {"OR", "NOR", "AND", "SLT", "SLTS", "SUB", "ADD", "SRAI", "SRLI", "SLL", "SRL",
                   "SEB", "ZEH", "SEH", "SLLI", "CMOVZ", "CMOVN", "DIVR", "DIVSR", "XOR"}
        BY <1>6, <3>5 DEF Simulated
      <4>2. Text32(j, pc) = TextRegister(j)
        BY <1>2, <3>5 DEF Text32
      <4>3. CASE n \in {"SEB", "SEH", "ZEH"}
        <5>1. TextRegister(j) = <<n, i.rt, i.ra>>
          BY <1>2, <3>5, <4>3 DEF TextRegister
        <5>2. OperandRegister(i, n) = <<i.rt, i.ra>>
          BY <3>5, <4>3 DEF OperandRegister
        <5> QED
          BY <1>1, <3>2, <4>2, <5>1, <5>2
      <4>4. CASE n \in {"SLLI", "SRLI", "SRAI"}
        <5>1. TextRegister(j) = <<n, i.rt, i.ra, i.imm1_5>>
          BY <1>2, <3>5, <4>4 DEF TextRegister
        <5>2. OperandRegister(i, n) = <<i.rt, i.ra, i.imm1_5>>
          BY <3>5, <4>4 DEF OperandRegister
        <5> QED
          BY <1>1, <3>2, <4>2, <5>1, <5>2
      <4>5. CASE n \in {"DIVR", "DIVSR"}
        <5>1. TextRegister(j) = <<n, i.rt, i.rs, i.ra, i.rb>>
          BY <1>2, <3>5, <4>5 DEF TextRegister
        <5>2. OperandRegister(i, n) = <<i.rt, i.rs, i.ra, i.rb>>
          BY <3>5, <4>5 DEF OperandRegister
        <5> QED
          BY <1>1, <3>2, <4>2, <5>1, <5>2
      <4>6. CASE n \in {"OR", "NOR", "AND", "SLT", "SLTS", "SUB", "ADD", "SLL", "SRL", "CMOVZ",
                        "CMOVN", "XOR"}
        <5>1. TextRegister(j) = <<n, i.rt, i.ra, i.rb>>
          BY <1>2, <3>5, <4>6 DEF TextRegister
        <5>2. OperandRegister(i, n) = <<i.rt, i.ra, i.rb>>
          BY <3>5, <4>6 DEF OperandRegister
        <5> QED
          BY <1>1, <3>2, <4>2, <5>1, <5>2
      <4> QED
        BY <4>1, <4>3, <4>4, <4>5, <4>6
    <3>6. CASE o = "ALU_2"
      <4>1. n \in {"BSET", "MADD32", "MUL", "MADDR32", "BTST", "MSUBR32", "BSP", "ABS"}
        BY <1>6, <3>6 DEF Simulated
      <4>2. Text32(j, pc) = TextMultiple(j)
        BY <1>2, <3>6 DEF Text32
      <4>3. CASE n \in {"BSET", "BTST"}
        <5>1. TextMultiple(j) = <<n, i.rt, i.ra, i.imm1_5>>
          BY <1>2, <3>6, <4>3 DEF TextMultiple
        <5>2. OperandRegister(i, n) = <<i.rt, i.ra, i.imm1_5>>
          BY <3>6, <4>3 DEF OperandRegister
        <5> QED
          BY <1>1, <3>2, <4>2, <5>1, <5>2
      <4>4. CASE n = "MADD32"
        <5>1. TextMultiple(j) = <<n, i.dt, i.ra, i.rb>>
          BY <1>2, <3>6, <4>4 DEF TextMultiple
        <5>2. OperandRegister(i, n) = <<i.dt, i.ra, i.rb>>
          BY <3>6, <4>4 DEF OperandRegister
        <5> QED
          BY <1>1, <3>2, <4>2, <5>1, <5>2
      <4>6. CASE n = "ABS"
        <5>1. TextMultiple(j) = <<n, i.rt, i.ra>>
          BY <1>2, <3>6, <4>6 DEF TextMultiple
        <5>2. OperandRegister(i, n) = <<i.rt, i.ra>>
          BY <3>6, <4>6 DEF OperandRegister
        <5> QED
          BY <1>1, <3>2, <4>2, <5>1, <5>2
      <4>7. CASE n \in {"MUL", "MADDR32", "MSUBR32", "BSP"}
        <5>1. TextMultiple(j) = <<n, i.rt, i.ra, i.rb>>
          BY <1>2, <3>6, <4>7 DEF TextMultiple
        <5>2. OperandRegister(i, n) = <<i.rt, i.ra, i.rb>>
          BY <3>6, <4>7 DEF OperandRegister
        <5> QED
          BY <1>1, <3>2, <4>2, <5>1, <5>2
      <4> QED
        BY <4>1, <4>3, <4>4, <4>6, <4>7
    <3>7. CASE o = "MISC"
      <4>1. n \in {"MFSR", "MTSR", "ISB", "IRET"}
        BY <1>6, <3>7 DEF Simulated
      <4>2. Text32(j, pc) = TextRegister(j)
        BY <1>2, <3>7 DEF Text32
      <4>3. CASE n = "MFSR"
        <5>1. TextRegister(j) = <<n, i.rt, i.sridx>>
          BY <1>2, <3>7, <4>3 DEF TextRegister
        <5>2. OperandRegister(i, n) = <<i.rt, i.sridx>>
          BY <3>7, <4>3 DEF OperandRegister
        <5> QED
          BY <1>1, <3>2, <4>2, <5>1, <5>2
      <4>4. CASE n = "MTSR" /\ i.imm2_5 = 0
        <5>0. i.imm2_5 # 2
          BY <2>6, <4>4
        <5>1. TextRegister(j) = <<n, i.ra, i.sridx>>
          BY <1>2, <3>7, <4>4, <5>0 DEF TextRegister
        <5>2. OperandRegister(i, n) = <<i.ra, i.sridx>>
          BY <3>7, <4>4, <5>0 DEF OperandRegister
        <5> QED
          BY <1>1, <3>2, <4>2, <5>1, <5>2
      <4>6. CASE n \in {"ISB", "IRET"}
        <5>1. TextRegister(j) = <<n>>
          BY <1>2, <3>7, <4>6 DEF TextRegister
        <5>2. OperandRegister(i, n) = <<>>
          BY <3>7, <4>6 DEF OperandRegister
        <5> QED
          BY <1>1, <3>2, <4>2, <5>1, <5>2
      <4> QED
        BY <2>6, <4>1, <4>3, <4>4, <4>6
    <3> QED
      BY <2>6, <3>3, <3>4, <3>5, <3>6, <3>7
  <2>7. /\ "MTSR" \notin Simulated["ALU_1"] /\ "MTSR" \notin Simulated["ALU_2"]
        /\ "MTSR" \notin Simulated["MEM"] /\ "MTSR" \notin Simulated["LSMW"]
    BY DEF Simulated
  <2>8. CASE o = "MISC" /\ n = "MTSR" /\ i.imm2_5 \notin {0, 2}
    <3>1. Text32(j, pc) = TextRegister(j)
      BY <1>2, <2>8 DEF Text32
    <3>2. TextRegister(j) = Unknown
      BY <1>2, <2>8 DEF TextRegister
    <3> QED
      BY <2>2, <3>1, <3>2
  <2> QED
    BY <1>3, <1>6, <2>4, <2>5, <2>6, <2>7, <2>8
<1> QED
  BY <1>5, <1>6, <1>7, <1>8

\* What the two calls of decode_32 hand out.
LEMMA DcCalls32 ==
    ASSUME NEW w \in Nat, NEW pc
    PROVE  \/ Decode32(w, pc, FALSE).ret = 1 /\ Decode32(w, pc, TRUE).ret = 1
           \/ \E i : /\ DOMAIN i = DcFields /\ i.opc \in Opc32
                     /\ i.opc = "SLTI" => i.imm1_15 \in Nat
                     /\ i.opc = "ALU_2" => i.rt \in 0 .. 31 /\ i.usr \in 0 .. 31
                     /\ Decode32(w, pc, TRUE) = [ret |-> 0, text |-> Unknown, instr |-> i]
                     /\ \/ /\ Names(i.opc, i.sub) = {}
                           /\ Decode32(w, pc, FALSE) = [ret |-> 1, text |-> Unknown, instr |-> i]
                        \/ /\ Names(i.opc, i.sub) # {}
                           /\ \E j : /\ j = [i EXCEPT !.mnemonic =
                                                     CHOOSE s \in Names(i.opc, i.sub) : TRUE]
                                     /\ Decode32(w, pc, FALSE) =
                                            [ret |-> 0, text |-> Text32(j, pc), instr |-> j]
<1> DEFINE rows == {o \in Opc32 : opc32_list[o][1] = Bits(w, 30, 25)}
           o == CHOOSE r \in rows : TRUE
           i == FillArgs32(w, o)
           j == [i EXCEPT !.mnemonic = CHOOSE s \in Names(o, i.sub) : TRUE]
<1>1. PICK full, short : full = Decode32(w, pc, FALSE) /\ short = Decode32(w, pc, TRUE)
  OBVIOUS
<1>2. CASE rows = {}
  <2>1. /\ full = [ret |-> 1, text |-> Unknown, instr |-> Cleared]
        /\ short = [ret |-> 1, text |-> Unknown, instr |-> Cleared]
    BY <1>1, <1>2, Zenon DEF Decode32
  <2>2. full.ret = 1 /\ short.ret = 1
    BY <2>1
  <2> QED
    BY <1>1, <2>2, Zenon
<1>3. CASE rows # {}
  <2>1. o \in Opc32
    BY <1>3
  <2>2. DOMAIN i = DcFields /\ i.opc = o
    BY <2>1, DcFilled, Zenon
  <2>3. o = "SLTI" => i.imm1_15 \in Nat
    BY DcSlti
  <2>7. o = "ALU_2" => i.rt \in 0 .. 31 /\ i.usr \in 0 .. 31
    BY DcAlu2
  <2>4. short = [ret |-> 0, text |-> Unknown, instr |-> i]
    BY <1>1, <1>3, Zenon DEF Decode32
  <2>5. Names(o, i.sub) = {} => full = [ret |-> 1, text |-> Unknown, instr |-> i]
    BY <1>1, <1>3, Zenon DEF Decode32
  <2>6. Names(o, i.sub) # {} => full = [ret |-> 0, text |-> Text32(j, pc), instr |-> j]
    BY <1>1, <1>3, Zenon DEF Decode32
  <2> HIDE DEF i, o
  <2> QED
    BY <1>1, <2>1, <2>2, <2>3, <2>4, <2>5, <2>6, <2>7, Zenon
<1> QED
  BY <1>2, <1>3

\* ShownIsExecuted and DecodeOnlyAgrees, about the two results for one word.
DcWordRight(full, short, pc) ==
    full.ret = 0 /\ full.text # Unknown
    /\ ~(short.instr.opc = "SLTI" /\ short.instr.imm1_15 >= 2^14)
    => DcAsShown(ExecutedOp(short.instr, pc), full.text)

DcWordShort(full, short, pc) ==
    IF full.ret = 0
    THEN short.ret = 0 /\ [full.instr EXCEPT !.mnemonic = ""] = [short.instr EXCEPT !.mnemonic = ""]
    ELSE \/ short.ret = 1
         \/ ExecutedOp(short.instr, pc) = <<"unimplemented">>
         \/ short.instr.opc = "JREG" /\ ExecutedOp(short.instr, pc) = <<"nothing">>

\* Both hold of every 32-bit word.
LEMMA DcWord32 ==
    ASSUME NEW w \in Nat, NEW pc
    PROVE  /\ DcWordRight(Decode32(w, pc, FALSE), Decode32(w, pc, TRUE), pc)
           /\ DcWordShort(Decode32(w, pc, FALSE), Decode32(w, pc, TRUE), pc)
<1>1. PICK full, short : full = Decode32(w, pc, FALSE) /\ short = Decode32(w, pc, TRUE)
  OBVIOUS
<1> SUFFICES DcWordRight(full, short, pc) /\ DcWordShort(full, short, pc)
  BY <1>1, Zenon
<1>2. CASE full.ret = 1 /\ short.ret = 1
  BY <1>2 DEF DcWordRight, DcWordShort
<1>3. CASE ~(full.ret = 1 /\ short.ret = 1)
  <2>1. PICK i : /\ DOMAIN i = DcFields /\ i.opc \in Opc32
                 /\ i.opc = "SLTI" => i.imm1_15 \in Nat
                 /\ i.opc = "ALU_2" => i.rt \in 0 .. 31 /\ i.usr \in 0 .. 31
                 /\ short = [ret |-> 0, text |-> Unknown, instr |-> i]
                 /\ \/ /\ Names(i.opc, i.sub) = {}
                       /\ full = [ret |-> 1, text |-> Unknown, instr |-> i]
                    \/ /\ Names(i.opc, i.sub) # {}
                       /\ \E j : /\ j = [i EXCEPT !.mnemonic =
                                                 CHOOSE s \in Names(i.opc, i.sub) : TRUE]
                                 /\ full = [ret |-> 0, text |-> Text32(j, pc), instr |-> j]
    BY <1>1, <1>3, DcCalls32, Zenon
  <2>2. short.ret = 0 /\ short.instr = i
    BY <2>1
  <2>3. CASE Names(i.opc, i.sub) = {}
    <3>1. full.ret = 1
      BY <2>1, <2>3
    <3>2. i.opc \in HasSub
      BY <2>3 DEF Names
    <3>3. "" \notin Simulated[i.opc]
      <4>1. /\ "" \notin Simulated["ALU_1"] /\ "" \notin Simulated["ALU_2"]
            /\ "" \notin Simulated["BR1"] /\ "" \notin Simulated["BR2"]
            /\ "" \notin Simulated["J"] /\ "" \notin Simulated["JREG"]
            /\ "" \notin Simulated["MISC"] /\ "" \notin Simulated["MEM"]
            /\ "" \notin Simulated["LSMW"]
        BY DEF Simulated
      <4> QED
        BY <3>2, <4>1, DcRows
    <3>4. \/ ExecutedOp(i, pc) = <<"unimplemented">>
          \/ i.opc = "JREG" /\ ExecutedOp(i, pc) = <<"nothing">>
      BY <2>3, <3>2, <3>3, Zenon DEF ExecutedOp
    <3> QED
      BY <2>2, <3>1, <3>4 DEF DcWordRight, DcWordShort
  <2>4. CASE Names(i.opc, i.sub) # {}
    <3>1. PICK n : n = CHOOSE s \in Names(i.opc, i.sub) : TRUE
      OBVIOUS
    <3>2. PICK j : /\ j = [i EXCEPT !.mnemonic = n]
                   /\ full = [ret |-> 0, text |-> Text32(j, pc), instr |-> j]
      BY <2>1, <2>4, <3>1
    <3>3. full.ret = 0 /\ full.text = Text32(j, pc) /\ full.instr = j
      BY <3>2
    <3>4. [j EXCEPT !.mnemonic = ""] = [i EXCEPT !.mnemonic = ""]
      BY <3>2
    <3>5. DcWordShort(full, short, pc)
      BY <2>2, <3>3, <3>4 DEF DcWordShort
    <3>6. ASSUME Text32(j, pc) # Unknown, ~(i.opc = "SLTI" /\ i.imm1_15 >= 2^14)
          PROVE  DcAsShown(ExecutedOp(i, pc), Text32(j, pc))
      <4>1. CASE i.opc \in HasSub
        BY <2>1, <2>4, <3>1, <3>2, <3>6, <4>1, DcNamed
      <4>2. CASE i.opc \notin HasSub
        <5>1. i.opc = "SLTI" => i.imm1_15 \in Nat /\ i.imm1_15 < 2^14
          BY <2>1, <3>6
        <5>2. n = i.opc
          BY <3>1, <4>2 DEF Names
        <5> QED
          BY <2>1, <3>2, <4>2, <5>1, <5>2, DcImmediate, DcItself
      <4> QED
        BY <4>1, <4>2
    <3>7. DcWordRight(full, short, pc)
      BY <2>2, <3>3, <3>6, Zenon DEF DcWordRight
    <3> QED
      BY <3>5, <3>7
  <2> QED
    BY <2>3, <2>4
<1> QED
  BY <1>2, <1>3

----------------------------------------------------------------------------
(* 16-bit words: the fields decode_16 fills in, the meanings of the manual  *)
(* and the fields that translate_to_32 rewrites.                           *)

\* The types of the 16-bit forms.
DcRows16 == {"333", "333_SUB", "37_SUB", "38", "45", "450", "5", "55", "8", "10"}

LEMMA DcTypes16 ==
    /\ \A o \in Opc16 : opc16_list[o][3] \in DcRows16
    /\ \A o \in Opc16 : opc16_list[o][3] = "37_SUB" <=> o \in {"XWI37", "XWI37SP"}
    /\ DOMAIN opc16_sub_list = {"BFMI333", "XWI37", "XWI37SP"}
    /\ opc16_list["J8"][3] = "8"
<1>1. DOMAIN opc16_sub_list = {"BFMI333", "XWI37", "XWI37SP"}
  BY DEF opc16_sub_list
<1> QED
  BY <1>1, SMTT(60) DEF opc16_list, Opc16, DcRows16

\* What the decoder fills in: the immediates are as wide as their names say.
DcShape16(i) ==
    /\ DOMAIN i = DcFields /\ i.opc \in Opc16 /\ i.mnemonic = i.opc
    /\ i.imm1_10 \in 0 .. 1023 /\ i.imm1_8 \in 0 .. 255 /\ i.imm1_7 \in 0 .. 127
    /\ i.imm1_5 \in 0 .. 31 /\ i.imm1_3 \in 0 .. 7
    /\ i.opc \in {"XWI37", "XWI37SP"} => i.sub \in {0, 1}
    /\ i.opc = "J8" => i.sub = 0

LEMMA DcFilled16 ==
    ASSUME NEW w \in Nat, NEW o \in Opc16
    PROVE  DcShape16(FillArgs16(w, o)) /\ FillArgs16(w, o).opc = o
<1> DEFINE z == [Cleared EXCEPT !.opc = o, !.mnemonic = o, !.len = 2]
           i == FillArgs16(w, o)
<1>1. /\ Bits(w, 9, 0) \in 0 .. 1023 /\ Bits(w, 7, 0) \in 0 .. 255 /\ Bits(w, 6, 0) \in 0 .. 127
      /\ Bits(w, 4, 0) \in 0 .. 31 /\ Bits(w, 2, 0) \in 0 .. 7 /\ Bits(w, 7, 7) \in {0, 1}
  BY DEF Bits
<1>2. /\ DOMAIN z = DcFields /\ z.opc = o /\ z.mnemonic = o /\ z.imm1_10 = 0 /\ z.imm1_8 = 0
      /\ z.imm1_7 = 0 /\ z.imm1_5 = 0 /\ z.imm1_3 = 0 /\ z.sub = 0
  BY DEF Cleared, DcFields, InstrFields
<1>3. opc16_list[o][3] \in DcRows16
  BY DcTypes16
<1>4. /\ opc16_list[o][3] = "37_SUB" <=> o \in {"XWI37", "XWI37SP"}
      /\ o = "J8" => opc16_list[o][3] = "8"
  BY DcTypes16
<1>5. 0 \in 0 .. 1023 /\ 0 \in 0 .. 255 /\ 0 \in 0 .. 127 /\ 0 \in 0 .. 31 /\ 0 \in 0 .. 7
  OBVIOUS
<1> HIDE DEF z
<1>10. CASE opc16_list[o][3] = "10"
  <2>1. i = [z EXCEPT !.imm1_10 = Bits(w, 9, 0)]
    BY <1>10 DEF FillArgs16, z
  <2> HIDE DEF i
  <2>2. /\ DOMAIN i = DcFields /\ i.opc = o /\ i.mnemonic = o
        /\ i.imm1_10 = Bits(w, 9, 0)
        /\ i.imm1_8 = 0
        /\ i.imm1_7 = 0
        /\ i.imm1_5 = 0
        /\ i.imm1_3 = 0
    BY <1>2, <2>1 DEF DcFields, InstrFields
  <2> QED
    BY <1>1, <1>4, <1>5, <1>10, <2>2 DEF DcShape16, i
<1>11. CASE opc16_list[o][3] = "333"
  <2>1. i = [z EXCEPT !.rt = Bits(w, 8, 6),
                    !.ra = Bits(w, 5, 3),
                    !.rb = Bits(w, 2, 0),
                    !.imm1_3 = Bits(w, 2, 0)]
    BY <1>11 DEF FillArgs16, z
  <2> HIDE DEF i
  <2>2. /\ DOMAIN i = DcFields /\ i.opc = o /\ i.mnemonic = o
        /\ i.imm1_10 = 0
        /\ i.imm1_8 = 0
        /\ i.imm1_7 = 0
        /\ i.imm1_5 = 0
        /\ i.imm1_3 = Bits(w, 2, 0)
    BY <1>2, <2>1 DEF DcFields, InstrFields
  <2> QED
    BY <1>1, <1>4, <1>5, <1>11, <2>2 DEF DcShape16, i
<1>12. CASE opc16_list[o][3] = "333_SUB"
  <2>1. i = [z EXCEPT !.rt = Bits(w, 8, 6),
                    !.ra = Bits(w, 5, 3),
                    !.sub = Bits(w, 2, 0)]
    BY <1>12 DEF FillArgs16, z
  <2> HIDE DEF i
  <2>2. /\ DOMAIN i = DcFields /\ i.opc = o /\ i.mnemonic = o
        /\ i.imm1_10 = 0
        /\ i.imm1_8 = 0
        /\ i.imm1_7 = 0
        /\ i.imm1_5 = 0
        /\ i.imm1_3 = 0
    BY <1>2, <2>1 DEF DcFields, InstrFields
  <2> QED
    BY <1>1, <1>4, <1>5, <1>12, <2>2 DEF DcShape16, i
<1>13. CASE opc16_list[o][3] = "37_SUB"
  <2>1. i = [z EXCEPT !.rt = Bits(w, 10, 8),
                    !.sub = Bits(w, 7, 7),
                    !.imm1_7 = Bits(w, 6, 0)]
    BY <1>13 DEF FillArgs16, z
  <2> HIDE DEF i
  <2>2. /\ DOMAIN i = DcFields /\ i.opc = o /\ i.mnemonic = o
        /\ i.imm1_10 = 0
        /\ i.imm1_8 = 0
        /\ i.imm1_7 = Bits(w, 6, 0)
        /\ i.imm1_5 = 0
        /\ i.imm1_3 = 0
        /\ i.sub = Bits(w, 7, 7)
    BY <1>2, <2>1 DEF DcFields, InstrFields
  <2> QED
    BY <1>1, <1>4, <1>5, <1>13, <2>2 DEF DcShape16, i
<1>14. CASE opc16_list[o][3] = "38"
  <2>1. i = [z EXCEPT !.rt = Bits(w, 10, 8),
                    !.imm1_8 = Bits(w, 7, 0)]
    BY <1>14 DEF FillArgs16, z
  <2> HIDE DEF i
  <2>2. /\ DOMAIN i = DcFields /\ i.opc = o /\ i.mnemonic = o
        /\ i.imm1_10 = 0
        /\ i.imm1_8 = Bits(w, 7, 0)
        /\ i.imm1_7 = 0
        /\ i.imm1_5 = 0
        /\ i.imm1_3 = 0
    BY <1>2, <2>1 DEF DcFields, InstrFields
  <2> QED
    BY <1>1, <1>4, <1>5, <1>14, <2>2 DEF DcShape16, i
<1>15. CASE opc16_list[o][3] = "45"
  <2>1. i = [z EXCEPT !.ra = Bits(w, 8, 5),
                    !.rt = Bits(w, 8, 5),
                    !.rb = Bits(w, 4, 0),
                    !.imm1_5 = Bits(w, 4, 0)]
    BY <1>15 DEF FillArgs16, z
  <2> HIDE DEF i
  <2>2. /\ DOMAIN i = DcFields /\ i.opc = o /\ i.mnemonic = o
        /\ i.imm1_10 = 0
        /\ i.imm1_8 = 0
        /\ i.imm1_7 = 0
        /\ i.imm1_5 = Bits(w, 4, 0)
        /\ i.imm1_3 = 0
    BY <1>2, <2>1 DEF DcFields, InstrFields
  <2> QED
    BY <1>1, <1>4, <1>5, <1>15, <2>2 DEF DcShape16, i
<1>16. CASE opc16_list[o][3] = "450"
  <2>1. i = [z EXCEPT !.rt = Bits(w, 8, 5),
                    !.ra = Bits(w, 4, 0)]
    BY <1>16 DEF FillArgs16, z
  <2> HIDE DEF i
  <2>2. /\ DOMAIN i = DcFields /\ i.opc = o /\ i.mnemonic = o
        /\ i.imm1_10 = 0
        /\ i.imm1_8 = 0
        /\ i.imm1_7 = 0
        /\ i.imm1_5 = 0
        /\ i.imm1_3 = 0
    BY <1>2, <2>1 DEF DcFields, InstrFields
  <2> QED
    BY <1>1, <1>4, <1>5, <1>16, <2>2 DEF DcShape16, i
<1>17. CASE opc16_list[o][3] = "5"
  <2>1. i = [z EXCEPT !.rb = Bits(w, 4, 0)]
    BY <1>17 DEF FillArgs16, z
  <2> HIDE DEF i
  <2>2. /\ DOMAIN i = DcFields /\ i.opc = o /\ i.mnemonic = o
        /\ i.imm1_10 = 0
        /\ i.imm1_8 = 0
        /\ i.imm1_7 = 0
        /\ i.imm1_5 = 0
        /\ i.imm1_3 = 0
    BY <1>2, <2>1 DEF DcFields, InstrFields
  <2> QED
    BY <1>1, <1>4, <1>5, <1>17, <2>2 DEF DcShape16, i
<1>18. CASE opc16_list[o][3] = "55"
  <2>1. i = [z EXCEPT !.rt = Bits(w, 9, 5),
                    !.ra = Bits(w, 4, 0),
                    !.imm1_5 = Bits(w, 4, 0)]
    BY <1>18 DEF FillArgs16, z
  <2> HIDE DEF i
  <2>2. /\ DOMAIN i = DcFields /\ i.opc = o /\ i.mnemonic = o
        /\ i.imm1_10 = 0
        /\ i.imm1_8 = 0
        /\ i.imm1_7 = 0
        /\ i.imm1_5 = Bits(w, 4, 0)
        /\ i.imm1_3 = 0
    BY <1>2, <2>1 DEF DcFields, InstrFields
  <2> QED
    BY <1>1, <1>4, <1>5, <1>18, <2>2 DEF DcShape16, i
<1>19. CASE opc16_list[o][3] = "8"
  <2>1. i = [z EXCEPT !.imm1_8 = Bits(w, 7, 0)]
    BY <1>19 DEF FillArgs16, z
  <2> HIDE DEF i
  <2>2. /\ DOMAIN i = DcFields /\ i.opc = o /\ i.mnemonic = o
        /\ i.imm1_10 = 0
        /\ i.imm1_8 = Bits(w, 7, 0)
        /\ i.imm1_7 = 0
        /\ i.imm1_5 = 0
        /\ i.imm1_3 = 0
        /\ i.sub = 0
    BY <1>2, <2>1 DEF DcFields, InstrFields
  <2> QED
    BY <1>1, <1>4, <1>5, <1>19, <2>2 DEF DcShape16, i
<1> QED
  BY <1>3, <1>10, <1>11, <1>12, <1>13, <1>14, <1>15, <1>16, <1>17, <1>18, <1>19 DEF DcRows16

\* The manual's meanings, form by form.
LEMMA DcMeaning16 ==
    /\ \A n \in DOMAIN SameOperands :
          /\ \A a : Meaning(<<n, a>>) = <<SameOperands[n], a>>
          /\ \A a, b : Meaning(<<n, a, b>>) = <<SameOperands[n], a, b>>
          /\ \A a, b, c : Meaning(<<n, a, b, c>>) = <<SameOperands[n], a, b, c>>
    /\ \A n \in DOMAIN SourceIsTarget :
          \A a, b : Meaning(<<n, a, b>>) = <<SourceIsTarget[n], a, a, b>>
    /\ \A n \in DOMAIN ImpliedTarget : \A x, y : ImpliedTarget[n] = <<x, y>> =>
          /\ \A a : Meaning(<<n, a>>) = <<x, y, a>>
          /\ \A a, b : Meaning(<<n, a, b>>) = <<x, y, a, b>>
    /\ \A n \in DOMAIN ImpliedLast : \A a, b :
          Meaning(<<n, a, b>>) = <<ImpliedLast[n][1], a, b, ImpliedLast[n][2]>>
    /\ \A n \in DOMAIN ImpliedBase : \A a, b :
          Meaning(<<n, a, b>>) = <<ImpliedBase[n][1], a, ImpliedBase[n][2], b>>
    /\ \A a, b, c : Meaning(<<"SUBI333", a, b, c>>) = <<"ADDI", a, b, -c>>
    /\ \A a, b : Meaning(<<"SUBI45", a, b>>) = <<"ADDI", a, a, -b>>
    /\ \A a : Meaning(<<"ADDI10S", a>>) = <<"ADDI", 31, 31, a>>
<1>1. DOMAIN SameOperands =
             {"ADD333", "SUB333", "ADDI333", "SLLI333", "LBI333", "SBI333", "LHI333", "SHI333",
              "LWI333", "SWI333", "LWI333_bi", "SWI333_bi", "SEB33", "SEH33", "ZEH33", "BEQZ38",
              "BNEZ38", "MOVI55", "J8", "JR5", "RET5"}
  BY DEF SameOperands
<1>2. DOMAIN SourceIsTarget = {"ADD45", "SUB45", "ADDI45", "SRAI45", "SRLI45"}
  BY DEF SourceIsTarget
<1>3. DOMAIN ImpliedTarget = {"SLT45", "SLTS45", "SLTI45", "SLTSI45", "BEQZS8", "BNEZS8", "JRAL5"}
  BY DEF ImpliedTarget
<1>4. DOMAIN ImpliedLast = {"MOV55", "LWI450", "SWI450", "ZEB33", "XLSB33"}
  BY DEF ImpliedLast
<1>5. DOMAIN ImpliedBase = {"LWI37", "SWI37", "LWI37SP", "SWI37SP", "BEQS38", "BNES38"}
  BY DEF ImpliedBase
<1>6. ASSUME NEW n \in DOMAIN SameOperands, NEW t, t[1] = n
      PROVE  Meaning(t) = <<SameOperands[n]>> \o Tail(t)
  BY <1>1, <1>2, <1>3, <1>4, <1>5, <1>6 DEF Meaning
<1>7. ASSUME NEW n \in DOMAIN SourceIsTarget, NEW t, t[1] = n
      PROVE  Meaning(t) = <<SourceIsTarget[n], t[2]>> \o Tail(t)
  BY <1>1, <1>2, <1>3, <1>4, <1>5, <1>7 DEF Meaning
<1>8. ASSUME NEW n \in DOMAIN ImpliedTarget, NEW t, t[1] = n
      PROVE  Meaning(t) = ImpliedTarget[n] \o Tail(t)
  BY <1>1, <1>2, <1>3, <1>4, <1>5, <1>8 DEF Meaning
<1>9. ASSUME NEW n \in DOMAIN ImpliedLast, NEW t, t[1] = n
      PROVE  Meaning(t) = <<ImpliedLast[n][1], t[2], t[3], ImpliedLast[n][2]>>
  BY <1>1, <1>2, <1>3, <1>4, <1>5, <1>9 DEF Meaning
<1>10. ASSUME NEW n \in DOMAIN ImpliedBase, NEW t, t[1] = n
       PROVE  Meaning(t) = <<ImpliedBase[n][1], t[2], ImpliedBase[n][2], t[3]>>
  BY <1>1, <1>2, <1>3, <1>4, <1>5, <1>10 DEF Meaning
<1>11. ASSUME NEW t, t[1] = "SUBI333" PROVE Meaning(t) = <<"ADDI", t[2], t[3], -t[4]>>
  BY <1>1, <1>2, <1>3, <1>4, <1>5, <1>11 DEF Meaning
<1>12. ASSUME NEW t, t[1] = "SUBI45" PROVE Meaning(t) = <<"ADDI", t[2], t[2], -t[3]>>
  BY <1>1, <1>2, <1>3, <1>4, <1>5, <1>12 DEF Meaning
<1>13. ASSUME NEW t, t[1] = "ADDI10S" PROVE Meaning(t) = <<"ADDI", 31, 31, t[2]>>
  BY <1>1, <1>2, <1>3, <1>4, <1>5, <1>13 DEF Meaning
<1>14. ASSUME NEW n \in DOMAIN SameOperands, NEW a
       PROVE  Meaning(<<n, a>>) = <<SameOperands[n], a>>
  <2>1. PICK t : t = <<n, a>>
    OBVIOUS
  <2>2. t[1] = n /\ Tail(t) = <<a>>
    BY <2>1
  <2>3. Meaning(t) = <<SameOperands[n]>> \o <<a>>
    BY <1>6, <2>2
  <2> QED
    BY <2>1, <2>3, DcTuples
<1>15. ASSUME NEW n \in DOMAIN SameOperands, NEW a, NEW b
       PROVE  Meaning(<<n, a, b>>) = <<SameOperands[n], a, b>>
  <2>1. PICK t : t = <<n, a, b>>
    OBVIOUS
  <2>2. t[1] = n /\ Tail(t) = <<a, b>>
    BY <2>1
  <2>3. Meaning(t) = <<SameOperands[n]>> \o <<a, b>>
    BY <1>6, <2>2
  <2> QED
    BY <2>1, <2>3, DcTuples
<1>16. ASSUME NEW n \in DOMAIN SameOperands, NEW a, NEW b, NEW c
       PROVE  Meaning(<<n, a, b, c>>) = <<SameOperands[n], a, b, c>>
  <2>1. PICK t : t = <<n, a, b, c>>
    OBVIOUS
  <2>2. t[1] = n /\ Tail(t) = <<a, b, c>>
    BY <2>1
  <2>3. Meaning(t) = <<SameOperands[n]>> \o <<a, b, c>>
    BY <1>6, <2>2
  <2> QED
    BY <2>1, <2>3, DcTuples
<1>17. ASSUME NEW n \in DOMAIN SourceIsTarget, NEW a, NEW b
       PROVE  Meaning(<<n, a, b>>) = <<SourceIsTarget[n], a, a, b>>
  <2>1. PICK t : t = <<n, a, b>>
    OBVIOUS
  <2>2. t[1] = n /\ t[2] = a /\ Tail(t) = <<a, b>>
    BY <2>1
  <2>3. Meaning(t) = <<SourceIsTarget[n], a>> \o <<a, b>>
    BY <1>7, <2>2
  <2> QED
    BY <2>1, <2>3, DcTuples
<1>18. ASSUME NEW n \in DOMAIN ImpliedTarget, NEW x, NEW y, ImpliedTarget[n] = <<x, y>>, NEW a
       PROVE  Meaning(<<n, a>>) = <<x, y, a>>
  <2>1. PICK t : t = <<n, a>>
    OBVIOUS
  <2>2. t[1] = n /\ Tail(t) = <<a>>
    BY <2>1
  <2>3. Meaning(t) = <<x, y>> \o <<a>>
    BY <1>8, <1>18, <2>2
  <2> QED
    BY <2>1, <2>3, DcTuples
<1>19. ASSUME NEW n \in DOMAIN ImpliedTarget, NEW x, NEW y, ImpliedTarget[n] = <<x, y>>,
              NEW a, NEW b
       PROVE  Meaning(<<n, a, b>>) = <<x, y, a, b>>
  <2>1. PICK t : t = <<n, a, b>>
    OBVIOUS
  <2>2. t[1] = n /\ Tail(t) = <<a, b>>
    BY <2>1
  <2>3. Meaning(t) = <<x, y>> \o <<a, b>>
    BY <1>8, <1>19, <2>2
  <2> QED
    BY <2>1, <2>3, DcTuples
<1>20. ASSUME NEW n \in DOMAIN ImpliedLast, NEW a, NEW b
       PROVE  Meaning(<<n, a, b>>) = <<ImpliedLast[n][1], a, b, ImpliedLast[n][2]>>
  <2>1. PICK t : t = <<n, a, b>>
    OBVIOUS
  <2>2. t[1] = n /\ t[2] = a /\ t[3] = b
    BY <2>1
  <2> QED
    BY <1>9, <2>1, <2>2
<1>21. ASSUME NEW n \in DOMAIN ImpliedBase, NEW a, NEW b
       PROVE  Meaning(<<n, a, b>>) = <<ImpliedBase[n][1], a, ImpliedBase[n][2], b>>
  <2>1. PICK t : t = <<n, a, b>>
    OBVIOUS
  <2>2. t[1] = n /\ t[2] = a /\ t[3] = b
    BY <2>1
  <2> QED
    BY <1>10, <2>1, <2>2
<1>22. \A a, b, c : Meaning(<<"SUBI333", a, b, c>>) = <<"ADDI", a, b, -c>>
  BY <1>11
<1>28. \A a, b : Meaning(<<"SUBI45", a, b>>) = <<"ADDI", a, a, -b>>
  BY <1>12
<1>29. \A a : Meaning(<<"ADDI10S", a>>) = <<"ADDI", 31, 31, a>>
  BY <1>13
<1>23. \A n \in DOMAIN SameOperands :
          /\ \A a : Meaning(<<n, a>>) = <<SameOperands[n], a>>
          /\ \A a, b : Meaning(<<n, a, b>>) = <<SameOperands[n], a, b>>
          /\ \A a, b, c : Meaning(<<n, a, b, c>>) = <<SameOperands[n], a, b, c>>
  BY <1>14, <1>15, <1>16
<1>24. \A n \in DOMAIN ImpliedTarget : \A x, y : ImpliedTarget[n] = <<x, y>> =>
          /\ \A a : Meaning(<<n, a>>) = <<x, y, a>>
          /\ \A a, b : Meaning(<<n, a, b>>) = <<x, y, a, b>>
  BY <1>18, <1>19
<1>25. \A n \in DOMAIN SourceIsTarget : \A a, b :
          Meaning(<<n, a, b>>) = <<SourceIsTarget[n], a, a, b>>
  BY <1>17
<1>26. \A n \in DOMAIN ImpliedLast : \A a, b :
          Meaning(<<n, a, b>>) = <<ImpliedLast[n][1], a, b, ImpliedLast[n][2]>>
  BY <1>20
<1>27. \A n \in DOMAIN ImpliedBase : \A a, b :
          Meaning(<<n, a, b>>) = <<ImpliedBase[n][1], a, ImpliedBase[n][2], b>>
  BY <1>21
<1> QED
  BY <1>22, <1>23, <1>24, <1>25, <1>26, <1>27, <1>28, <1>29

\* What simulate() makes of an instruction whose sub-opcode is known.
LEMMA DcExecuted ==
    ASSUME NEW k, NEW pc
    PROVE  /\ k.opc \in Opc32 \ HasSub /\ k.opc # "LHSI_bi"
                 => ExecutedOp(k, pc) = <<k.opc>> \o OperandImmediate(k)
           /\ \A n : /\ k.opc \in {"BR1", "BR2", "J", "JREG"} /\ Names(k.opc, k.sub) = {n}
                     /\ n \in Simulated[k.opc]
                     => ExecutedOp(k, pc) = <<n>> \o OperandBranch(k, n, pc)
           /\ \A n : /\ k.opc = "ALU_1" /\ Names(k.opc, k.sub) = {n} /\ n \in Simulated["ALU_1"]
                     => ExecutedOp(k, pc) = <<n>> \o OperandRegister(k, n)
<1>1. ASSUME k.opc \in Opc32 \ HasSub, k.opc # "LHSI_bi"
      PROVE  ExecutedOp(k, pc) = <<k.opc>> \o OperandImmediate(k)
  BY <1>1, DcRows DEF ExecutedOp, NotSimulated
<1>2. ASSUME NEW n, k.opc \in {"BR1", "BR2", "J", "JREG"}, Names(k.opc, k.sub) = {n},
             n \in Simulated[k.opc]
      PROVE  ExecutedOp(k, pc) = <<n>> \o OperandBranch(k, n, pc)
  <2>1. /\ k.opc \in HasSub /\ k.opc \notin NotSimulated \cup {"exit"}
        /\ Names(k.opc, k.sub) # {} /\ n = CHOOSE s \in Names(k.opc, k.sub) : TRUE
    BY <1>2, DcRows DEF NotSimulated
  <2> QED
    BY <1>2, <2>1, Zenon DEF ExecutedOp
<1>3. ASSUME NEW n, k.opc = "ALU_1", Names(k.opc, k.sub) = {n}, n \in Simulated["ALU_1"]
      PROVE  ExecutedOp(k, pc) = <<n>> \o OperandRegister(k, n)
  <2>1. /\ k.opc \in HasSub /\ k.opc \notin NotSimulated \cup {"exit"}
        /\ Names(k.opc, k.sub) # {} /\ n = CHOOSE s \in Names(k.opc, k.sub) : TRUE
    BY <1>3, DcRows DEF NotSimulated
  <2>2. k.opc \notin {"BR1", "BR2", "J", "JREG"} /\ n # "MTSR" /\ n \notin {"MFUSR", "MTUSR"}
    BY <1>3 DEF Simulated
  <2> QED
    BY <1>3, <2>1, <2>2, DcOperates
<1> QED
  BY <1>1, <1>2, <1>3

\* The rows of the 32-bit tables that translate_to_32 uses are found again.
LEMMA DcFound ==
    /\ \A n \in {"BEQ", "BNE"} :
          Names("BR1", opc32_sub_list["BR1"][n]) = {n} /\ n \in Simulated["BR1"]
    /\ \A n \in {"BEQZ", "BNEZ"} :
          Names("BR2", opc32_sub_list["BR2"][n]) = {n} /\ n \in Simulated["BR2"]
    /\ Names("J", 0) = {"J"} /\ "J" \in Simulated["J"]
    /\ \A n \in {"JR", "RET", "JRAL"} :
          Names("JREG", opc32_sub_list["JREG"][n]) = {n} /\ n \in Simulated["JREG"]
    /\ \A n \in {"ADD", "SUB", "SRAI", "SRLI", "SLLI", "ZEH", "SEB", "SEH", "SLT", "SLTS"} :
          Names("ALU_1", opc32_sub_list["ALU_1"][n]) = {n} /\ n \in Simulated["ALU_1"]
<1>1. ASSUME NEW n \in {"BEQ", "BNE"}
      PROVE  Names("BR1", opc32_sub_list["BR1"][n]) = {n} /\ n \in Simulated["BR1"]
  BY <1>1, DcRows DEF Names, opc32_sub_list, Simulated
<1>2. ASSUME NEW n \in {"BEQZ", "BNEZ"}
      PROVE  Names("BR2", opc32_sub_list["BR2"][n]) = {n} /\ n \in Simulated["BR2"]
  BY <1>2, DcRows DEF Names, opc32_sub_list, Simulated
<1>3. ASSUME NEW n \in {"JR", "RET", "JRAL"}
      PROVE  Names("JREG", opc32_sub_list["JREG"][n]) = {n} /\ n \in Simulated["JREG"]
  BY <1>3, DcRows DEF Names, opc32_sub_list, Simulated
<1>4. ASSUME NEW n \in {"ADD", "SUB", "SRAI", "SRLI", "SLLI", "ZEH", "SEB", "SEH", "SLT", "SLTS"}
      PROVE  Names("ALU_1", opc32_sub_list["ALU_1"][n]) = {n} /\ n \in Simulated["ALU_1"]
  BY <1>4, DcRows, SMTT(60) DEF Names, opc32_sub_list, Simulated
<1>5. Names("J", 0) = {"J"} /\ "J" \in Simulated["J"]
  BY DcRows DEF Names, opc32_sub_list, Simulated
<1> QED
  BY <1>1, <1>2, <1>3, <1>4, <1>5

\* Fields of an instruction that translate_to_32 leaves as they are.
DcKept(i, k) ==
    /\ DOMAIN k = DcFields /\ k.rb = i.rb /\ k.imm1_5 = i.imm1_5 /\ k.imm1_3 = i.imm1_3
    /\ k.imm1_7 = i.imm1_7 /\ k.imm1_8 = i.imm1_8 /\ k.imm1_10 = i.imm1_10

\* Another opcode, with a sub-opcode of its own.
LEMMA DcAs ==
    ASSUME NEW i, DOMAIN i = DcFields, NEW o, NEW k, k = As(i, o)
    PROVE  DcKept(i, k) /\ k.opc = o /\ k.sub = i.sub /\ k.rt = i.rt /\ k.ra = i.ra
BY DEF As, DcKept, DcFields, InstrFields

LEMMA DcAsSub ==
    ASSUME NEW i, DOMAIN i = DcFields, NEW o, NEW n, NEW k, k = AsSub(i, o, n)
    PROVE  /\ DcKept(i, k) /\ k.opc = o /\ k.sub = opc32_sub_list[o][n]
           /\ k.rt = i.rt /\ k.ra = i.ra
<1>1. PICK s : s = opc32_sub_list[o][n]
  OBVIOUS
<1>2. k = [i EXCEPT !.opc = o, !.sub = s]
  BY <1>1 DEF AsSub
<1>3. DcKept(i, k) /\ k.opc = o /\ k.sub = s /\ k.rt = i.rt /\ k.ra = i.ra
  BY <1>2 DEF DcKept, DcFields, InstrFields
<1> QED
  BY <1>1, <1>3

\* Registers named twice, or implied.
LEMMA DcTwice ==
    ASSUME NEW i, DOMAIN i = DcFields, NEW k, k = Twice(i)
    PROVE  DcKept(i, k) /\ k.rt = reg_4T5(i.rt) /\ k.ra = reg_4T5(i.rt)
<1>1. PICK r : r = reg_4T5(i.rt)
  OBVIOUS
<1>2. k = [i EXCEPT !.rt = r, !.ra = r]
  BY <1>1 DEF Twice
<1>3. DcKept(i, k) /\ k.rt = r /\ k.ra = r
  BY <1>2 DEF DcKept, DcFields, InstrFields
<1> QED
  BY <1>1, <1>3

LEMMA DcCompared ==
    ASSUME NEW i, DOMAIN i = DcFields, NEW k, k = Compared(i)
    PROVE  DcKept(i, k) /\ k.rt = 15 /\ k.ra = reg_4T5(i.ra)
<1>1. PICK r : r = reg_4T5(i.ra)
  OBVIOUS
<1>2. k = [i EXCEPT !.ra = r, !.rt = 15]
  BY <1>1 DEF Compared
<1>3. DcKept(i, k) /\ k.rt = 15 /\ k.ra = r
  BY <1>2 DEF DcKept, DcFields, InstrFields
<1> QED
  BY <1>1, <1>3

----------------------------------------------------------------------------
(* Form by form: the operation that simulate() makes of the translation is  *)
(* the meaning of what disassm16 shows.                                    *)

\* A decoded 16-bit word i and what disassm16 gets of it, j: the opcode or the
\* sub-opcode gives the name n.
DcPair(i, j, n) ==
    /\ DcShape16(i)
    /\ \/ i.opc \notin DOMAIN opc16_sub_list /\ j = i /\ n = i.opc
       \/ /\ i.opc \in DOMAIN opc16_sub_list /\ j = [i EXCEPT !.mnemonic = n]
          /\ n \in DOMAIN opc16_sub_list[i.opc] /\ opc16_sub_list[i.opc][n] = i.sub

LEMMA DcPairFacts ==
    ASSUME NEW i, NEW j, NEW n, DcPair(i, j, n)
    PROVE  /\ DOMAIN i = DcFields /\ j.opc = i.opc /\ j.mnemonic = n /\ j.rt = i.rt /\ j.ra = i.ra
           /\ j.rb = i.rb /\ j.imm1_10 = i.imm1_10 /\ j.imm1_8 = i.imm1_8 /\ j.imm1_7 = i.imm1_7
           /\ j.imm1_5 = i.imm1_5 /\ j.imm1_3 = i.imm1_3
           /\ i.imm1_10 \in 0 .. 1023 /\ i.imm1_8 \in 0 .. 255 /\ i.imm1_7 \in 0 .. 127
           /\ i.imm1_5 \in 0 .. 31 /\ i.imm1_3 \in 0 .. 7
           /\ i.opc = "J8" => i.sub = 0
           /\ i.opc \notin {"BFMI333", "XWI37", "XWI37SP"} => n = i.opc
           /\ i.opc = "XWI37" => \/ i.sub = 0 /\ n = "LWI37"
                                 \/ i.sub = 1 /\ n = "SWI37"
           /\ i.opc = "XWI37SP" => \/ i.sub = 0 /\ n = "LWI37SP"
                                   \/ i.sub = 1 /\ n = "SWI37SP"
           /\ i.opc = "BFMI333" => \/ i.sub = 0 /\ n = "ZEB33"
                                   \/ i.sub = 1 /\ n = "ZEH33"
                                   \/ i.sub = 2 /\ n = "SEB33"
                                   \/ i.sub = 3 /\ n = "SEH33"
                                   \/ i.sub = 4 /\ n = "XLSB33"
<1>1. DOMAIN opc16_sub_list = {"BFMI333", "XWI37", "XWI37SP"}
  BY DcTypes16
<1>2. /\ opc16_sub_list["XWI37"] = [LWI37 |-> 0, SWI37 |-> 1]
      /\ opc16_sub_list["XWI37SP"] = [LWI37SP |-> 0, SWI37SP |-> 1]
      /\ opc16_sub_list["BFMI333"] =
            [SEB33 |-> 2, SEH33 |-> 3, ZEB33 |-> 0, ZEH33 |-> 1, XLSB33 |-> 4]
  BY DEF opc16_sub_list
<1>3. /\ DOMAIN i = DcFields /\ i.mnemonic = i.opc
      /\ i.imm1_10 \in 0 .. 1023 /\ i.imm1_8 \in 0 .. 255 /\ i.imm1_7 \in 0 .. 127
      /\ i.imm1_5 \in 0 .. 31 /\ i.imm1_3 \in 0 .. 7
      /\ i.opc = "J8" => i.sub = 0
  BY DEF DcPair, DcShape16
<1>4. /\ j.opc = i.opc /\ j.mnemonic = n /\ j.rt = i.rt /\ j.ra = i.ra
      /\ j.rb = i.rb /\ j.imm1_10 = i.imm1_10 /\ j.imm1_8 = i.imm1_8 /\ j.imm1_7 = i.imm1_7
      /\ j.imm1_5 = i.imm1_5 /\ j.imm1_3 = i.imm1_3
  <2>1. CASE j = i /\ n = i.opc
    BY <1>3, <2>1
  <2>2. CASE j = [i EXCEPT !.mnemonic = n]
    BY <1>3, <2>2 DEF DcFields, InstrFields
  <2> QED
    BY <2>1, <2>2 DEF DcPair
<1>5. i.opc \notin {"BFMI333", "XWI37", "XWI37SP"} => n = i.opc
  BY <1>1 DEF DcPair
<1>6. i.opc = "XWI37" => \/ i.sub = 0 /\ n = "LWI37"
                         \/ i.sub = 1 /\ n = "SWI37"
  BY <1>1, <1>2 DEF DcPair
<1>7. i.opc = "XWI37SP" => \/ i.sub = 0 /\ n = "LWI37SP"
                           \/ i.sub = 1 /\ n = "SWI37SP"
  BY <1>1, <1>2 DEF DcPair
<1>8. i.opc = "BFMI333" => \/ i.sub = 0 /\ n = "ZEB33"
                           \/ i.sub = 1 /\ n = "ZEH33"
                           \/ i.sub = 2 /\ n = "SEB33"
                           \/ i.sub = 3 /\ n = "SEH33"
                           \/ i.sub = 4 /\ n = "XLSB33"
  BY <1>1, <1>2 DEF DcPair
<1> QED
  BY <1>3, <1>4, <1>5, <1>6, <1>7, <1>8

\* The operation simulate() carries out, by the operands it uses.
LEMMA DcRun ==
    ASSUME NEW k, NEW pc
    PROVE  /\ (k.opc \in Opc32 \ HasSub /\ k.opc # "LHSI_bi") =>
                /\ \A a, b : OperandImmediate(k) = <<a, b>> => ExecutedOp(k, pc) = <<k.opc, a, b>>
                /\ \A a, b, c : OperandImmediate(k) = <<a, b, c>>
                                  => ExecutedOp(k, pc) = <<k.opc, a, b, c>>
           /\ \A n : (k.opc \in {"BR1", "BR2", "J", "JREG"} /\ Names(k.opc, k.sub) = {n}
                     /\ n \in Simulated[k.opc]) =>
                /\ \A a : OperandBranch(k, n, pc) = <<a>> => ExecutedOp(k, pc) = <<n, a>>
                /\ \A a, b : OperandBranch(k, n, pc) = <<a, b>> => ExecutedOp(k, pc) = <<n, a, b>>
                /\ \A a, b, c : OperandBranch(k, n, pc) = <<a, b, c>>
                                  => ExecutedOp(k, pc) = <<n, a, b, c>>
           /\ \A n : (k.opc = "ALU_1" /\ Names(k.opc, k.sub) = {n} /\ n \in Simulated["ALU_1"]) =>
                /\ \A a, b : OperandRegister(k, n) = <<a, b>> => ExecutedOp(k, pc) = <<n, a, b>>
                /\ \A a, b, c : OperandRegister(k, n) = <<a, b, c>>
                                  => ExecutedOp(k, pc) = <<n, a, b, c>>
<1>1. ASSUME k.opc \in Opc32 \ HasSub, k.opc # "LHSI_bi"
      PROVE  /\ \A a, b : OperandImmediate(k) = <<a, b>> => ExecutedOp(k, pc) = <<k.opc, a, b>>
             /\ \A a, b, c : OperandImmediate(k) = <<a, b, c>>
                                  => ExecutedOp(k, pc) = <<k.opc, a, b, c>>
  <2>1. ExecutedOp(k, pc) = <<k.opc>> \o OperandImmediate(k)
    BY <1>1, DcExecuted
  <2> QED
    BY <2>1, DcTuples
<1>2. ASSUME NEW n, k.opc \in {"BR1", "BR2", "J", "JREG"}, Names(k.opc, k.sub) = {n},
             n \in Simulated[k.opc]
      PROVE  /\ \A a : OperandBranch(k, n, pc) = <<a>> => ExecutedOp(k, pc) = <<n, a>>
             /\ \A a, b : OperandBranch(k, n, pc) = <<a, b>> => ExecutedOp(k, pc) = <<n, a, b>>
             /\ \A a, b, c : OperandBranch(k, n, pc) = <<a, b, c>>
                                  => ExecutedOp(k, pc) = <<n, a, b, c>>
  <2>1. ExecutedOp(k, pc) = <<n>> \o OperandBranch(k, n, pc)
    BY <1>2, DcExecuted
  <2> QED
    BY <2>1, DcTuples
<1>3. ASSUME NEW n, k.opc = "ALU_1", Names(k.opc, k.sub) = {n}, n \in Simulated["ALU_1"]
      PROVE  /\ \A a, b : OperandRegister(k, n) = <<a, b>> => ExecutedOp(k, pc) = <<n, a, b>>
             /\ \A a, b, c : OperandRegister(k, n) = <<a, b, c>>
                                  => ExecutedOp(k, pc) = <<n, a, b, c>>
  <2>1. ExecutedOp(k, pc) = <<n>> \o OperandRegister(k, n)
    BY <1>3, DcExecuted
  <2> QED
    BY <2>1, DcTuples
<1> QED
  BY <1>1, <1>2, <1>3

\* Branches with r5 or zero, and words at fp or sp.
LEMMA DcForms4 ==
    ASSUME NEW i, NEW j, NEW n, NEW pc, DcPair(i, j, n),
           i.opc \in {"BEQS38", "BNES38", "BEQZ38", "BNEZ38", "XWI37", "XWI37SP"}
    PROVE  ExecutedOp(Translate4(i), pc) = Meaning(Text16(j, pc))
<1>1. DOMAIN i = DcFields
  BY DcPairFacts
<1>2. ASSUME i.opc = "BEQS38"
      PROVE  ExecutedOp(Translate4(i), pc) = Meaning(Text16(j, pc))
  <2>1. PICK t : t = SignExtend(i.imm1_8 * 2, 9, 32) + pc
    OBVIOUS
  <2>2. PICK z : z = AsSub(i, "BR1", "BEQ")
    OBVIOUS
  <2>3. /\ DOMAIN z = DcFields
        /\ z.opc = "BR1"
        /\ z.sub = opc32_sub_list["BR1"]["BEQ"]
        /\ z.rt = i.rt
    <3>1. /\ DcKept(i, z) /\ z.opc = "BR1" /\ z.sub = opc32_sub_list["BR1"]["BEQ"]
          /\ z.rt = i.rt /\ z.ra = i.ra
      BY <1>1, <2>2, DcAsSub
    <3> QED
      BY <3>1 DEF DcKept
  <2>4. PICK k : k = [z EXCEPT !.ra = 5, !.imm1_14 = SignExtend(i.imm1_8, 8, 14)]
    OBVIOUS
  <2>5. /\ k.opc = "BR1"
        /\ k.sub = opc32_sub_list["BR1"]["BEQ"]
        /\ k.rt = i.rt
        /\ k.ra = 5
        /\ k.imm1_14 = SignExtend(i.imm1_8, 8, 14)
    BY <2>3, <2>4 DEF DcFields, InstrFields
  <2>6. Translate4(i) = k
    BY <1>2, <2>2, <2>4 DEF Translate4
  <2>7. OperandBranch(k, "BEQ", pc) = <<i.rt, 5, t>>
    BY <2>5, <2>1, DcPairFacts, DcExtends DEF OperandBranch
  <2>8. Names(k.opc, k.sub) = {"BEQ"} /\ "BEQ" \in Simulated[k.opc]
    BY <2>5, DcFound
  <2>9. ExecutedOp(k, pc) = <<"BEQ", i.rt, 5, t>>
    BY <2>5, <2>7, <2>8, DcRun
  <2>10. Text16(j, pc) = <<"BEQS38", i.rt, t>>
    BY <1>2, <2>1, DcPairFacts DEF Text16
  <2>11. Meaning(<<"BEQS38", i.rt, t>>) = <<"BEQ", i.rt, 5, t>>
    BY DcMeaning16 DEF ImpliedBase
  <2> QED
    BY <2>6, <2>9, <2>10, <2>11
<1>3. ASSUME i.opc = "BNES38"
      PROVE  ExecutedOp(Translate4(i), pc) = Meaning(Text16(j, pc))
  <2>1. PICK t : t = SignExtend(i.imm1_8 * 2, 9, 32) + pc
    OBVIOUS
  <2>2. PICK z : z = AsSub(i, "BR1", "BNE")
    OBVIOUS
  <2>3. /\ DOMAIN z = DcFields
        /\ z.opc = "BR1"
        /\ z.sub = opc32_sub_list["BR1"]["BNE"]
        /\ z.rt = i.rt
    <3>1. /\ DcKept(i, z) /\ z.opc = "BR1" /\ z.sub = opc32_sub_list["BR1"]["BNE"]
          /\ z.rt = i.rt /\ z.ra = i.ra
      BY <1>1, <2>2, DcAsSub
    <3> QED
      BY <3>1 DEF DcKept
  <2>4. PICK k : k = [z EXCEPT !.ra = 5, !.imm1_14 = SignExtend(i.imm1_8, 8, 14)]
    OBVIOUS
  <2>5. /\ k.opc = "BR1"
        /\ k.sub = opc32_sub_list["BR1"]["BNE"]
        /\ k.rt = i.rt
        /\ k.ra = 5
        /\ k.imm1_14 = SignExtend(i.imm1_8, 8, 14)
    BY <2>3, <2>4 DEF DcFields, InstrFields
  <2>6. Translate4(i) = k
    BY <1>3, <2>2, <2>4 DEF Translate4
  <2>7. OperandBranch(k, "BNE", pc) = <<i.rt, 5, t>>
    BY <2>5, <2>1, DcPairFacts, DcExtends DEF OperandBranch
  <2>8. Names(k.opc, k.sub) = {"BNE"} /\ "BNE" \in Simulated[k.opc]
    BY <2>5, DcFound
  <2>9. ExecutedOp(k, pc) = <<"BNE", i.rt, 5, t>>
    BY <2>5, <2>7, <2>8, DcRun
  <2>10. Text16(j, pc) = <<"BNES38", i.rt, t>>
    BY <1>3, <2>1, DcPairFacts DEF Text16
  <2>11. Meaning(<<"BNES38", i.rt, t>>) = <<"BNE", i.rt, 5, t>>
    BY DcMeaning16 DEF ImpliedBase
  <2> QED
    BY <2>6, <2>9, <2>10, <2>11
<1>4. ASSUME i.opc = "BEQZ38"
      PROVE  ExecutedOp(Translate4(i), pc) = Meaning(Text16(j, pc))
  <2>1. PICK t : t = SignExtend(i.imm1_8 * 2, 9, 32) + pc
    OBVIOUS
  <2>2. PICK z : z = AsSub(i, "BR2", "BEQZ")
    OBVIOUS
  <2>3. /\ DOMAIN z = DcFields
        /\ z.opc = "BR2"
        /\ z.sub = opc32_sub_list["BR2"]["BEQZ"]
        /\ z.rt = i.rt
    <3>1. /\ DcKept(i, z) /\ z.opc = "BR2" /\ z.sub = opc32_sub_list["BR2"]["BEQZ"]
          /\ z.rt = i.rt /\ z.ra = i.ra
      BY <1>1, <2>2, DcAsSub
    <3> QED
      BY <3>1 DEF DcKept
  <2>4. PICK k : k = [z EXCEPT !.imm1_16 = SignExtend(i.imm1_8, 8, 20)]
    OBVIOUS
  <2>5. /\ k.opc = "BR2"
        /\ k.sub = opc32_sub_list["BR2"]["BEQZ"]
        /\ k.rt = i.rt
        /\ k.imm1_16 = SignExtend(i.imm1_8, 8, 20)
    BY <2>3, <2>4 DEF DcFields, InstrFields
  <2>6. Translate4(i) = k
    BY <1>4, <2>2, <2>4 DEF Translate4
  <2>7. OperandBranch(k, "BEQZ", pc) = <<i.rt, t>>
    BY <2>5, <2>1, DcPairFacts, DcExtends DEF OperandBranch
  <2>8. Names(k.opc, k.sub) = {"BEQZ"} /\ "BEQZ" \in Simulated[k.opc]
    BY <2>5, DcFound
  <2>9. ExecutedOp(k, pc) = <<"BEQZ", i.rt, t>>
    BY <2>5, <2>7, <2>8, DcRun
  <2>10. Text16(j, pc) = <<"BEQZ38", i.rt, t>>
    BY <1>4, <2>1, DcPairFacts DEF Text16
  <2>11. Meaning(<<"BEQZ38", i.rt, t>>) = <<"BEQZ", i.rt, t>>
    BY DcMeaning16 DEF SameOperands
  <2> QED
    BY <2>6, <2>9, <2>10, <2>11
<1>5. ASSUME i.opc = "BNEZ38"
      PROVE  ExecutedOp(Translate4(i), pc) = Meaning(Text16(j, pc))
  <2>1. PICK t : t = SignExtend(i.imm1_8 * 2, 9, 32) + pc
    OBVIOUS
  <2>2. PICK z : z = AsSub(i, "BR2", "BNEZ")
    OBVIOUS
  <2>3. /\ DOMAIN z = DcFields
        /\ z.opc = "BR2"
        /\ z.sub = opc32_sub_list["BR2"]["BNEZ"]
        /\ z.rt = i.rt
    <3>1. /\ DcKept(i, z) /\ z.opc = "BR2" /\ z.sub = opc32_sub_list["BR2"]["BNEZ"]
          /\ z.rt = i.rt /\ z.ra = i.ra
      BY <1>1, <2>2, DcAsSub
    <3> QED
      BY <3>1 DEF DcKept
  <2>4. PICK k : k = [z EXCEPT !.imm1_16 = SignExtend(i.imm1_8, 8, 20)]
    OBVIOUS
  <2>5. /\ k.opc = "BR2"
        /\ k.sub = opc32_sub_list["BR2"]["BNEZ"]
        /\ k.rt = i.rt
        /\ k.imm1_16 = SignExtend(i.imm1_8, 8, 20)
    BY <2>3, <2>4 DEF DcFields, InstrFields
  <2>6. Translate4(i) = k
    BY <1>5, <2>2, <2>4 DEF Translate4
  <2>7. OperandBranch(k, "BNEZ", pc) = <<i.rt, t>>
    BY <2>5, <2>1, DcPairFacts, DcExtends DEF OperandBranch
  <2>8. Names(k.opc, k.sub) = {"BNEZ"} /\ "BNEZ" \in Simulated[k.opc]
    BY <2>5, DcFound
  <2>9. ExecutedOp(k, pc) = <<"BNEZ", i.rt, t>>
    BY <2>5, <2>7, <2>8, DcRun
  <2>10. Text16(j, pc) = <<"BNEZ38", i.rt, t>>
    BY <1>5, <2>1, DcPairFacts DEF Text16
  <2>11. Meaning(<<"BNEZ38", i.rt, t>>) = <<"BNEZ", i.rt, t>>
    BY DcMeaning16 DEF SameOperands
  <2> QED
    BY <2>6, <2>9, <2>10, <2>11
<1>6. ASSUME i.opc = "XWI37", n = "LWI37"
      PROVE  ExecutedOp(Translate4(i), pc) = Meaning(Text16(j, pc))
  <2>1. PICK z : z = As(i, "LWI")
    OBVIOUS
  <2>2. /\ DOMAIN z = DcFields
        /\ z.opc = "LWI"
        /\ z.rt = i.rt
    <3>1. /\ DcKept(i, z) /\ z.opc = "LWI" /\ z.sub = i.sub
          /\ z.rt = i.rt /\ z.ra = i.ra
      BY <1>1, <2>1, DcAs
    <3> QED
      BY <3>1 DEF DcKept
  <2>3. PICK k : k = [z EXCEPT !.ra = 28, !.imm1_15 = i.imm1_7]
    OBVIOUS
  <2>4. /\ k.opc = "LWI"
        /\ k.rt = i.rt
        /\ k.ra = 28
        /\ k.imm1_15 = i.imm1_7
    BY <2>2, <2>3 DEF DcFields, InstrFields
  <2>5. i.sub = 0
    BY <1>6, DcPairFacts
  <2>6. /\ (IF i.sub = 0 THEN "LWI" ELSE "SWI") = "LWI"
        /\ (IF i.opc = "XWI37" THEN 28 ELSE 31) = 28
    BY <1>6, <2>5
  <2>7. Translate4(i) = k
    BY <1>6, <2>1, <2>3, <2>5, <2>6 DEF Translate4
  <2>8. OperandImmediate(k) = <<i.rt, 28, i.imm1_7 * 4>>
    BY <2>4, DcPairFacts, DcExtends DEF OperandImmediate
  <2>9. ExecutedOp(k, pc) = <<"LWI", i.rt, 28, i.imm1_7 * 4>>
    BY <2>4, <2>8, DcRows, DcRun
  <2>10. Text16(j, pc) = <<"LWI37", i.rt, i.imm1_7 * 4>>
    BY <1>6, DcPairFacts DEF Text16
  <2>11. Meaning(<<"LWI37", i.rt, i.imm1_7 * 4>>) = <<"LWI", i.rt, 28, i.imm1_7 * 4>>
    BY DcMeaning16 DEF ImpliedBase
  <2> QED
    BY <2>7, <2>9, <2>10, <2>11
<1>7. ASSUME i.opc = "XWI37", n = "SWI37"
      PROVE  ExecutedOp(Translate4(i), pc) = Meaning(Text16(j, pc))
  <2>1. PICK z : z = As(i, "SWI")
    OBVIOUS
  <2>2. /\ DOMAIN z = DcFields
        /\ z.opc = "SWI"
        /\ z.rt = i.rt
    <3>1. /\ DcKept(i, z) /\ z.opc = "SWI" /\ z.sub = i.sub
          /\ z.rt = i.rt /\ z.ra = i.ra
      BY <1>1, <2>1, DcAs
    <3> QED
      BY <3>1 DEF DcKept
  <2>3. PICK k : k = [z EXCEPT !.ra = 28, !.imm1_15 = i.imm1_7]
    OBVIOUS
  <2>4. /\ k.opc = "SWI"
        /\ k.rt = i.rt
        /\ k.ra = 28
        /\ k.imm1_15 = i.imm1_7
    BY <2>2, <2>3 DEF DcFields, InstrFields
  <2>5. i.sub = 1
    BY <1>7, DcPairFacts
  <2>6. /\ (IF i.sub = 0 THEN "LWI" ELSE "SWI") = "SWI"
        /\ (IF i.opc = "XWI37" THEN 28 ELSE 31) = 28
    BY <1>7, <2>5
  <2>7. Translate4(i) = k
    BY <1>7, <2>1, <2>3, <2>5, <2>6 DEF Translate4
  <2>8. OperandImmediate(k) = <<i.rt, 28, i.imm1_7 * 4>>
    BY <2>4, DcPairFacts, DcExtends DEF OperandImmediate
  <2>9. ExecutedOp(k, pc) = <<"SWI", i.rt, 28, i.imm1_7 * 4>>
    BY <2>4, <2>8, DcRows, DcRun
  <2>10. Text16(j, pc) = <<"SWI37", i.rt, i.imm1_7 * 4>>
    BY <1>7, DcPairFacts DEF Text16
  <2>11. Meaning(<<"SWI37", i.rt, i.imm1_7 * 4>>) = <<"SWI", i.rt, 28, i.imm1_7 * 4>>
    BY DcMeaning16 DEF ImpliedBase
  <2> QED
    BY <2>7, <2>9, <2>10, <2>11
<1>8. ASSUME i.opc = "XWI37SP", n = "LWI37SP"
      PROVE  ExecutedOp(Translate4(i), pc) = Meaning(Text16(j, pc))
  <2>1. PICK z : z = As(i, "LWI")
    OBVIOUS
  <2>2. /\ DOMAIN z = DcFields
        /\ z.opc = "LWI"
        /\ z.rt = i.rt
    <3>1. /\ DcKept(i, z) /\ z.opc = "LWI" /\ z.sub = i.sub
          /\ z.rt = i.rt /\ z.ra = i.ra
      BY <1>1, <2>1, DcAs
    <3> QED
      BY <3>1 DEF DcKept
  <2>3. PICK k : k = [z EXCEPT !.ra = 31, !.imm1_15 = i.imm1_7]
    OBVIOUS
  <2>4. /\ k.opc = "LWI"
        /\ k.rt = i.rt
        /\ k.ra = 31
        /\ k.imm1_15 = i.imm1_7
    BY <2>2, <2>3 DEF DcFields, InstrFields
  <2>5. i.sub = 0
    BY <1>8, DcPairFacts
  <2>6. /\ (IF i.sub = 0 THEN "LWI" ELSE "SWI") = "LWI"
        /\ (IF i.opc = "XWI37" THEN 28 ELSE 31) = 31
    BY <1>8, <2>5
  <2>7. Translate4(i) = k
    BY <1>8, <2>1, <2>3, <2>5, <2>6 DEF Translate4
  <2>8. OperandImmediate(k) = <<i.rt, 31, i.imm1_7 * 4>>
    BY <2>4, DcPairFacts, DcExtends DEF OperandImmediate
  <2>9. ExecutedOp(k, pc) = <<"LWI", i.rt, 31, i.imm1_7 * 4>>
    BY <2>4, <2>8, DcRows, DcRun
  <2>10. Text16(j, pc) = <<"LWI37SP", i.rt, i.imm1_7 * 4>>
    BY <1>8, DcPairFacts DEF Text16
  <2>11. Meaning(<<"LWI37SP", i.rt, i.imm1_7 * 4>>) = <<"LWI", i.rt, 31, i.imm1_7 * 4>>
    BY DcMeaning16 DEF ImpliedBase
  <2> QED
    BY <2>7, <2>9, <2>10, <2>11
<1>9. ASSUME i.opc = "XWI37SP", n = "SWI37SP"
      PROVE  ExecutedOp(Translate4(i), pc) = Meaning(Text16(j, pc))
  <2>1. PICK z : z = As(i, "SWI")
    OBVIOUS
  <2>2. /\ DOMAIN z = DcFields
        /\ z.opc = "SWI"
        /\ z.rt = i.rt
    <3>1. /\ DcKept(i, z) /\ z.opc = "SWI" /\ z.sub = i.sub
          /\ z.rt = i.rt /\ z.ra = i.ra
      BY <1>1, <2>1, DcAs
    <3> QED
      BY <3>1 DEF DcKept
  <2>3. PICK k : k = [z EXCEPT !.ra = 31, !.imm1_15 = i.imm1_7]
    OBVIOUS
  <2>4. /\ k.opc = "SWI"
        /\ k.rt = i.rt
        /\ k.ra = 31
        /\ k.imm1_15 = i.imm1_7
    BY <2>2, <2>3 DEF DcFields, InstrFields
  <2>5. i.sub = 1
    BY <1>9, DcPairFacts
  <2>6. /\ (IF i.sub = 0 THEN "LWI" ELSE "SWI") = "SWI"
        /\ (IF i.opc = "XWI37" THEN 28 ELSE 31) = 31
    BY <1>9, <2>5
  <2>7. Translate4(i) = k
    BY <1>9, <2>1, <2>3, <2>5, <2>6 DEF Translate4
  <2>8. OperandImmediate(k) = <<i.rt, 31, i.imm1_7 * 4>>
    BY <2>4, DcPairFacts, DcExtends DEF OperandImmediate
  <2>9. ExecutedOp(k, pc) = <<"SWI", i.rt, 31, i.imm1_7 * 4>>
    BY <2>4, <2>8, DcRows, DcRun
  <2>10. Text16(j, pc) = <<"SWI37SP", i.rt, i.imm1_7 * 4>>
    BY <1>9, DcPairFacts DEF Text16
  <2>11. Meaning(<<"SWI37SP", i.rt, i.imm1_7 * 4>>) = <<"SWI", i.rt, 31, i.imm1_7 * 4>>
    BY DcMeaning16 DEF ImpliedBase
  <2> QED
    BY <2>7, <2>9, <2>10, <2>11
<1> QED
  BY <1>2, <1>3, <1>4, <1>5, <1>6, <1>7, <1>8, <1>9, DcPairFacts

\* Constants, copies and the stack pointer.
LEMMA DcForms5 ==
    ASSUME NEW i, NEW j, NEW n, NEW pc, DcPair(i, j, n),
           i.opc \in {"MOVI55", "MOV55", "ADDI10S"}
    PROVE  ExecutedOp(Translate5(i), pc) = Meaning(Text16(j, pc))
<1>1. DOMAIN i = DcFields
  BY DcPairFacts
<1>2. ASSUME i.opc = "MOVI55"
      PROVE  ExecutedOp(Translate5(i), pc) = Meaning(Text16(j, pc))
  <2>1. PICK z : z = As(i, "MOVI")
    OBVIOUS
  <2>2. /\ DOMAIN z = DcFields
        /\ z.opc = "MOVI"
        /\ z.rt = i.rt
    <3>1. /\ DcKept(i, z) /\ z.opc = "MOVI" /\ z.sub = i.sub
          /\ z.rt = i.rt /\ z.ra = i.ra
      BY <1>1, <2>1, DcAs
    <3> QED
      BY <3>1 DEF DcKept
  <2>3. PICK k : k = [z EXCEPT !.imm1_20 = SignExtend(i.imm1_5, 5, 20)]
    OBVIOUS
  <2>4. /\ k.opc = "MOVI"
        /\ k.rt = i.rt
        /\ k.imm1_20 = SignExtend(i.imm1_5, 5, 20)
    BY <2>2, <2>3 DEF DcFields, InstrFields
  <2>5. Translate5(i) = k
    BY <1>2, <2>1, <2>3 DEF Translate5
  <2>6. OperandImmediate(k) = <<i.rt, SignExtend(i.imm1_5, 5, 32)>>
    BY <2>4, DcPairFacts, DcExtends DEF OperandImmediate
  <2>7. ExecutedOp(k, pc) = <<"MOVI", i.rt, SignExtend(i.imm1_5, 5, 32)>>
    BY <2>4, <2>6, DcRows, DcRun
  <2>8. Text16(j, pc) = <<"MOVI55", i.rt, SignExtend(i.imm1_5, 5, 32)>>
    BY <1>2, DcPairFacts DEF Text16
  <2>9. Meaning(<<"MOVI55", i.rt, SignExtend(i.imm1_5, 5, 32)>>) = <<"MOVI", i.rt, SignExtend(i.imm1_5, 5, 32)>>
    BY DcMeaning16 DEF SameOperands
  <2> QED
    BY <2>5, <2>7, <2>8, <2>9
<1>3. ASSUME i.opc = "MOV55"
      PROVE  ExecutedOp(Translate5(i), pc) = Meaning(Text16(j, pc))
  <2>1. PICK z : z = As(i, "ADDI")
    OBVIOUS
  <2>2. /\ DOMAIN z = DcFields
        /\ z.opc = "ADDI"
        /\ z.rt = i.rt
        /\ z.ra = i.ra
    <3>1. /\ DcKept(i, z) /\ z.opc = "ADDI" /\ z.sub = i.sub
          /\ z.rt = i.rt /\ z.ra = i.ra
      BY <1>1, <2>1, DcAs
    <3> QED
      BY <3>1 DEF DcKept
  <2>3. PICK k : k = [z EXCEPT !.imm1_15 = 0]
    OBVIOUS
  <2>4. /\ k.opc = "ADDI"
        /\ k.rt = i.rt
        /\ k.ra = i.ra
        /\ k.imm1_15 = 0
    BY <2>2, <2>3 DEF DcFields, InstrFields
  <2>5. Translate5(i) = k
    BY <1>3, <2>1, <2>3 DEF Translate5
  <2>6. OperandImmediate(k) = <<i.rt, i.ra, 0>>
    BY <2>4, DcPairFacts, DcExtends DEF OperandImmediate
  <2>7. ExecutedOp(k, pc) = <<"ADDI", i.rt, i.ra, 0>>
    BY <2>4, <2>6, DcRows, DcRun
  <2>8. Text16(j, pc) = <<"MOV55", i.rt, i.ra>>
    BY <1>3, DcPairFacts DEF Text16
  <2>9. Meaning(<<"MOV55", i.rt, i.ra>>) = <<"ADDI", i.rt, i.ra, 0>>
    BY DcMeaning16 DEF ImpliedLast
  <2> QED
    BY <2>5, <2>7, <2>8, <2>9
<1>4. ASSUME i.opc = "ADDI10S"
      PROVE  ExecutedOp(Translate5(i), pc) = Meaning(Text16(j, pc))
  <2>1. PICK z : z = As(i, "ADDI")
    OBVIOUS
  <2>2. /\ DOMAIN z = DcFields
        /\ z.opc = "ADDI"
    <3>1. /\ DcKept(i, z) /\ z.opc = "ADDI" /\ z.sub = i.sub
          /\ z.rt = i.rt /\ z.ra = i.ra
      BY <1>1, <2>1, DcAs
    <3> QED
      BY <3>1 DEF DcKept
  <2>3. PICK k : k = [z EXCEPT !.rt = 31, !.ra = 31, !.imm1_15 = SignExtend(i.imm1_10, 10, 15)]
    OBVIOUS
  <2>4. /\ k.opc = "ADDI"
        /\ k.rt = 31
        /\ k.ra = 31
        /\ k.imm1_15 = SignExtend(i.imm1_10, 10, 15)
    BY <2>2, <2>3 DEF DcFields, InstrFields
  <2>5. Translate5(i) = k
    BY <1>4, <2>1, <2>3 DEF Translate5
  <2>6. OperandImmediate(k) = <<31, 31, SignExtend(i.imm1_10, 10, 32)>>
    BY <2>4, DcPairFacts, DcExtends DEF OperandImmediate
  <2>7. ExecutedOp(k, pc) = <<"ADDI", 31, 31, SignExtend(i.imm1_10, 10, 32)>>
    BY <2>4, <2>6, DcRows, DcRun
  <2>8. Text16(j, pc) = <<"ADDI10S", SignExtend(i.imm1_10, 10, 32)>>
    BY <1>4, DcPairFacts DEF Text16
  <2>9. Meaning(<<"ADDI10S", SignExtend(i.imm1_10, 10, 32)>>) = <<"ADDI", 31, 31, SignExtend(i.imm1_10, 10, 32)>>
    BY DcMeaning16
  <2> QED
    BY <2>5, <2>7, <2>8, <2>9
<1> QED
  BY <1>2, <1>3, <1>4, DcPairFacts

\* Arithmetic.
LEMMA DcForms6Alu ==
    ASSUME NEW i, NEW j, NEW n, NEW pc, DcPair(i, j, n),
           i.opc \in {"ADDI45", "ADDI333", "SUBI45", "SUBI333", "ADD45", "ADD333", "SUB45", "SUB333", "SRAI45", "SRLI45", "SLLI333"}
    PROVE  ExecutedOp(Translate6Alu(i), pc) = Meaning(Text16(j, pc))
<1>1. DOMAIN i = DcFields
  BY DcPairFacts
<1>2. ASSUME i.opc = "ADDI45"
      PROVE  ExecutedOp(Translate6Alu(i), pc) = Meaning(Text16(j, pc))
  <2>1. PICK r : r = reg_4T5(i.rt)
    OBVIOUS
  <2>2. PICK y : y = Twice(i)
    OBVIOUS
  <2>3. DOMAIN y = DcFields /\ y.rt = r /\ y.ra = r /\ y.rb = i.rb /\ y.imm1_5 = i.imm1_5
    BY <1>1, <2>1, <2>2, DcTwice DEF DcKept
  <2>4. PICK z : z = As(y, "ADDI")
    OBVIOUS
  <2>5. /\ DOMAIN z = DcFields
        /\ z.opc = "ADDI"
        /\ z.rt = r
        /\ z.ra = r
    <3>1. /\ DcKept(y, z) /\ z.opc = "ADDI" /\ z.sub = y.sub
          /\ z.rt = y.rt /\ z.ra = y.ra
      BY <2>3, <2>4, DcAs
    <3> QED
      BY <2>3, <3>1 DEF DcKept
  <2>6. PICK k : k = [z EXCEPT !.imm1_15 = i.imm1_5]
    OBVIOUS
  <2>7. /\ k.opc = "ADDI"
        /\ k.rt = r
        /\ k.ra = r
        /\ k.imm1_15 = i.imm1_5
    BY <2>5, <2>6 DEF DcFields, InstrFields
  <2>8. Translate6Alu(i) = k
    BY <1>2, <2>2, <2>4, <2>6 DEF Translate6Alu
  <2>9. OperandImmediate(k) = <<r, r, i.imm1_5>>
    BY <2>7, DcPairFacts, DcExtends DEF OperandImmediate
  <2>10. ExecutedOp(k, pc) = <<"ADDI", r, r, i.imm1_5>>
    BY <2>7, <2>9, DcRows, DcRun
  <2>11. Text16(j, pc) = <<"ADDI45", r, i.imm1_5>>
    BY <1>2, <2>1, DcPairFacts DEF Text16
  <2>12. Meaning(<<"ADDI45", r, i.imm1_5>>) = <<"ADDI", r, r, i.imm1_5>>
    BY DcMeaning16 DEF SourceIsTarget
  <2> QED
    BY <2>8, <2>10, <2>11, <2>12
<1>3. ASSUME i.opc = "ADDI333"
      PROVE  ExecutedOp(Translate6Alu(i), pc) = Meaning(Text16(j, pc))
  <2>1. PICK z : z = As(i, "ADDI")
    OBVIOUS
  <2>2. /\ DOMAIN z = DcFields
        /\ z.opc = "ADDI"
        /\ z.rt = i.rt
        /\ z.ra = i.ra
    <3>1. /\ DcKept(i, z) /\ z.opc = "ADDI" /\ z.sub = i.sub
          /\ z.rt = i.rt /\ z.ra = i.ra
      BY <1>1, <2>1, DcAs
    <3> QED
      BY <3>1 DEF DcKept
  <2>3. PICK k : k = [z EXCEPT !.imm1_15 = i.imm1_3]
    OBVIOUS
  <2>4. /\ k.opc = "ADDI"
        /\ k.rt = i.rt
        /\ k.ra = i.ra
        /\ k.imm1_15 = i.imm1_3
    BY <2>2, <2>3 DEF DcFields, InstrFields
  <2>5. Translate6Alu(i) = k
    BY <1>3, <2>1, <2>3 DEF Translate6Alu
  <2>6. OperandImmediate(k) = <<i.rt, i.ra, i.imm1_3>>
    BY <2>4, DcPairFacts, DcExtends DEF OperandImmediate
  <2>7. ExecutedOp(k, pc) = <<"ADDI", i.rt, i.ra, i.imm1_3>>
    BY <2>4, <2>6, DcRows, DcRun
  <2>8. Text16(j, pc) = <<"ADDI333", i.rt, i.ra, i.imm1_3>>
    BY <1>3, DcPairFacts DEF Text16
  <2>9. Meaning(<<"ADDI333", i.rt, i.ra, i.imm1_3>>) = <<"ADDI", i.rt, i.ra, i.imm1_3>>
    BY DcMeaning16 DEF SameOperands
  <2> QED
    BY <2>5, <2>7, <2>8, <2>9
<1>4. ASSUME i.opc = "SUBI45"
      PROVE  ExecutedOp(Translate6Alu(i), pc) = Meaning(Text16(j, pc))
  <2>1. PICK r : r = reg_4T5(i.rt)
    OBVIOUS
  <2>2. PICK y : y = Twice(i)
    OBVIOUS
  <2>3. DOMAIN y = DcFields /\ y.rt = r /\ y.ra = r /\ y.rb = i.rb /\ y.imm1_5 = i.imm1_5
    BY <1>1, <2>1, <2>2, DcTwice DEF DcKept
  <2>4. PICK z : z = As(y, "ADDI")
    OBVIOUS
  <2>5. /\ DOMAIN z = DcFields
        /\ z.opc = "ADDI"
        /\ z.rt = r
        /\ z.ra = r
    <3>1. /\ DcKept(y, z) /\ z.opc = "ADDI" /\ z.sub = y.sub
          /\ z.rt = y.rt /\ z.ra = y.ra
      BY <2>3, <2>4, DcAs
    <3> QED
      BY <2>3, <3>1 DEF DcKept
  <2>6. PICK k : k = [z EXCEPT !.imm1_15 = NEG(i.imm1_5)]
    OBVIOUS
  <2>7. /\ k.opc = "ADDI"
        /\ k.rt = r
        /\ k.ra = r
        /\ k.imm1_15 = -i.imm1_5
    BY <2>5, <2>6 DEF DcFields, InstrFields, NEG
  <2>8. Translate6Alu(i) = k
    BY <1>4, <2>2, <2>4, <2>6 DEF Translate6Alu
  <2>9. OperandImmediate(k) = <<r, r, -i.imm1_5>>
    BY <2>7, DcPairFacts, DcExtends DEF OperandImmediate
  <2>10. ExecutedOp(k, pc) = <<"ADDI", r, r, -i.imm1_5>>
    BY <2>7, <2>9, DcRows, DcRun
  <2>11. Text16(j, pc) = <<"SUBI45", r, i.imm1_5>>
    BY <1>4, <2>1, DcPairFacts DEF Text16
  <2>12. Meaning(<<"SUBI45", r, i.imm1_5>>) = <<"ADDI", r, r, -i.imm1_5>>
    BY DcMeaning16
  <2> QED
    BY <2>8, <2>10, <2>11, <2>12
<1>5. ASSUME i.opc = "SUBI333"
      PROVE  ExecutedOp(Translate6Alu(i), pc) = Meaning(Text16(j, pc))
  <2>1. PICK z : z = As(i, "ADDI")
    OBVIOUS
  <2>2. /\ DOMAIN z = DcFields
        /\ z.opc = "ADDI"
        /\ z.rt = i.rt
        /\ z.ra = i.ra
    <3>1. /\ DcKept(i, z) /\ z.opc = "ADDI" /\ z.sub = i.sub
          /\ z.rt = i.rt /\ z.ra = i.ra
      BY <1>1, <2>1, DcAs
    <3> QED
      BY <3>1 DEF DcKept
  <2>3. PICK k : k = [z EXCEPT !.imm1_15 = NEG(i.imm1_3)]
    OBVIOUS
  <2>4. /\ k.opc = "ADDI"
        /\ k.rt = i.rt
        /\ k.ra = i.ra
        /\ k.imm1_15 = -i.imm1_3
    BY <2>2, <2>3 DEF DcFields, InstrFields, NEG
  <2>5. Translate6Alu(i) = k
    BY <1>5, <2>1, <2>3 DEF Translate6Alu
  <2>6. OperandImmediate(k) = <<i.rt, i.ra, -i.imm1_3>>
    BY <2>4, DcPairFacts, DcExtends DEF OperandImmediate
  <2>7. ExecutedOp(k, pc) = <<"ADDI", i.rt, i.ra, -i.imm1_3>>
    BY <2>4, <2>6, DcRows, DcRun
  <2>8. Text16(j, pc) = <<"SUBI333", i.rt, i.ra, i.imm1_3>>
    BY <1>5, DcPairFacts DEF Text16
  <2>9. Meaning(<<"SUBI333", i.rt, i.ra, i.imm1_3>>) = <<"ADDI", i.rt, i.ra, -i.imm1_3>>
    BY DcMeaning16
  <2> QED
    BY <2>5, <2>7, <2>8, <2>9
<1>6. ASSUME i.opc = "ADD45"
      PROVE  ExecutedOp(Translate6Alu(i), pc) = Meaning(Text16(j, pc))
  <2>1. PICK r : r = reg_4T5(i.rt)
    OBVIOUS
  <2>2. PICK y : y = Twice(i)
    OBVIOUS
  <2>3. DOMAIN y = DcFields /\ y.rt = r /\ y.ra = r /\ y.rb = i.rb /\ y.imm1_5 = i.imm1_5
    BY <1>1, <2>1, <2>2, DcTwice DEF DcKept
  <2>4. PICK k : k = AsSub(y, "ALU_1", "ADD")
    OBVIOUS
  <2>5. /\ k.opc = "ALU_1"
        /\ k.sub = opc32_sub_list["ALU_1"]["ADD"]
        /\ k.rt = r
        /\ k.ra = r
        /\ k.rb = i.rb
    <3>1. /\ DcKept(y, k) /\ k.opc = "ALU_1" /\ k.sub = opc32_sub_list["ALU_1"]["ADD"]
          /\ k.rt = y.rt /\ k.ra = y.ra
      BY <2>3, <2>4, DcAsSub
    <3> QED
      BY <2>3, <3>1 DEF DcKept
  <2>6. Translate6Alu(i) = k
    BY <1>6, <2>2, <2>4 DEF Translate6Alu
  <2>7. OperandRegister(k, "ADD") = <<r, r, i.rb>>
    BY <2>5, DcPairFacts, DcExtends DEF OperandRegister
  <2>8. Names(k.opc, k.sub) = {"ADD"} /\ "ADD" \in Simulated[k.opc]
    BY <2>5, DcFound
  <2>9. ExecutedOp(k, pc) = <<"ADD", r, r, i.rb>>
    BY <2>5, <2>7, <2>8, DcRun
  <2>10. Text16(j, pc) = <<"ADD45", r, i.rb>>
    BY <1>6, <2>1, DcPairFacts DEF Text16
  <2>11. Meaning(<<"ADD45", r, i.rb>>) = <<"ADD", r, r, i.rb>>
    BY DcMeaning16 DEF SourceIsTarget
  <2> QED
    BY <2>6, <2>9, <2>10, <2>11
<1>7. ASSUME i.opc = "ADD333"
      PROVE  ExecutedOp(Translate6Alu(i), pc) = Meaning(Text16(j, pc))
  <2>1. PICK k : k = AsSub(i, "ALU_1", "ADD")
    OBVIOUS
  <2>2. /\ k.opc = "ALU_1"
        /\ k.sub = opc32_sub_list["ALU_1"]["ADD"]
        /\ k.rt = i.rt
        /\ k.ra = i.ra
        /\ k.rb = i.rb
    <3>1. /\ DcKept(i, k) /\ k.opc = "ALU_1" /\ k.sub = opc32_sub_list["ALU_1"]["ADD"]
          /\ k.rt = i.rt /\ k.ra = i.ra
      BY <1>1, <2>1, DcAsSub
    <3> QED
      BY <3>1 DEF DcKept
  <2>3. Translate6Alu(i) = k
    BY <1>7, <2>1 DEF Translate6Alu
  <2>4. OperandRegister(k, "ADD") = <<i.rt, i.ra, i.rb>>
    BY <2>2, DcPairFacts, DcExtends DEF OperandRegister
  <2>5. Names(k.opc, k.sub) = {"ADD"} /\ "ADD" \in Simulated[k.opc]
    BY <2>2, DcFound
  <2>6. ExecutedOp(k, pc) = <<"ADD", i.rt, i.ra, i.rb>>
    BY <2>2, <2>4, <2>5, DcRun
  <2>7. Text16(j, pc) = <<"ADD333", i.rt, i.ra, i.rb>>
    BY <1>7, DcPairFacts DEF Text16
  <2>8. Meaning(<<"ADD333", i.rt, i.ra, i.rb>>) = <<"ADD", i.rt, i.ra, i.rb>>
    BY DcMeaning16 DEF SameOperands
  <2> QED
    BY <2>3, <2>6, <2>7, <2>8
<1>8. ASSUME i.opc = "SUB45"
      PROVE  ExecutedOp(Translate6Alu(i), pc) = Meaning(Text16(j, pc))
  <2>1. PICK r : r = reg_4T5(i.rt)
    OBVIOUS
  <2>2. PICK y : y = Twice(i)
    OBVIOUS
  <2>3. DOMAIN y = DcFields /\ y.rt = r /\ y.ra = r /\ y.rb = i.rb /\ y.imm1_5 = i.imm1_5
    BY <1>1, <2>1, <2>2, DcTwice DEF DcKept
  <2>4. PICK k : k = AsSub(y, "ALU_1", "SUB")
    OBVIOUS
  <2>5. /\ k.opc = "ALU_1"
        /\ k.sub = opc32_sub_list["ALU_1"]["SUB"]
        /\ k.rt = r
        /\ k.ra = r
        /\ k.rb = i.rb
    <3>1. /\ DcKept(y, k) /\ k.opc = "ALU_1" /\ k.sub = opc32_sub_list["ALU_1"]["SUB"]
          /\ k.rt = y.rt /\ k.ra = y.ra
      BY <2>3, <2>4, DcAsSub
    <3> QED
      BY <2>3, <3>1 DEF DcKept
  <2>6. Translate6Alu(i) = k
    BY <1>8, <2>2, <2>4 DEF Translate6Alu
  <2>7. OperandRegister(k, "SUB") = <<r, r, i.rb>>
    BY <2>5, DcPairFacts, DcExtends DEF OperandRegister
  <2>8. Names(k.opc, k.sub) = {"SUB"} /\ "SUB" \in Simulated[k.opc]
    BY <2>5, DcFound
  <2>9. ExecutedOp(k, pc) = <<"SUB", r, r, i.rb>>
    BY <2>5, <2>7, <2>8, DcRun
  <2>10. Text16(j, pc) = <<"SUB45", r, i.rb>>
    BY <1>8, <2>1, DcPairFacts DEF Text16
  <2>11. Meaning(<<"SUB45", r, i.rb>>) = <<"SUB", r, r, i.rb>>
    BY DcMeaning16 DEF SourceIsTarget
  <2> QED
    BY <2>6, <2>9, <2>10, <2>11
<1>9. ASSUME i.opc = "SUB333"
      PROVE  ExecutedOp(Translate6Alu(i), pc) = Meaning(Text16(j, pc))
  <2>1. PICK k : k = AsSub(i, "ALU_1", "SUB")
    OBVIOUS
  <2>2. /\ k.opc = "ALU_1"
        /\ k.sub = opc32_sub_list["ALU_1"]["SUB"]
        /\ k.rt = i.rt
        /\ k.ra = i.ra
        /\ k.rb = i.rb
    <3>1. /\ DcKept(i, k) /\ k.opc = "ALU_1" /\ k.sub = opc32_sub_list["ALU_1"]["SUB"]
          /\ k.rt = i.rt /\ k.ra = i.ra
      BY <1>1, <2>1, DcAsSub
    <3> QED
      BY <3>1 DEF DcKept
  <2>3. Translate6Alu(i) = k
    BY <1>9, <2>1 DEF Translate6Alu
  <2>4. OperandRegister(k, "SUB") = <<i.rt, i.ra, i.rb>>
    BY <2>2, DcPairFacts, DcExtends DEF OperandRegister
  <2>5. Names(k.opc, k.sub) = {"SUB"} /\ "SUB" \in Simulated[k.opc]
    BY <2>2, DcFound
  <2>6. ExecutedOp(k, pc) = <<"SUB", i.rt, i.ra, i.rb>>
    BY <2>2, <2>4, <2>5, DcRun
  <2>7. Text16(j, pc) = <<"SUB333", i.rt, i.ra, i.rb>>
    BY <1>9, DcPairFacts DEF Text16
  <2>8. Meaning(<<"SUB333", i.rt, i.ra, i.rb>>) = <<"SUB", i.rt, i.ra, i.rb>>
    BY DcMeaning16 DEF SameOperands
  <2> QED
    BY <2>3, <2>6, <2>7, <2>8
<1>10. ASSUME i.opc = "SRAI45"
      PROVE  ExecutedOp(Translate6Alu(i), pc) = Meaning(Text16(j, pc))
  <2>1. PICK r : r = reg_4T5(i.rt)
    OBVIOUS
  <2>2. PICK y : y = Twice(i)
    OBVIOUS
  <2>3. DOMAIN y = DcFields /\ y.rt = r /\ y.ra = r /\ y.rb = i.rb /\ y.imm1_5 = i.imm1_5
    BY <1>1, <2>1, <2>2, DcTwice DEF DcKept
  <2>4. PICK k : k = AsSub(y, "ALU_1", "SRAI")
    OBVIOUS
  <2>5. /\ k.opc = "ALU_1"
        /\ k.sub = opc32_sub_list["ALU_1"]["SRAI"]
        /\ k.rt = r
        /\ k.ra = r
        /\ k.imm1_5 = i.imm1_5
    <3>1. /\ DcKept(y, k) /\ k.opc = "ALU_1" /\ k.sub = opc32_sub_list["ALU_1"]["SRAI"]
          /\ k.rt = y.rt /\ k.ra = y.ra
      BY <2>3, <2>4, DcAsSub
    <3> QED
      BY <2>3, <3>1 DEF DcKept
  <2>6. Translate6Alu(i) = k
    BY <1>10, <2>2, <2>4 DEF Translate6Alu
  <2>7. OperandRegister(k, "SRAI") = <<r, r, i.imm1_5>>
    BY <2>5, DcPairFacts, DcExtends DEF OperandRegister
  <2>8. Names(k.opc, k.sub) = {"SRAI"} /\ "SRAI" \in Simulated[k.opc]
    BY <2>5, DcFound
  <2>9. ExecutedOp(k, pc) = <<"SRAI", r, r, i.imm1_5>>
    BY <2>5, <2>7, <2>8, DcRun
  <2>10. Text16(j, pc) = <<"SRAI45", r, i.imm1_5>>
    BY <1>10, <2>1, DcPairFacts DEF Text16
  <2>11. Meaning(<<"SRAI45", r, i.imm1_5>>) = <<"SRAI", r, r, i.imm1_5>>
    BY DcMeaning16 DEF SourceIsTarget
  <2> QED
    BY <2>6, <2>9, <2>10, <2>11
<1>11. ASSUME i.opc = "SRLI45"
      PROVE  ExecutedOp(Translate6Alu(i), pc) = Meaning(Text16(j, pc))
  <2>1. PICK r : r = reg_4T5(i.rt)
    OBVIOUS
  <2>2. PICK y : y = Twice(i)
    OBVIOUS
  <2>3. DOMAIN y = DcFields /\ y.rt = r /\ y.ra = r /\ y.rb = i.rb /\ y.imm1_5 = i.imm1_5
    BY <1>1, <2>1, <2>2, DcTwice DEF DcKept
  <2>4. PICK k : k = AsSub(y, "ALU_1", "SRLI")
    OBVIOUS
  <2>5. /\ k.opc = "ALU_1"
        /\ k.sub = opc32_sub_list["ALU_1"]["SRLI"]
        /\ k.rt = r
        /\ k.ra = r
        /\ k.imm1_5 = i.imm1_5
    <3>1. /\ DcKept(y, k) /\ k.opc = "ALU_1" /\ k.sub = opc32_sub_list["ALU_1"]["SRLI"]
          /\ k.rt = y.rt /\ k.ra = y.ra
      BY <2>3, <2>4, DcAsSub
    <3> QED
      BY <2>3, <3>1 DEF DcKept
  <2>6. Translate6Alu(i) = k
    BY <1>11, <2>2, <2>4 DEF Translate6Alu
  <2>7. OperandRegister(k, "SRLI") = <<r, r, i.imm1_5>>
    BY <2>5, DcPairFacts, DcExtends DEF OperandRegister
  <2>8. Names(k.opc, k.sub) = {"SRLI"} /\ "SRLI" \in Simulated[k.opc]
    BY <2>5, DcFound
  <2>9. ExecutedOp(k, pc) = <<"SRLI", r, r, i.imm1_5>>
    BY <2>5, <2>7, <2>8, DcRun
  <2>10. Text16(j, pc) = <<"SRLI45", r, i.imm1_5>>
    BY <1>11, <2>1, DcPairFacts DEF Text16
  <2>11. Meaning(<<"SRLI45", r, i.imm1_5>>) = <<"SRLI", r, r, i.imm1_5>>
    BY DcMeaning16 DEF SourceIsTarget
  <2> QED
    BY <2>6, <2>9, <2>10, <2>11
<1>12. ASSUME i.opc = "SLLI333"
      PROVE  ExecutedOp(Translate6Alu(i), pc) = Meaning(Text16(j, pc))
  <2>1. PICK z : z = AsSub(i, "ALU_1", "SLLI")
    OBVIOUS
  <2>2. /\ DOMAIN z = DcFields
        /\ z.opc = "ALU_1"
        /\ z.sub = opc32_sub_list["ALU_1"]["SLLI"]
        /\ z.rt = i.rt
        /\ z.ra = i.ra
    <3>1. /\ DcKept(i, z) /\ z.opc = "ALU_1" /\ z.sub = opc32_sub_list["ALU_1"]["SLLI"]
          /\ z.rt = i.rt /\ z.ra = i.ra
      BY <1>1, <2>1, DcAsSub
    <3> QED
      BY <3>1 DEF DcKept
  <2>3. PICK k : k = [z EXCEPT !.imm1_5 = i.imm1_3]
    OBVIOUS
  <2>4. /\ k.opc = "ALU_1"
        /\ k.sub = opc32_sub_list["ALU_1"]["SLLI"]
        /\ k.rt = i.rt
        /\ k.ra = i.ra
        /\ k.imm1_5 = i.imm1_3
    BY <2>2, <2>3 DEF DcFields, InstrFields
  <2>5. Translate6Alu(i) = k
    BY <1>12, <2>1, <2>3 DEF Translate6Alu
  <2>6. OperandRegister(k, "SLLI") = <<i.rt, i.ra, i.imm1_3>>
    BY <2>4, DcPairFacts, DcExtends DEF OperandRegister
  <2>7. Names(k.opc, k.sub) = {"SLLI"} /\ "SLLI" \in Simulated[k.opc]
    BY <2>4, DcFound
  <2>8. ExecutedOp(k, pc) = <<"SLLI", i.rt, i.ra, i.imm1_3>>
    BY <2>4, <2>6, <2>7, DcRun
  <2>9. Text16(j, pc) = <<"SLLI333", i.rt, i.ra, i.imm1_3>>
    BY <1>12, DcPairFacts DEF Text16
  <2>10. Meaning(<<"SLLI333", i.rt, i.ra, i.imm1_3>>) = <<"SLLI", i.rt, i.ra, i.imm1_3>>
    BY DcMeaning16 DEF SameOperands
  <2> QED
    BY <2>5, <2>8, <2>9, <2>10
<1> QED
  BY <1>2, <1>3, <1>4, <1>5, <1>6, <1>7, <1>8, <1>9, <1>10, <1>11, <1>12, DcPairFacts

\* Extensions.
LEMMA DcForms6Bits ==
    ASSUME NEW i, NEW j, NEW n, NEW pc, DcPair(i, j, n),
           i.opc \in {"BFMI333"}
    PROVE  ExecutedOp(Translate6Bits(i), pc) = Meaning(Text16(j, pc))
<1>1. DOMAIN i = DcFields
  BY DcPairFacts
<1>2. ASSUME i.opc = "BFMI333", n = "ZEB33"
      PROVE  ExecutedOp(Translate6Bits(i), pc) = Meaning(Text16(j, pc))
  <2>1. PICK z : z = As(i, "ANDI")
    OBVIOUS
  <2>2. /\ DOMAIN z = DcFields
        /\ z.opc = "ANDI"
        /\ z.rt = i.rt
        /\ z.ra = i.ra
    <3>1. /\ DcKept(i, z) /\ z.opc = "ANDI" /\ z.sub = i.sub
          /\ z.rt = i.rt /\ z.ra = i.ra
      BY <1>1, <2>1, DcAs
    <3> QED
      BY <3>1 DEF DcKept
  <2>3. PICK k : k = [z EXCEPT !.imm1_15 = 255]
    OBVIOUS
  <2>4. /\ k.opc = "ANDI"
        /\ k.rt = i.rt
        /\ k.ra = i.ra
        /\ k.imm1_15 = 255
    BY <2>2, <2>3 DEF DcFields, InstrFields
  <2>5. Translate6Bits(i) = k
    BY <1>2, DcPairFacts, <2>1, <2>3 DEF Translate6Bits
  <2>6. OperandImmediate(k) = <<i.rt, i.ra, 255>>
    BY <2>4, DcPairFacts, DcExtends DEF OperandImmediate
  <2>7. ExecutedOp(k, pc) = <<"ANDI", i.rt, i.ra, 255>>
    BY <2>4, <2>6, DcRows, DcRun
  <2>8. Text16(j, pc) = <<"ZEB33", i.rt, i.ra>>
    BY <1>2, DcPairFacts DEF Text16
  <2>9. Meaning(<<"ZEB33", i.rt, i.ra>>) = <<"ANDI", i.rt, i.ra, 255>>
    BY DcMeaning16 DEF ImpliedLast
  <2> QED
    BY <2>5, <2>7, <2>8, <2>9
<1>3. ASSUME i.opc = "BFMI333", n = "ZEH33"
      PROVE  ExecutedOp(Translate6Bits(i), pc) = Meaning(Text16(j, pc))
  <2>1. PICK k : k = AsSub(i, "ALU_1", "ZEH")
    OBVIOUS
  <2>2. /\ k.opc = "ALU_1"
        /\ k.sub = opc32_sub_list["ALU_1"]["ZEH"]
        /\ k.rt = i.rt
        /\ k.ra = i.ra
    <3>1. /\ DcKept(i, k) /\ k.opc = "ALU_1" /\ k.sub = opc32_sub_list["ALU_1"]["ZEH"]
          /\ k.rt = i.rt /\ k.ra = i.ra
      BY <1>1, <2>1, DcAsSub
    <3> QED
      BY <3>1 DEF DcKept
  <2>3. Translate6Bits(i) = k
    BY <1>3, DcPairFacts, <2>1 DEF Translate6Bits
  <2>4. OperandRegister(k, "ZEH") = <<i.rt, i.ra>>
    BY <2>2, DcPairFacts, DcExtends DEF OperandRegister
  <2>5. Names(k.opc, k.sub) = {"ZEH"} /\ "ZEH" \in Simulated[k.opc]
    BY <2>2, DcFound
  <2>6. ExecutedOp(k, pc) = <<"ZEH", i.rt, i.ra>>
    BY <2>2, <2>4, <2>5, DcRun
  <2>7. Text16(j, pc) = <<"ZEH33", i.rt, i.ra>>
    BY <1>3, DcPairFacts DEF Text16
  <2>8. Meaning(<<"ZEH33", i.rt, i.ra>>) = <<"ZEH", i.rt, i.ra>>
    BY DcMeaning16 DEF SameOperands
  <2> QED
    BY <2>3, <2>6, <2>7, <2>8
<1>4. ASSUME i.opc = "BFMI333", n = "SEB33"
      PROVE  ExecutedOp(Translate6Bits(i), pc) = Meaning(Text16(j, pc))
  <2>1. PICK k : k = AsSub(i, "ALU_1", "SEB")
    OBVIOUS
  <2>2. /\ k.opc = "ALU_1"
        /\ k.sub = opc32_sub_list["ALU_1"]["SEB"]
        /\ k.rt = i.rt
        /\ k.ra = i.ra
    <3>1. /\ DcKept(i, k) /\ k.opc = "ALU_1" /\ k.sub = opc32_sub_list["ALU_1"]["SEB"]
          /\ k.rt = i.rt /\ k.ra = i.ra
      BY <1>1, <2>1, DcAsSub
    <3> QED
      BY <3>1 DEF DcKept
  <2>3. Translate6Bits(i) = k
    BY <1>4, DcPairFacts, <2>1 DEF Translate6Bits
  <2>4. OperandRegister(k, "SEB") = <<i.rt, i.ra>>
    BY <2>2, DcPairFacts, DcExtends DEF OperandRegister
  <2>5. Names(k.opc, k.sub) = {"SEB"} /\ "SEB" \in Simulated[k.opc]
    BY <2>2, DcFound
  <2>6. ExecutedOp(k, pc) = <<"SEB", i.rt, i.ra>>
    BY <2>2, <2>4, <2>5, DcRun
  <2>7. Text16(j, pc) = <<"SEB33", i.rt, i.ra>>
    BY <1>4, DcPairFacts DEF Text16
  <2>8. Meaning(<<"SEB33", i.rt, i.ra>>) = <<"SEB", i.rt, i.ra>>
    BY DcMeaning16 DEF SameOperands
  <2> QED
    BY <2>3, <2>6, <2>7, <2>8
<1>5. ASSUME i.opc = "BFMI333", n = "SEH33"
      PROVE  ExecutedOp(Translate6Bits(i), pc) = Meaning(Text16(j, pc))
  <2>1. PICK k : k = AsSub(i, "ALU_1", "SEH")
    OBVIOUS
  <2>2. /\ k.opc = "ALU_1"
        /\ k.sub = opc32_sub_list["ALU_1"]["SEH"]
        /\ k.rt = i.rt
        /\ k.ra = i.ra
    <3>1. /\ DcKept(i, k) /\ k.opc = "ALU_1" /\ k.sub = opc32_sub_list["ALU_1"]["SEH"]
          /\ k.rt = i.rt /\ k.ra = i.ra
      BY <1>1, <2>1, DcAsSub
    <3> QED
      BY <3>1 DEF DcKept
  <2>3. Translate6Bits(i) = k
    BY <1>5, DcPairFacts, <2>1 DEF Translate6Bits
  <2>4. OperandRegister(k, "SEH") = <<i.rt, i.ra>>
    BY <2>2, DcPairFacts, DcExtends DEF OperandRegister
  <2>5. Names(k.opc, k.sub) = {"SEH"} /\ "SEH" \in Simulated[k.opc]
    BY <2>2, DcFound
  <2>6. ExecutedOp(k, pc) = <<"SEH", i.rt, i.ra>>
    BY <2>2, <2>4, <2>5, DcRun
  <2>7. Text16(j, pc) = <<"SEH33", i.rt, i.ra>>
    BY <1>5, DcPairFacts DEF Text16
  <2>8. Meaning(<<"SEH33", i.rt, i.ra>>) = <<"SEH", i.rt, i.ra>>
    BY DcMeaning16 DEF SameOperands
  <2> QED
    BY <2>3, <2>6, <2>7, <2>8
<1>6. ASSUME i.opc = "BFMI333", n = "XLSB33"
      PROVE  ExecutedOp(Translate6Bits(i), pc) = Meaning(Text16(j, pc))
  <2>1. PICK z : z = As(i, "ANDI")
    OBVIOUS
  <2>2. /\ DOMAIN z = DcFields
        /\ z.opc = "ANDI"
        /\ z.rt = i.rt
        /\ z.ra = i.ra
    <3>1. /\ DcKept(i, z) /\ z.opc = "ANDI" /\ z.sub = i.sub
          /\ z.rt = i.rt /\ z.ra = i.ra
      BY <1>1, <2>1, DcAs
    <3> QED
      BY <3>1 DEF DcKept
  <2>3. PICK k : k = [z EXCEPT !.imm1_15 = 1]
    OBVIOUS
  <2>4. /\ k.opc = "ANDI"
        /\ k.rt = i.rt
        /\ k.ra = i.ra
        /\ k.imm1_15 = 1
    BY <2>2, <2>3 DEF DcFields, InstrFields
  <2>5. Translate6Bits(i) = k
    BY <1>6, DcPairFacts, <2>1, <2>3 DEF Translate6Bits
  <2>6. OperandImmediate(k) = <<i.rt, i.ra, 1>>
    BY <2>4, DcPairFacts, DcExtends DEF OperandImmediate
  <2>7. ExecutedOp(k, pc) = <<"ANDI", i.rt, i.ra, 1>>
    BY <2>4, <2>6, DcRows, DcRun
  <2>8. Text16(j, pc) = <<"XLSB33", i.rt, i.ra>>
    BY <1>6, DcPairFacts DEF Text16
  <2>9. Meaning(<<"XLSB33", i.rt, i.ra>>) = <<"ANDI", i.rt, i.ra, 1>>
    BY DcMeaning16 DEF ImpliedLast
  <2> QED
    BY <2>5, <2>7, <2>8, <2>9
<1> QED
  BY <1>2, <1>3, <1>4, <1>5, <1>6, DcPairFacts

\* Comparisons.
LEMMA DcForms6Compare ==
    ASSUME NEW i, NEW j, NEW n, NEW pc, DcPair(i, j, n),
           i.opc \in {"SLTI45", "SLTSI45", "SLT45", "SLTS45"}
    PROVE  ExecutedOp(Translate6Compare(i), pc) = Meaning(Text16(j, pc))
<1>1. DOMAIN i = DcFields
  BY DcPairFacts
<1>2. ASSUME i.opc = "SLTI45"
      PROVE  ExecutedOp(Translate6Compare(i), pc) = Meaning(Text16(j, pc))
  <2>1. PICK r : r = reg_4T5(i.ra)
    OBVIOUS
  <2>2. PICK y : y = Compared(i)
    OBVIOUS
  <2>3. DOMAIN y = DcFields /\ y.rt = 15 /\ y.ra = r /\ y.rb = i.rb /\ y.imm1_5 = i.imm1_5
    BY <1>1, <2>1, <2>2, DcCompared DEF DcKept
  <2>4. PICK z : z = As(y, "SLTI")
    OBVIOUS
  <2>5. /\ DOMAIN z = DcFields
        /\ z.opc = "SLTI"
        /\ z.rt = 15
        /\ z.ra = r
    <3>1. /\ DcKept(y, z) /\ z.opc = "SLTI" /\ z.sub = y.sub
          /\ z.rt = y.rt /\ z.ra = y.ra
      BY <2>3, <2>4, DcAs
    <3> QED
      BY <2>3, <3>1 DEF DcKept
  <2>6. PICK k : k = [z EXCEPT !.imm1_15 = i.imm1_5]
    OBVIOUS
  <2>7. /\ k.opc = "SLTI"
        /\ k.rt = 15
        /\ k.ra = r
        /\ k.imm1_15 = i.imm1_5
    BY <2>5, <2>6 DEF DcFields, InstrFields
  <2>8. Translate6Compare(i) = k
    BY <1>2, <2>2, <2>4, <2>6 DEF Translate6Compare
  <2>9. OperandImmediate(k) = <<15, r, i.imm1_5>>
    BY <2>7, DcPairFacts, DcExtends DEF OperandImmediate
  <2>10. ExecutedOp(k, pc) = <<"SLTI", 15, r, i.imm1_5>>
    BY <2>7, <2>9, DcRows, DcRun
  <2>11. Text16(j, pc) = <<"SLTI45", r, i.imm1_5>>
    BY <1>2, <2>1, DcPairFacts DEF Text16
  <2>12. Meaning(<<"SLTI45", r, i.imm1_5>>) = <<"SLTI", 15, r, i.imm1_5>>
    BY DcMeaning16 DEF ImpliedTarget
  <2> QED
    BY <2>8, <2>10, <2>11, <2>12
<1>3. ASSUME i.opc = "SLTSI45"
      PROVE  ExecutedOp(Translate6Compare(i), pc) = Meaning(Text16(j, pc))
  <2>1. PICK r : r = reg_4T5(i.ra)
    OBVIOUS
  <2>2. PICK y : y = Compared(i)
    OBVIOUS
  <2>3. DOMAIN y = DcFields /\ y.rt = 15 /\ y.ra = r /\ y.rb = i.rb /\ y.imm1_5 = i.imm1_5
    BY <1>1, <2>1, <2>2, DcCompared DEF DcKept
  <2>4. PICK z : z = As(y, "SLTSI")
    OBVIOUS
  <2>5. /\ DOMAIN z = DcFields
        /\ z.opc = "SLTSI"
        /\ z.rt = 15
        /\ z.ra = r
    <3>1. /\ DcKept(y, z) /\ z.opc = "SLTSI" /\ z.sub = y.sub
          /\ z.rt = y.rt /\ z.ra = y.ra
      BY <2>3, <2>4, DcAs
    <3> QED
      BY <2>3, <3>1 DEF DcKept
  <2>6. PICK k : k = [z EXCEPT !.imm1_15 = i.imm1_5]
    OBVIOUS
  <2>7. /\ k.opc = "SLTSI"
        /\ k.rt = 15
        /\ k.ra = r
        /\ k.imm1_15 = i.imm1_5
    BY <2>5, <2>6 DEF DcFields, InstrFields
  <2>8. Translate6Compare(i) = k
    BY <1>3, <2>2, <2>4, <2>6 DEF Translate6Compare
  <2>9. OperandImmediate(k) = <<15, r, i.imm1_5>>
    BY <2>7, DcPairFacts, DcExtends DEF OperandImmediate
  <2>10. ExecutedOp(k, pc) = <<"SLTSI", 15, r, i.imm1_5>>
    BY <2>7, <2>9, DcRows, DcRun
  <2>11. Text16(j, pc) = <<"SLTSI45", r, i.imm1_5>>
    BY <1>3, <2>1, DcPairFacts DEF Text16
  <2>12. Meaning(<<"SLTSI45", r, i.imm1_5>>) = <<"SLTSI", 15, r, i.imm1_5>>
    BY DcMeaning16 DEF ImpliedTarget
  <2> QED
    BY <2>8, <2>10, <2>11, <2>12
<1>4. ASSUME i.opc = "SLT45"
      PROVE  ExecutedOp(Translate6Compare(i), pc) = Meaning(Text16(j, pc))
  <2>1. PICK r : r = reg_4T5(i.ra)
    OBVIOUS
  <2>2. PICK y : y = Compared(i)
    OBVIOUS
  <2>3. DOMAIN y = DcFields /\ y.rt = 15 /\ y.ra = r /\ y.rb = i.rb /\ y.imm1_5 = i.imm1_5
    BY <1>1, <2>1, <2>2, DcCompared DEF DcKept
  <2>4. PICK k : k = AsSub(y, "ALU_1", "SLT")
    OBVIOUS
  <2>5. /\ k.opc = "ALU_1"
        /\ k.sub = opc32_sub_list["ALU_1"]["SLT"]
        /\ k.rt = 15
        /\ k.ra = r
        /\ k.rb = i.rb
    <3>1. /\ DcKept(y, k) /\ k.opc = "ALU_1" /\ k.sub = opc32_sub_list["ALU_1"]["SLT"]
          /\ k.rt = y.rt /\ k.ra = y.ra
      BY <2>3, <2>4, DcAsSub
    <3> QED
      BY <2>3, <3>1 DEF DcKept
  <2>6. Translate6Compare(i) = k
    BY <1>4, <2>2, <2>4 DEF Translate6Compare
  <2>7. OperandRegister(k, "SLT") = <<15, r, i.rb>>
    BY <2>5, DcPairFacts, DcExtends DEF OperandRegister
  <2>8. Names(k.opc, k.sub) = {"SLT"} /\ "SLT" \in Simulated[k.opc]
    BY <2>5, DcFound
  <2>9. ExecutedOp(k, pc) = <<"SLT", 15, r, i.rb>>
    BY <2>5, <2>7, <2>8, DcRun
  <2>10. Text16(j, pc) = <<"SLT45", r, i.rb>>
    BY <1>4, <2>1, DcPairFacts DEF Text16
  <2>11. Meaning(<<"SLT45", r, i.rb>>) = <<"SLT", 15, r, i.rb>>
    BY DcMeaning16 DEF ImpliedTarget
  <2> QED
    BY <2>6, <2>9, <2>10, <2>11
<1>5. ASSUME i.opc = "SLTS45"
      PROVE  ExecutedOp(Translate6Compare(i), pc) = Meaning(Text16(j, pc))
  <2>1. PICK r : r = reg_4T5(i.ra)
    OBVIOUS
  <2>2. PICK y : y = Compared(i)
    OBVIOUS
  <2>3. DOMAIN y = DcFields /\ y.rt = 15 /\ y.ra = r /\ y.rb = i.rb /\ y.imm1_5 = i.imm1_5
    BY <1>1, <2>1, <2>2, DcCompared DEF DcKept
  <2>4. PICK k : k = AsSub(y, "ALU_1", "SLTS")
    OBVIOUS
  <2>5. /\ k.opc = "ALU_1"
        /\ k.sub = opc32_sub_list["ALU_1"]["SLTS"]
        /\ k.rt = 15
        /\ k.ra = r
        /\ k.rb = i.rb
    <3>1. /\ DcKept(y, k) /\ k.opc = "ALU_1" /\ k.sub = opc32_sub_list["ALU_1"]["SLTS"]
          /\ k.rt = y.rt /\ k.ra = y.ra
      BY <2>3, <2>4, DcAsSub
    <3> QED
      BY <2>3, <3>1 DEF DcKept
  <2>6. Translate6Compare(i) = k
    BY <1>5, <2>2, <2>4 DEF Translate6Compare
  <2>7. OperandRegister(k, "SLTS") = <<15, r, i.rb>>
    BY <2>5, DcPairFacts, DcExtends DEF OperandRegister
  <2>8. Names(k.opc, k.sub) = {"SLTS"} /\ "SLTS" \in Simulated[k.opc]
    BY <2>5, DcFound
  <2>9. ExecutedOp(k, pc) = <<"SLTS", 15, r, i.rb>>
    BY <2>5, <2>7, <2>8, DcRun
  <2>10. Text16(j, pc) = <<"SLTS45", r, i.rb>>
    BY <1>5, <2>1, DcPairFacts DEF Text16
  <2>11. Meaning(<<"SLTS45", r, i.rb>>) = <<"SLTS", 15, r, i.rb>>
    BY DcMeaning16 DEF ImpliedTarget
  <2> QED
    BY <2>6, <2>9, <2>10, <2>11
<1> QED
  BY <1>2, <1>3, <1>4, <1>5, DcPairFacts

\* Loads and stores.
LEMMA DcForms6Access ==
    ASSUME NEW i, NEW j, NEW n, NEW pc, DcPair(i, j, n),
           i.opc \in {"LWI450", "SWI450", "LWI333", "SWI333", "LWI333_bi", "SWI333_bi", "LHI333", "SHI333", "LBI333", "SBI333"}
    PROVE  ExecutedOp(Translate6Access(i), pc) = Meaning(Text16(j, pc))
<1>1. DOMAIN i = DcFields
  BY DcPairFacts
<1>2. ASSUME i.opc = "LWI450"
      PROVE  ExecutedOp(Translate6Access(i), pc) = Meaning(Text16(j, pc))
  <2>1. PICK r : r = reg_4T5(i.rt)
    OBVIOUS
  <2>2. PICK z : z = As(i, "LWI")
    OBVIOUS
  <2>3. /\ DOMAIN z = DcFields
        /\ z.opc = "LWI"
        /\ z.ra = i.ra
    <3>1. /\ DcKept(i, z) /\ z.opc = "LWI" /\ z.sub = i.sub
          /\ z.rt = i.rt /\ z.ra = i.ra
      BY <1>1, <2>2, DcAs
    <3> QED
      BY <3>1 DEF DcKept
  <2>4. PICK k : k = [z EXCEPT !.rt = r, !.imm1_15 = 0]
    OBVIOUS
  <2>5. /\ k.opc = "LWI"
        /\ k.rt = r
        /\ k.ra = i.ra
        /\ k.imm1_15 = 0
    BY <2>3, <2>4 DEF DcFields, InstrFields
  <2>6. Translate6Access(i) = k
    BY <1>2, <2>1, <2>2, <2>4 DEF Translate6Access
  <2>7. OperandImmediate(k) = <<r, i.ra, 0>>
    BY <2>5, DcPairFacts, DcExtends DEF OperandImmediate
  <2>8. ExecutedOp(k, pc) = <<"LWI", r, i.ra, 0>>
    BY <2>5, <2>7, DcRows, DcRun
  <2>9. Text16(j, pc) = <<"LWI450", r, i.ra>>
    BY <1>2, <2>1, DcPairFacts DEF Text16
  <2>10. Meaning(<<"LWI450", r, i.ra>>) = <<"LWI", r, i.ra, 0>>
    BY DcMeaning16 DEF ImpliedLast
  <2> QED
    BY <2>6, <2>8, <2>9, <2>10
<1>3. ASSUME i.opc = "SWI450"
      PROVE  ExecutedOp(Translate6Access(i), pc) = Meaning(Text16(j, pc))
  <2>1. PICK r : r = reg_4T5(i.rt)
    OBVIOUS
  <2>2. PICK z : z = As(i, "SWI")
    OBVIOUS
  <2>3. /\ DOMAIN z = DcFields
        /\ z.opc = "SWI"
        /\ z.ra = i.ra
    <3>1. /\ DcKept(i, z) /\ z.opc = "SWI" /\ z.sub = i.sub
          /\ z.rt = i.rt /\ z.ra = i.ra
      BY <1>1, <2>2, DcAs
    <3> QED
      BY <3>1 DEF DcKept
  <2>4. PICK k : k = [z EXCEPT !.rt = r, !.imm1_15 = 0]
    OBVIOUS
  <2>5. /\ k.opc = "SWI"
        /\ k.rt = r
        /\ k.ra = i.ra
        /\ k.imm1_15 = 0
    BY <2>3, <2>4 DEF DcFields, InstrFields
  <2>6. Translate6Access(i) = k
    BY <1>3, <2>1, <2>2, <2>4 DEF Translate6Access
  <2>7. OperandImmediate(k) = <<r, i.ra, 0>>
    BY <2>5, DcPairFacts, DcExtends DEF OperandImmediate
  <2>8. ExecutedOp(k, pc) = <<"SWI", r, i.ra, 0>>
    BY <2>5, <2>7, DcRows, DcRun
  <2>9. Text16(j, pc) = <<"SWI450", r, i.ra>>
    BY <1>3, <2>1, DcPairFacts DEF Text16
  <2>10. Meaning(<<"SWI450", r, i.ra>>) = <<"SWI", r, i.ra, 0>>
    BY DcMeaning16 DEF ImpliedLast
  <2> QED
    BY <2>6, <2>8, <2>9, <2>10
<1>4. ASSUME i.opc = "LWI333"
      PROVE  ExecutedOp(Translate6Access(i), pc) = Meaning(Text16(j, pc))
  <2>1. PICK z : z = As(i, "LWI")
    OBVIOUS
  <2>2. /\ DOMAIN z = DcFields
        /\ z.opc = "LWI"
        /\ z.rt = i.rt
        /\ z.ra = i.ra
    <3>1. /\ DcKept(i, z) /\ z.opc = "LWI" /\ z.sub = i.sub
          /\ z.rt = i.rt /\ z.ra = i.ra
      BY <1>1, <2>1, DcAs
    <3> QED
      BY <3>1 DEF DcKept
  <2>3. PICK k : k = [z EXCEPT !.imm1_15 = i.imm1_3]
    OBVIOUS
  <2>4. /\ k.opc = "LWI"
        /\ k.rt = i.rt
        /\ k.ra = i.ra
        /\ k.imm1_15 = i.imm1_3
    BY <2>2, <2>3 DEF DcFields, InstrFields
  <2>5. Translate6Access(i) = k
    BY <1>4, <2>1, <2>3 DEF Translate6Access, WideAccess
  <2>6. OperandImmediate(k) = <<i.rt, i.ra, i.imm1_3 * 4>>
    BY <2>4, DcPairFacts, DcExtends DEF OperandImmediate
  <2>7. ExecutedOp(k, pc) = <<"LWI", i.rt, i.ra, i.imm1_3 * 4>>
    BY <2>4, <2>6, DcRows, DcRun
  <2>8. Text16(j, pc) = <<"LWI333", i.rt, i.ra, i.imm1_3 * 4>>
    BY <1>4, DcPairFacts DEF Text16
  <2>9. Meaning(<<"LWI333", i.rt, i.ra, i.imm1_3 * 4>>) = <<"LWI", i.rt, i.ra, i.imm1_3 * 4>>
    BY DcMeaning16 DEF SameOperands
  <2> QED
    BY <2>5, <2>7, <2>8, <2>9
<1>5. ASSUME i.opc = "SWI333"
      PROVE  ExecutedOp(Translate6Access(i), pc) = Meaning(Text16(j, pc))
  <2>1. PICK z : z = As(i, "SWI")
    OBVIOUS
  <2>2. /\ DOMAIN z = DcFields
        /\ z.opc = "SWI"
        /\ z.rt = i.rt
        /\ z.ra = i.ra
    <3>1. /\ DcKept(i, z) /\ z.opc = "SWI" /\ z.sub = i.sub
          /\ z.rt = i.rt /\ z.ra = i.ra
      BY <1>1, <2>1, DcAs
    <3> QED
      BY <3>1 DEF DcKept
  <2>3. PICK k : k = [z EXCEPT !.imm1_15 = i.imm1_3]
    OBVIOUS
  <2>4. /\ k.opc = "SWI"
        /\ k.rt = i.rt
        /\ k.ra = i.ra
        /\ k.imm1_15 = i.imm1_3
    BY <2>2, <2>3 DEF DcFields, InstrFields
  <2>5. Translate6Access(i) = k
    BY <1>5, <2>1, <2>3 DEF Translate6Access, WideAccess
  <2>6. OperandImmediate(k) = <<i.rt, i.ra, i.imm1_3 * 4>>
    BY <2>4, DcPairFacts, DcExtends DEF OperandImmediate
  <2>7. ExecutedOp(k, pc) = <<"SWI", i.rt, i.ra, i.imm1_3 * 4>>
    BY <2>4, <2>6, DcRows, DcRun
  <2>8. Text16(j, pc) = <<"SWI333", i.rt, i.ra, i.imm1_3 * 4>>
    BY <1>5, DcPairFacts DEF Text16
  <2>9. Meaning(<<"SWI333", i.rt, i.ra, i.imm1_3 * 4>>) = <<"SWI", i.rt, i.ra, i.imm1_3 * 4>>
    BY DcMeaning16 DEF SameOperands
  <2> QED
    BY <2>5, <2>7, <2>8, <2>9
<1>6. ASSUME i.opc = "LWI333_bi"
      PROVE  ExecutedOp(Translate6Access(i), pc) = Meaning(Text16(j, pc))
  <2>1. PICK z : z = As(i, "LWI_bi")
    OBVIOUS
  <2>2. /\ DOMAIN z = DcFields
        /\ z.opc = "LWI_bi"
        /\ z.rt = i.rt
        /\ z.ra = i.ra
    <3>1. /\ DcKept(i, z) /\ z.opc = "LWI_bi" /\ z.sub = i.sub
          /\ z.rt = i.rt /\ z.ra = i.ra
      BY <1>1, <2>1, DcAs
    <3> QED
      BY <3>1 DEF DcKept
  <2>3. PICK k : k = [z EXCEPT !.imm1_15 = i.imm1_3]
    OBVIOUS
  <2>4. /\ k.opc = "LWI_bi"
        /\ k.rt = i.rt
        /\ k.ra = i.ra
        /\ k.imm1_15 = i.imm1_3
    BY <2>2, <2>3 DEF DcFields, InstrFields
  <2>5. Translate6Access(i) = k
    BY <1>6, <2>1, <2>3 DEF Translate6Access, WideAccess
  <2>6. OperandImmediate(k) = <<i.rt, i.ra, i.imm1_3 * 4>>
    BY <2>4, DcPairFacts, DcExtends DEF OperandImmediate
  <2>7. ExecutedOp(k, pc) = <<"LWI_bi", i.rt, i.ra, i.imm1_3 * 4>>
    BY <2>4, <2>6, DcRows, DcRun
  <2>8. Text16(j, pc) = <<"LWI333_bi", i.rt, i.ra, i.imm1_3 * 4>>
    BY <1>6, DcPairFacts DEF Text16
  <2>9. Meaning(<<"LWI333_bi", i.rt, i.ra, i.imm1_3 * 4>>) = <<"LWI_bi", i.rt, i.ra, i.imm1_3 * 4>>
    BY DcMeaning16 DEF SameOperands
  <2> QED
    BY <2>5, <2>7, <2>8, <2>9
<1>7. ASSUME i.opc = "SWI333_bi"
      PROVE  ExecutedOp(Translate6Access(i), pc) = Meaning(Text16(j, pc))
  <2>1. PICK z : z = As(i, "SWI_bi")
    OBVIOUS
  <2>2. /\ DOMAIN z = DcFields
        /\ z.opc = "SWI_bi"
        /\ z.rt = i.rt
        /\ z.ra = i.ra
    <3>1. /\ DcKept(i, z) /\ z.opc = "SWI_bi" /\ z.sub = i.sub
          /\ z.rt = i.rt /\ z.ra = i.ra
      BY <1>1, <2>1, DcAs
    <3> QED
      BY <3>1 DEF DcKept
  <2>3. PICK k : k = [z EXCEPT !.imm1_15 = i.imm1_3]
    OBVIOUS
  <2>4. /\ k.opc = "SWI_bi"
        /\ k.rt = i.rt
        /\ k.ra = i.ra
        /\ k.imm1_15 = i.imm1_3
    BY <2>2, <2>3 DEF DcFields, InstrFields
  <2>5. Translate6Access(i) = k
    BY <1>7, <2>1, <2>3 DEF Translate6Access, WideAccess
  <2>6. OperandImmediate(k) = <<i.rt, i.ra, i.imm1_3 * 4>>
    BY <2>4, DcPairFacts, DcExtends DEF OperandImmediate
  <2>7. ExecutedOp(k, pc) = <<"SWI_bi", i.rt, i.ra, i.imm1_3 * 4>>
    BY <2>4, <2>6, DcRows, DcRun
  <2>8. Text16(j, pc) = <<"SWI333_bi", i.rt, i.ra, i.imm1_3 * 4>>
    BY <1>7, DcPairFacts DEF Text16
  <2>9. Meaning(<<"SWI333_bi", i.rt, i.ra, i.imm1_3 * 4>>) = <<"SWI_bi", i.rt, i.ra, i.imm1_3 * 4>>
    BY DcMeaning16 DEF SameOperands
  <2> QED
    BY <2>5, <2>7, <2>8, <2>9
<1>8. ASSUME i.opc = "LHI333"
      PROVE  ExecutedOp(Translate6Access(i), pc) = Meaning(Text16(j, pc))
  <2>1. PICK z : z = As(i, "LHI")
    OBVIOUS
  <2>2. /\ DOMAIN z = DcFields
        /\ z.opc = "LHI"
        /\ z.rt = i.rt
        /\ z.ra = i.ra
    <3>1. /\ DcKept(i, z) /\ z.opc = "LHI" /\ z.sub = i.sub
          /\ z.rt = i.rt /\ z.ra = i.ra
      BY <1>1, <2>1, DcAs
    <3> QED
      BY <3>1 DEF DcKept
  <2>3. PICK k : k = [z EXCEPT !.imm1_15 = i.imm1_3]
    OBVIOUS
  <2>4. /\ k.opc = "LHI"
        /\ k.rt = i.rt
        /\ k.ra = i.ra
        /\ k.imm1_15 = i.imm1_3
    BY <2>2, <2>3 DEF DcFields, InstrFields
  <2>5. Translate6Access(i) = k
    BY <1>8, <2>1, <2>3 DEF Translate6Access, WideAccess
  <2>6. OperandImmediate(k) = <<i.rt, i.ra, i.imm1_3 * 2>>
    BY <2>4, DcPairFacts, DcExtends DEF OperandImmediate
  <2>7. ExecutedOp(k, pc) = <<"LHI", i.rt, i.ra, i.imm1_3 * 2>>
    BY <2>4, <2>6, DcRows, DcRun
  <2>8. Text16(j, pc) = <<"LHI333", i.rt, i.ra, i.imm1_3 * 2>>
    BY <1>8, DcPairFacts DEF Text16
  <2>9. Meaning(<<"LHI333", i.rt, i.ra, i.imm1_3 * 2>>) = <<"LHI", i.rt, i.ra, i.imm1_3 * 2>>
    BY DcMeaning16 DEF SameOperands
  <2> QED
    BY <2>5, <2>7, <2>8, <2>9
<1>9. ASSUME i.opc = "SHI333"
      PROVE  ExecutedOp(Translate6Access(i), pc) = Meaning(Text16(j, pc))
  <2>1. PICK z : z = As(i, "SHI")
    OBVIOUS
  <2>2. /\ DOMAIN z = DcFields
        /\ z.opc = "SHI"
        /\ z.rt = i.rt
        /\ z.ra = i.ra
    <3>1. /\ DcKept(i, z) /\ z.opc = "SHI" /\ z.sub = i.sub
          /\ z.rt = i.rt /\ z.ra = i.ra
      BY <1>1, <2>1, DcAs
    <3> QED
      BY <3>1 DEF DcKept
  <2>3. PICK k : k = [z EXCEPT !.imm1_15 = i.imm1_3]
    OBVIOUS
  <2>4. /\ k.opc = "SHI"
        /\ k.rt = i.rt
        /\ k.ra = i.ra
        /\ k.imm1_15 = i.imm1_3
    BY <2>2, <2>3 DEF DcFields, InstrFields
  <2>5. Translate6Access(i) = k
    BY <1>9, <2>1, <2>3 DEF Translate6Access, WideAccess
  <2>6. OperandImmediate(k) = <<i.rt, i.ra, i.imm1_3 * 2>>
    BY <2>4, DcPairFacts, DcExtends DEF OperandImmediate
  <2>7. ExecutedOp(k, pc) = <<"SHI", i.rt, i.ra, i.imm1_3 * 2>>
    BY <2>4, <2>6, DcRows, DcRun
  <2>8. Text16(j, pc) = <<"SHI333", i.rt, i.ra, i.imm1_3 * 2>>
    BY <1>9, DcPairFacts DEF Text16
  <2>9. Meaning(<<"SHI333", i.rt, i.ra, i.imm1_3 * 2>>) = <<"SHI", i.rt, i.ra, i.imm1_3 * 2>>
    BY DcMeaning16 DEF SameOperands
  <2> QED
    BY <2>5, <2>7, <2>8, <2>9
<1>10. ASSUME i.opc = "LBI333"
      PROVE  ExecutedOp(Translate6Access(i), pc) = Meaning(Text16(j, pc))
  <2>1. PICK z : z = As(i, "LBI")
    OBVIOUS
  <2>2. /\ DOMAIN z = DcFields
        /\ z.opc = "LBI"
        /\ z.rt = i.rt
        /\ z.ra = i.ra
    <3>1. /\ DcKept(i, z) /\ z.opc = "LBI" /\ z.sub = i.sub
          /\ z.rt = i.rt /\ z.ra = i.ra
      BY <1>1, <2>1, DcAs
    <3> QED
      BY <3>1 DEF DcKept
  <2>3. PICK k : k = [z EXCEPT !.imm1_15 = i.imm1_3]
    OBVIOUS
  <2>4. /\ k.opc = "LBI"
        /\ k.rt = i.rt
        /\ k.ra = i.ra
        /\ k.imm1_15 = i.imm1_3
    BY <2>2, <2>3 DEF DcFields, InstrFields
  <2>5. Translate6Access(i) = k
    BY <1>10, <2>1, <2>3 DEF Translate6Access, WideAccess
  <2>6. OperandImmediate(k) = <<i.rt, i.ra, i.imm1_3>>
    BY <2>4, DcPairFacts, DcExtends DEF OperandImmediate
  <2>7. ExecutedOp(k, pc) = <<"LBI", i.rt, i.ra, i.imm1_3>>
    BY <2>4, <2>6, DcRows, DcRun
  <2>8. Text16(j, pc) = <<"LBI333", i.rt, i.ra, i.imm1_3>>
    BY <1>10, DcPairFacts DEF Text16
  <2>9. Meaning(<<"LBI333", i.rt, i.ra, i.imm1_3>>) = <<"LBI", i.rt, i.ra, i.imm1_3>>
    BY DcMeaning16 DEF SameOperands
  <2> QED
    BY <2>5, <2>7, <2>8, <2>9
<1>11. ASSUME i.opc = "SBI333"
      PROVE  ExecutedOp(Translate6Access(i), pc) = Meaning(Text16(j, pc))
  <2>1. PICK z : z = As(i, "SBI")
    OBVIOUS
  <2>2. /\ DOMAIN z = DcFields
        /\ z.opc = "SBI"
        /\ z.rt = i.rt
        /\ z.ra = i.ra
    <3>1. /\ DcKept(i, z) /\ z.opc = "SBI" /\ z.sub = i.sub
          /\ z.rt = i.rt /\ z.ra = i.ra
      BY <1>1, <2>1, DcAs
    <3> QED
      BY <3>1 DEF DcKept
  <2>3. PICK k : k = [z EXCEPT !.imm1_15 = i.imm1_3]
    OBVIOUS
  <2>4. /\ k.opc = "SBI"
        /\ k.rt = i.rt
        /\ k.ra = i.ra
        /\ k.imm1_15 = i.imm1_3
    BY <2>2, <2>3 DEF DcFields, InstrFields
  <2>5. Translate6Access(i) = k
    BY <1>11, <2>1, <2>3 DEF Translate6Access, WideAccess
  <2>6. OperandImmediate(k) = <<i.rt, i.ra, i.imm1_3>>
    BY <2>4, DcPairFacts, DcExtends DEF OperandImmediate
  <2>7. ExecutedOp(k, pc) = <<"SBI", i.rt, i.ra, i.imm1_3>>
    BY <2>4, <2>6, DcRows, DcRun
  <2>8. Text16(j, pc) = <<"SBI333", i.rt, i.ra, i.imm1_3>>
    BY <1>11, DcPairFacts DEF Text16
  <2>9. Meaning(<<"SBI333", i.rt, i.ra, i.imm1_3>>) = <<"SBI", i.rt, i.ra, i.imm1_3>>
    BY DcMeaning16 DEF SameOperands
  <2> QED
    BY <2>5, <2>7, <2>8, <2>9
<1> QED
  BY <1>2, <1>3, <1>4, <1>5, <1>6, <1>7, <1>8, <1>9, <1>10, <1>11, DcPairFacts

\* Branches on r15 and short jumps.
LEMMA DcForms7 ==
    ASSUME NEW i, NEW j, NEW n, NEW pc, DcPair(i, j, n),
           i.opc \in {"BEQZS8", "BNEZS8", "J8"}
    PROVE  ExecutedOp(Translate7(i), pc) = Meaning(Text16(j, pc))
<1>1. DOMAIN i = DcFields
  BY DcPairFacts
<1>2. ASSUME i.opc = "BEQZS8"
      PROVE  ExecutedOp(Translate7(i), pc) = Meaning(Text16(j, pc))
  <2>1. PICK t : t = SignExtend(i.imm1_8 * 2, 9, 32) + pc
    OBVIOUS
  <2>2. PICK z : z = AsSub(i, "BR2", "BEQZ")
    OBVIOUS
  <2>3. /\ DOMAIN z = DcFields
        /\ z.opc = "BR2"
        /\ z.sub = opc32_sub_list["BR2"]["BEQZ"]
    <3>1. /\ DcKept(i, z) /\ z.opc = "BR2" /\ z.sub = opc32_sub_list["BR2"]["BEQZ"]
          /\ z.rt = i.rt /\ z.ra = i.ra
      BY <1>1, <2>2, DcAsSub
    <3> QED
      BY <3>1 DEF DcKept
  <2>4. PICK k : k = [z EXCEPT !.rt = 15, !.imm1_16 = SignExtend(i.imm1_8, 8, 16)]
    OBVIOUS
  <2>5. /\ k.opc = "BR2"
        /\ k.sub = opc32_sub_list["BR2"]["BEQZ"]
        /\ k.rt = 15
        /\ k.imm1_16 = SignExtend(i.imm1_8, 8, 16)
    BY <2>3, <2>4 DEF DcFields, InstrFields
  <2>6. Translate7(i) = k
    BY <1>2, <2>2, <2>4 DEF Translate7
  <2>7. OperandBranch(k, "BEQZ", pc) = <<15, t>>
    BY <2>5, <2>1, DcPairFacts, DcExtends DEF OperandBranch
  <2>8. Names(k.opc, k.sub) = {"BEQZ"} /\ "BEQZ" \in Simulated[k.opc]
    BY <2>5, DcFound
  <2>9. ExecutedOp(k, pc) = <<"BEQZ", 15, t>>
    BY <2>5, <2>7, <2>8, DcRun
  <2>10. Text16(j, pc) = <<"BEQZS8", t>>
    BY <1>2, <2>1, DcPairFacts DEF Text16
  <2>11. Meaning(<<"BEQZS8", t>>) = <<"BEQZ", 15, t>>
    BY DcMeaning16 DEF ImpliedTarget
  <2> QED
    BY <2>6, <2>9, <2>10, <2>11
<1>3. ASSUME i.opc = "BNEZS8"
      PROVE  ExecutedOp(Translate7(i), pc) = Meaning(Text16(j, pc))
  <2>1. PICK t : t = SignExtend(i.imm1_8 * 2, 9, 32) + pc
    OBVIOUS
  <2>2. PICK z : z = AsSub(i, "BR2", "BNEZ")
    OBVIOUS
  <2>3. /\ DOMAIN z = DcFields
        /\ z.opc = "BR2"
        /\ z.sub = opc32_sub_list["BR2"]["BNEZ"]
    <3>1. /\ DcKept(i, z) /\ z.opc = "BR2" /\ z.sub = opc32_sub_list["BR2"]["BNEZ"]
          /\ z.rt = i.rt /\ z.ra = i.ra
      BY <1>1, <2>2, DcAsSub
    <3> QED
      BY <3>1 DEF DcKept
  <2>4. PICK k : k = [z EXCEPT !.rt = 15, !.imm1_16 = SignExtend(i.imm1_8, 8, 16)]
    OBVIOUS
  <2>5. /\ k.opc = "BR2"
        /\ k.sub = opc32_sub_list["BR2"]["BNEZ"]
        /\ k.rt = 15
        /\ k.imm1_16 = SignExtend(i.imm1_8, 8, 16)
    BY <2>3, <2>4 DEF DcFields, InstrFields
  <2>6. Translate7(i) = k
    BY <1>3, <2>2, <2>4 DEF Translate7
  <2>7. OperandBranch(k, "BNEZ", pc) = <<15, t>>
    BY <2>5, <2>1, DcPairFacts, DcExtends DEF OperandBranch
  <2>8. Names(k.opc, k.sub) = {"BNEZ"} /\ "BNEZ" \in Simulated[k.opc]
    BY <2>5, DcFound
  <2>9. ExecutedOp(k, pc) = <<"BNEZ", 15, t>>
    BY <2>5, <2>7, <2>8, DcRun
  <2>10. Text16(j, pc) = <<"BNEZS8", t>>
    BY <1>3, <2>1, DcPairFacts DEF Text16
  <2>11. Meaning(<<"BNEZS8", t>>) = <<"BNEZ", 15, t>>
    BY DcMeaning16 DEF ImpliedTarget
  <2> QED
    BY <2>6, <2>9, <2>10, <2>11
<1>4. ASSUME i.opc = "J8"
      PROVE  ExecutedOp(Translate7(i), pc) = Meaning(Text16(j, pc))
  <2>1. PICK t : t = SignExtend(i.imm1_8 * 2, 9, 32) + pc
    OBVIOUS
  <2>2. PICK z : z = As(i, "J")
    OBVIOUS
  <2>3. /\ DOMAIN z = DcFields
        /\ z.opc = "J"
        /\ z.sub = 0
    <3>1. /\ DcKept(i, z) /\ z.opc = "J" /\ z.sub = i.sub
          /\ z.rt = i.rt /\ z.ra = i.ra
      BY <1>1, <2>2, DcAs
    <3> QED
      BY <1>1, <3>1, <1>4, DcPairFacts DEF DcKept
  <2>4. PICK k : k = [z EXCEPT !.imm1_24 = SignExtend(i.imm1_8, 8, 24)]
    OBVIOUS
  <2>5. /\ k.opc = "J"
        /\ k.sub = 0
        /\ k.imm1_24 = SignExtend(i.imm1_8, 8, 24)
    BY <2>3, <2>4 DEF DcFields, InstrFields
  <2>6. Translate7(i) = k
    BY <1>4, <2>2, <2>4 DEF Translate7
  <2>7. OperandBranch(k, "J", pc) = <<t>>
    BY <2>5, <2>1, DcPairFacts, DcExtends DEF OperandBranch
  <2>8. Names(k.opc, k.sub) = {"J"} /\ "J" \in Simulated[k.opc]
    BY <2>5, DcFound
  <2>9. ExecutedOp(k, pc) = <<"J", t>>
    BY <2>5, <2>7, <2>8, DcRun
  <2>10. Text16(j, pc) = <<"J8", t>>
    BY <1>4, <2>1, DcPairFacts DEF Text16
  <2>11. Meaning(<<"J8", t>>) = <<"J", t>>
    BY DcMeaning16 DEF SameOperands
  <2> QED
    BY <2>6, <2>9, <2>10, <2>11
<1> QED
  BY <1>2, <1>3, <1>4, DcPairFacts

\* Jumps by register.
LEMMA DcForms10 ==
    ASSUME NEW i, NEW j, NEW n, NEW pc, DcPair(i, j, n),
           i.opc \in {"JR5", "RET5", "JRAL5"}
    PROVE  ExecutedOp(Translate10(i), pc) = Meaning(Text16(j, pc))
<1>1. DOMAIN i = DcFields
  BY DcPairFacts
<1>2. ASSUME i.opc = "JR5"
      PROVE  ExecutedOp(Translate10(i), pc) = Meaning(Text16(j, pc))
  <2>1. PICK k : k = AsSub(i, "JREG", "JR")
    OBVIOUS
  <2>2. /\ k.opc = "JREG"
        /\ k.sub = opc32_sub_list["JREG"]["JR"]
        /\ k.rb = i.rb
    <3>1. /\ DcKept(i, k) /\ k.opc = "JREG" /\ k.sub = opc32_sub_list["JREG"]["JR"]
          /\ k.rt = i.rt /\ k.ra = i.ra
      BY <1>1, <2>1, DcAsSub
    <3> QED
      BY <3>1 DEF DcKept
  <2>3. Translate10(i) = k
    BY <1>2, <2>1 DEF Translate10
  <2>4. OperandBranch(k, "JR", pc) = <<i.rb>>
    BY <2>2, DcPairFacts, DcExtends DEF OperandBranch
  <2>5. Names(k.opc, k.sub) = {"JR"} /\ "JR" \in Simulated[k.opc]
    BY <2>2, DcFound
  <2>6. ExecutedOp(k, pc) = <<"JR", i.rb>>
    BY <2>2, <2>4, <2>5, DcRun
  <2>7. Text16(j, pc) = <<"JR5", i.rb>>
    BY <1>2, DcPairFacts DEF Text16
  <2>8. Meaning(<<"JR5", i.rb>>) = <<"JR", i.rb>>
    BY DcMeaning16 DEF SameOperands
  <2> QED
    BY <2>3, <2>6, <2>7, <2>8
<1>3. ASSUME i.opc = "RET5"
      PROVE  ExecutedOp(Translate10(i), pc) = Meaning(Text16(j, pc))
  <2>1. PICK k : k = AsSub(i, "JREG", "RET")
    OBVIOUS
  <2>2. /\ k.opc = "JREG"
        /\ k.sub = opc32_sub_list["JREG"]["RET"]
        /\ k.rb = i.rb
    <3>1. /\ DcKept(i, k) /\ k.opc = "JREG" /\ k.sub = opc32_sub_list["JREG"]["RET"]
          /\ k.rt = i.rt /\ k.ra = i.ra
      BY <1>1, <2>1, DcAsSub
    <3> QED
      BY <3>1 DEF DcKept
  <2>3. Translate10(i) = k
    BY <1>3, <2>1 DEF Translate10
  <2>4. OperandBranch(k, "RET", pc) = <<i.rb>>
    BY <2>2, DcPairFacts, DcExtends DEF OperandBranch
  <2>5. Names(k.opc, k.sub) = {"RET"} /\ "RET" \in Simulated[k.opc]
    BY <2>2, DcFound
  <2>6. ExecutedOp(k, pc) = <<"RET", i.rb>>
    BY <2>2, <2>4, <2>5, DcRun
  <2>7. Text16(j, pc) = <<"RET5", i.rb>>
    BY <1>3, DcPairFacts DEF Text16
  <2>8. Meaning(<<"RET5", i.rb>>) = <<"RET", i.rb>>
    BY DcMeaning16 DEF SameOperands
  <2> QED
    BY <2>3, <2>6, <2>7, <2>8
<1>4. ASSUME i.opc = "JRAL5"
      PROVE  ExecutedOp(Translate10(i), pc) = Meaning(Text16(j, pc))
  <2>1. PICK z : z = AsSub(i, "JREG", "JRAL")
    OBVIOUS
  <2>2. /\ DOMAIN z = DcFields
        /\ z.opc = "JREG"
        /\ z.sub = opc32_sub_list["JREG"]["JRAL"]
        /\ z.rb = i.rb
    <3>1. /\ DcKept(i, z) /\ z.opc = "JREG" /\ z.sub = opc32_sub_list["JREG"]["JRAL"]
          /\ z.rt = i.rt /\ z.ra = i.ra
      BY <1>1, <2>1, DcAsSub
    <3> QED
      BY <3>1 DEF DcKept
  <2>3. PICK k : k = [z EXCEPT !.rt = 30]
    OBVIOUS
  <2>4. /\ k.opc = "JREG"
        /\ k.sub = opc32_sub_list["JREG"]["JRAL"]
        /\ k.rb = i.rb
        /\ k.rt = 30
    BY <2>2, <2>3 DEF DcFields, InstrFields
  <2>5. Translate10(i) = k
    BY <1>4, <2>1, <2>3 DEF Translate10
  <2>6. OperandBranch(k, "JRAL", pc) = <<30, i.rb>>
    BY <2>4, DcPairFacts, DcExtends DEF OperandBranch
  <2>7. Names(k.opc, k.sub) = {"JRAL"} /\ "JRAL" \in Simulated[k.opc]
    BY <2>4, DcFound
  <2>8. ExecutedOp(k, pc) = <<"JRAL", 30, i.rb>>
    BY <2>4, <2>6, <2>7, DcRun
  <2>9. Text16(j, pc) = <<"JRAL5", i.rb>>
    BY <1>4, DcPairFacts DEF Text16
  <2>10. Meaning(<<"JRAL5", i.rb>>) = <<"JRAL", 30, i.rb>>
    BY DcMeaning16 DEF ImpliedTarget
  <2> QED
    BY <2>5, <2>8, <2>9, <2>10
<1> QED
  BY <1>2, <1>3, <1>4, DcPairFacts

\* The opcodes of each length, by what translate_to_32 does with them.
LEMMA DcLengths ==
    /\ \A o \in {"BEQS38", "BNES38", "BEQZ38", "BNEZ38", "XWI37", "XWI37SP"} :
          opc16_list[o][1] = 4
    /\ \A o \in {"MOVI55", "MOV55", "ADDI10S"} : opc16_list[o][1] = 5
    /\ \A o \in {"BEQZS8", "BNEZS8", "J8"} : opc16_list[o][1] = 7
    /\ \A o \in {"JR5", "RET5", "JRAL5"} : opc16_list[o][1] = 10
    /\ \A o \in {"BFMI333", "SLTI45", "SLTSI45", "SLT45", "SLTS45", "LWI450", "SWI450", "LWI333",
                 "SWI333", "LWI333_bi", "SWI333_bi", "LHI333", "SHI333", "LBI333", "SBI333",
                 "ADDI45", "ADDI333", "SUBI45", "SUBI333", "ADD45", "ADD333", "SUB45", "SUB333",
                 "SRAI45", "SRLI45", "SLLI333"} : opc16_list[o][1] = 6
    /\ DOMAIN WideAccess = {"LWI333", "SWI333", "LWI333_bi", "SWI333_bi", "LHI333", "SHI333",
                            "LBI333", "SBI333"}
    /\ Opc16 = {"BEQS38", "BNES38", "BEQZ38", "BNEZ38", "XWI37", "XWI37SP", "MOVI55", "MOV55",
                "ADDI10S", "BEQZS8", "BNEZS8", "J8", "JR5", "RET5", "JRAL5", "BFMI333", "SLTI45",
                "SLTSI45", "SLT45", "SLTS45", "LWI450", "SWI450", "LWI333", "SWI333",
                "LWI333_bi", "SWI333_bi", "LHI333", "SHI333", "LBI333", "SBI333", "ADDI45",
                "ADDI333", "SUBI45", "SUBI333", "ADD45", "ADD333", "SUB45", "SUB333", "SRAI45",
                "SRLI45", "SLLI333"}
<1>1. DOMAIN WideAccess = {"LWI333", "SWI333", "LWI333_bi", "SWI333_bi", "LHI333", "SHI333",
                           "LBI333", "SBI333"}
  BY DEF WideAccess
<1>2. \A o \in {"BEQS38", "BNES38", "BEQZ38", "BNEZ38", "XWI37", "XWI37SP"} :
          opc16_list[o][1] = 4
  BY DEF opc16_list
<1>3. \A o \in {"MOVI55", "MOV55", "ADDI10S"} : opc16_list[o][1] = 5
  BY DEF opc16_list
<1>4. \A o \in {"BEQZS8", "BNEZS8", "J8"} : opc16_list[o][1] = 7
  BY DEF opc16_list
<1>5. \A o \in {"JR5", "RET5", "JRAL5"} : opc16_list[o][1] = 10
  BY DEF opc16_list
<1>6. \A o \in {"BFMI333", "SLTI45", "SLTSI45", "SLT45", "SLTS45", "LWI450", "SWI450", "LWI333",
                 "SWI333", "LWI333_bi", "SWI333_bi", "LHI333", "SHI333", "LBI333", "SBI333",
                 "ADDI45", "ADDI333", "SUBI45", "SUBI333", "ADD45", "ADD333", "SUB45", "SUB333",
                 "SRAI45", "SRLI45", "SLLI333"} : opc16_list[o][1] = 6
  BY SMTT(60) DEF opc16_list
<1> QED
  BY <1>1, <1>2, <1>3, <1>4, <1>5, <1>6, SMTT(60) DEF opc16_list, Opc16

\* Every 16-bit form: what the translation executes is what its text means.
LEMMA DcForms ==
    ASSUME NEW i, NEW j, NEW n, NEW pc, DcPair(i, j, n)
    PROVE  ExecutedOp(Translate(i), pc) = Meaning(Text16(j, pc))
<1>1. i.opc \in Opc16
  BY DEF DcPair, DcShape16
<1>2. CASE i.opc \in {"BEQS38", "BNES38", "BEQZ38", "BNEZ38", "XWI37", "XWI37SP"}
  <2>1. Translate(i) = Translate4(i)
    BY <1>2, DcLengths DEF Translate
  <2> QED
    BY <1>2, <2>1, DcForms4
<1>3. CASE i.opc \in {"MOVI55", "MOV55", "ADDI10S"}
  <2>1. Translate(i) = Translate5(i)
    BY <1>3, DcLengths DEF Translate
  <2> QED
    BY <1>3, <2>1, DcForms5
<1>4. CASE i.opc \in {"BEQZS8", "BNEZS8", "J8"}
  <2>1. Translate(i) = Translate7(i)
    BY <1>4, DcLengths DEF Translate
  <2> QED
    BY <1>4, <2>1, DcForms7
<1>5. CASE i.opc \in {"JR5", "RET5", "JRAL5"}
  <2>1. Translate(i) = Translate10(i)
    BY <1>5, DcLengths DEF Translate
  <2> QED
    BY <1>5, <2>1, DcForms10
<1>6. CASE i.opc \in {"BFMI333"}
  <2>1. Translate(i) = Translate6Bits(i)
    BY <1>6, DcLengths DEF Translate
  <2> QED
    BY <1>6, <2>1, DcForms6Bits
<1>7. CASE i.opc \in {"SLTI45", "SLTSI45", "SLT45", "SLTS45"}
  <2>1. Translate(i) = Translate6Compare(i)
    BY <1>7, DcLengths DEF Translate
  <2> QED
    BY <1>7, <2>1, DcForms6Compare
<1>8. CASE i.opc \in {"LWI450", "SWI450", "LWI333", "SWI333", "LWI333_bi", "SWI333_bi", "LHI333",
                      "SHI333", "LBI333", "SBI333"}
  <2>1. Translate(i) = Translate6Access(i)
    BY <1>8, DcLengths DEF Translate
  <2> QED
    BY <1>8, <2>1, DcForms6Access
<1>9. CASE i.opc \in {"ADDI45", "ADDI333", "SUBI45", "SUBI333", "ADD45", "ADD333", "SUB45",
                      "SUB333", "SRAI45", "SRLI45", "SLLI333"}
  <2>1. Translate(i) = Translate6Alu(i)
    BY <1>9, DcLengths DEF Translate
  <2> QED
    BY <1>9, <2>1, DcForms6Alu
<1> QED
  BY <1>1, <1>2, <1>3, <1>4, <1>5, <1>6, <1>7, <1>8, <1>9, DcLengths

\* The mnemonic is carried along and nothing else depends on it.
LEMMA DcMnemonic ==
    ASSUME NEW i, NEW j, NEW n, DcPair(i, j, n)
    PROVE  [Translate(j) EXCEPT !.mnemonic = ""] = [Translate(i) EXCEPT !.mnemonic = ""]
<1> SUFFICES ASSUME i.opc \in DOMAIN opc16_sub_list
             PROVE  [Translate(j) EXCEPT !.mnemonic = ""] = [Translate(i) EXCEPT !.mnemonic = ""]
  BY DEF DcPair
<1>1. DOMAIN i = DcFields /\ j = [i EXCEPT !.mnemonic = n]
  BY DEF DcPair, DcShape16
<1>2. /\ DOMAIN j = DcFields /\ j.opc = i.opc /\ j.sub = i.sub /\ j.imm1_7 = i.imm1_7
  BY <1>1 DEF DcFields, InstrFields
<1>3. i.opc \in {"BFMI333", "XWI37", "XWI37SP"}
  BY DcTypes16
<1>4. CASE i.opc \in {"XWI37", "XWI37SP"}
  <2>1. PICK o : o = IF i.sub = 0 THEN "LWI" ELSE "SWI"
    OBVIOUS
  <2>2. PICK b : b = IF i.opc = "XWI37" THEN 28 ELSE 31
    OBVIOUS
  <2>3. PICK k : k = [As(i, o) EXCEPT !.ra = b, !.imm1_15 = i.imm1_7]
    OBVIOUS
  <2>4. PICK l : l = [As(j, o) EXCEPT !.ra = b, !.imm1_15 = i.imm1_7]
    OBVIOUS
  <2>5. Translate(i) = k
    BY <1>4, <2>1, <2>2, <2>3, DcLengths DEF Translate, Translate4
  <2>6. Translate(j) = l
    BY <1>2, <1>4, <2>1, <2>2, <2>4, DcLengths DEF Translate, Translate4
  <2>7. [l EXCEPT !.mnemonic = ""] = [k EXCEPT !.mnemonic = ""]
    BY <1>1, <2>3, <2>4 DEF As, DcFields, InstrFields
  <2> QED
    BY <2>5, <2>6, <2>7
<1>5. CASE i.opc = "BFMI333"
  <2>1. Translate(i) = Translate6Bits(i) /\ Translate(j) = Translate6Bits(j)
    BY <1>2, <1>5, DcLengths DEF Translate
  <2>2. i.sub \in {0, 1, 2, 3, 4}
    BY <1>5, DcPairFacts
  <2>3. CASE i.sub \in {0, 4}
    <3>1. PICK v : v = IF i.sub = 0 THEN 255 ELSE 1
      OBVIOUS
    <3>2. /\ Translate6Bits(i) = [As(i, "ANDI") EXCEPT !.imm1_15 = v]
          /\ Translate6Bits(j) = [As(j, "ANDI") EXCEPT !.imm1_15 = v]
      BY <1>2, <2>3, <3>1 DEF Translate6Bits
    <3>3. PICK k, l : /\ k = [As(i, "ANDI") EXCEPT !.imm1_15 = v]
                      /\ l = [As(j, "ANDI") EXCEPT !.imm1_15 = v]
      OBVIOUS
    <3>4. [l EXCEPT !.mnemonic = ""] = [k EXCEPT !.mnemonic = ""]
      BY <1>1, <3>3 DEF As, DcFields, InstrFields
    <3> QED
      BY <2>1, <3>2, <3>3, <3>4
  <2>4. CASE i.sub \in {1, 2, 3}
    <3>1. PICK m : m = IF i.sub = 1 THEN "ZEH" ELSE IF i.sub = 2 THEN "SEB" ELSE "SEH"
      OBVIOUS
    <3>2. PICK s : s = opc32_sub_list["ALU_1"][m]
      OBVIOUS
    <3>3. PICK k, l : /\ k = [i EXCEPT !.opc = "ALU_1", !.sub = s]
                      /\ l = [j EXCEPT !.opc = "ALU_1", !.sub = s]
      OBVIOUS
    <3>4. Translate6Bits(i) = k /\ Translate6Bits(j) = l
      <4>1. /\ Translate6Bits(i) = AsSub(i, "ALU_1", m)
            /\ Translate6Bits(j) = AsSub(j, "ALU_1", m)
        BY <1>2, <2>4, <3>1 DEF Translate6Bits
      <4> QED
        BY <3>2, <3>3, <4>1 DEF AsSub
    <3>5. [l EXCEPT !.mnemonic = ""] = [k EXCEPT !.mnemonic = ""]
      BY <1>1, <3>3 DEF DcFields, InstrFields
    <3> QED
      BY <2>1, <3>4, <3>5
  <2> QED
    BY <2>2, <2>3, <2>4
<1> QED
  BY <1>3, <1>4, <1>5

\* The three sub-opcodes of BFMI333 that do not exist end the program.
LEMMA DcNoForm ==
    ASSUME NEW i, NEW pc, DcShape16(i), i.opc \in DOMAIN opc16_sub_list,
           \A s \in DOMAIN opc16_sub_list[i.opc] : opc16_sub_list[i.opc][s] # i.sub
    PROVE  ExecutedOp(Translate(i), pc) = <<"unimplemented">>
<1>1. DOMAIN opc16_sub_list = {"BFMI333", "XWI37", "XWI37SP"}
  BY DcTypes16
<1>2. /\ opc16_sub_list["XWI37"] = [LWI37 |-> 0, SWI37 |-> 1]
      /\ opc16_sub_list["XWI37SP"] = [LWI37SP |-> 0, SWI37SP |-> 1]
      /\ opc16_sub_list["BFMI333"] =
            [SEB33 |-> 2, SEH33 |-> 3, ZEB33 |-> 0, ZEH33 |-> 1, XLSB33 |-> 4]
  BY DEF opc16_sub_list
<1>3. i.opc \in {"XWI37", "XWI37SP"} => i.sub \in {0, 1}
  BY DEF DcShape16
<1>4. i.opc \notin {"XWI37", "XWI37SP"}
  BY <1>2, <1>3
<1>5. i.opc = "BFMI333"
  BY <1>1, <1>4
<1>6. i.sub \notin {0, 1, 2, 3, 4}
  BY <1>2, <1>5
<1>7. Translate(i) = Exits
  BY <1>5, <1>6, DcLengths DEF Translate, Translate6Bits
<1>8. Exits.opc = "exit"
  BY DEF Exits, Cleared
<1>9. PICK k : k = Exits
  OBVIOUS
<1>10. k.opc \in NotSimulated \cup {"exit"}
  BY <1>8, <1>9
<1>11. ExecutedOp(k, pc) = <<"unimplemented">>
  BY <1>10, Zenon DEF ExecutedOp
<1> QED
  BY <1>7, <1>9, <1>11

----------------------------------------------------------------------------
(* The two calls of decode_instr, for every word of either width.          *)

\* What the two calls of decode_16 hand out.
DcCalled16(full, short, pc) ==
    \/ full.ret = 1 /\ short.ret = 1
    \/ \E i : /\ DcShape16(i)
              /\ short = [ret |-> 0, text |-> Unknown, instr |-> Translate(i)]
              /\ \/ /\ i.opc \in DOMAIN opc16_sub_list
                    /\ \A s \in DOMAIN opc16_sub_list[i.opc] : opc16_sub_list[i.opc][s] # i.sub
                    /\ full = [ret |-> 1, text |-> Unknown, instr |-> i]
                 \/ \E j, n : /\ DcPair(i, j, n)
                              /\ full = [ret |-> 0, text |-> Text16(j, pc),
                                         instr |-> Translate(j)]

LEMMA DcCalls16 ==
    ASSUME NEW w \in Nat, NEW pc
    PROVE  DcCalled16(Decode16(w, pc, FALSE), Decode16(w, pc, TRUE), pc)
<1> DEFINE o == CHOOSE r \in FindRow16(w) : TRUE
           i == FillArgs16(w, o)
           subs == {s \in DOMAIN opc16_sub_list[o] : opc16_sub_list[o][s] = i.sub}
           n == CHOOSE x \in subs : TRUE
           j == [i EXCEPT !.mnemonic = n]
<1>1. PICK full, short : full = Decode16(w, pc, FALSE) /\ short = Decode16(w, pc, TRUE)
  OBVIOUS
<1> SUFFICES DcCalled16(full, short, pc)
  BY <1>1, Zenon
<1>2. CASE FindRow16(w) = {}
  <2>1. /\ full = [ret |-> 1, text |-> Unknown, instr |-> Cleared]
        /\ short = [ret |-> 1, text |-> Unknown, instr |-> Cleared]
    BY <1>1, <1>2, Zenon DEF Decode16, Unknown
  <2>2. full.ret = 1 /\ short.ret = 1
    BY <2>1
  <2> QED
    BY <2>2 DEF DcCalled16
<1>3. CASE FindRow16(w) # {}
  <2>1. o \in Opc16
    BY <1>3 DEF FindRow16, Matching16
  <2>2. DcShape16(i) /\ i.opc = o
    BY <2>1, DcFilled16, Zenon
  <2>3. short = [ret |-> 0, text |-> Unknown, instr |-> Translate(i)]
    BY <1>1, <1>3, Zenon DEF Decode16, Unknown
  <2>4. CASE o \notin DOMAIN opc16_sub_list
    <3>1. full = [ret |-> 0, text |-> Text16(i, pc), instr |-> Translate(i)]
      BY <1>1, <1>3, <2>4, Zenon DEF Decode16
    <3>2. DcPair(i, i, o)
      BY <2>2, <2>4, Zenon DEF DcPair
    <3> QED
      BY <2>2, <2>3, <3>1, <3>2, Zenon DEF DcCalled16
  <2>5. CASE o \in DOMAIN opc16_sub_list /\ subs = {}
    <3>1. full = [ret |-> 1, text |-> Unknown, instr |-> i]
      BY <1>1, <1>3, <2>5, Zenon DEF Decode16, Unknown
    <3>2. \A s \in DOMAIN opc16_sub_list[i.opc] : opc16_sub_list[i.opc][s] # i.sub
      BY <2>2, <2>5, Zenon
    <3> QED
      BY <2>2, <2>3, <2>5, <3>1, <3>2, Zenon DEF DcCalled16
  <2>6. CASE o \in DOMAIN opc16_sub_list /\ subs # {}
    <3>1. full = [ret |-> 0, text |-> Text16(j, pc), instr |-> Translate(j)]
      BY <1>1, <1>3, <2>6, Zenon DEF Decode16
    <3>2. n \in subs
      BY <2>6
    <3>3. DcPair(i, j, n)
      BY <2>2, <2>6, <3>2, Zenon DEF DcPair
    <3> QED
      BY <2>2, <2>3, <3>1, <3>3, Zenon DEF DcCalled16
  <2> QED
    BY <2>4, <2>5, <2>6, Zenon
<1> QED
  BY <1>2, <1>3

\* disassm16 starts with the name n, which no user register has.
LEMMA DcName16 ==
    ASSUME NEW i, NEW j, NEW n, NEW pc, DcPair(i, j, n)
    PROVE  ~DcNameless(Text16(j, pc))
<1>1. /\ j.opc = i.opc /\ j.mnemonic = n
  BY DcPairFacts
<1>2. i.opc \in Opc16
  BY DEF DcPair, DcShape16
<1>3. n \notin {"MFUSR", "MTUSR"}
  BY <1>2 DEF DcPair, Opc16, opc16_list, opc16_sub_list
<1>4. Text16(j, pc)[1] = n
  BY <1>1, <1>2 DEF Text16, Opc16, opc16_list
<1> QED
  BY <1>3, <1>4 DEF DcNameless

\* Both hold of every 16-bit word.
LEMMA DcWord16 ==
    ASSUME NEW w \in Nat, NEW pc
    PROVE  /\ DcWordRight(Decode16(w, pc, FALSE), Decode16(w, pc, TRUE), pc)
           /\ DcWordShort(Decode16(w, pc, FALSE), Decode16(w, pc, TRUE), pc)
<1>1. PICK full, short : full = Decode16(w, pc, FALSE) /\ short = Decode16(w, pc, TRUE)
  OBVIOUS
<1> SUFFICES DcWordRight(full, short, pc) /\ DcWordShort(full, short, pc)
  BY <1>1, Zenon
<1>2. CASE full.ret = 1 /\ short.ret = 1
  BY <1>2 DEF DcWordRight, DcWordShort
<1>3. CASE ~(full.ret = 1 /\ short.ret = 1)
  <2>0. DcCalled16(full, short, pc)
    BY <1>1, DcCalls16, Zenon
  <2>1. PICK i : /\ DcShape16(i)
                 /\ short = [ret |-> 0, text |-> Unknown, instr |-> Translate(i)]
                 /\ \/ /\ i.opc \in DOMAIN opc16_sub_list
                       /\ \A s \in DOMAIN opc16_sub_list[i.opc] :
                              opc16_sub_list[i.opc][s] # i.sub
                       /\ full = [ret |-> 1, text |-> Unknown, instr |-> i]
                    \/ \E j, n : /\ DcPair(i, j, n)
                                 /\ full = [ret |-> 0, text |-> Text16(j, pc),
                                            instr |-> Translate(j)]
    BY <1>3, <2>0, Zenon DEF DcCalled16
  <2>2. short.ret = 0 /\ short.instr = Translate(i)
    BY <2>1
  <2>3. ASSUME i.opc \in DOMAIN opc16_sub_list,
               \A s \in DOMAIN opc16_sub_list[i.opc] : opc16_sub_list[i.opc][s] # i.sub,
               full = [ret |-> 1, text |-> Unknown, instr |-> i]
        PROVE  DcWordRight(full, short, pc) /\ DcWordShort(full, short, pc)
    <3>1. ExecutedOp(Translate(i), pc) = <<"unimplemented">>
      BY <2>1, <2>3, DcNoForm
    <3>2. full.ret = 1
      BY <2>3
    <3> QED
      BY <2>2, <3>1, <3>2 DEF DcWordRight, DcWordShort
  <2>4. ASSUME NEW j, NEW n, DcPair(i, j, n),
               full = [ret |-> 0, text |-> Text16(j, pc), instr |-> Translate(j)]
        PROVE  DcWordRight(full, short, pc) /\ DcWordShort(full, short, pc)
    <3>1. full.ret = 0 /\ full.text = Text16(j, pc) /\ full.instr = Translate(j)
      BY <2>4
    <3>2. ExecutedOp(Translate(i), pc) = Meaning(Text16(j, pc))
      BY <2>4, DcForms
    <3>3. [Translate(j) EXCEPT !.mnemonic = ""] = [Translate(i) EXCEPT !.mnemonic = ""]
      BY <2>4, DcMnemonic
    <3> QED
      BY <2>2, <2>4, <3>1, <3>2, <3>3, DcName16, Zenon DEF DcWordRight, DcWordShort, DcAsShown
  <2> QED
    BY <2>1, <2>3, <2>4
<1> QED
  BY <1>2, <1>3

\* decoded holds nothing, or what the two calls make of one word.
DcInv ==
    \/ decoded = NothingDecoded
    \/ \E w \in Nat, width \in {16, 32} :
          decoded = [width |-> width, word |-> w, shown |-> DecodeInstr(w, width, FALSE),
                     run |-> DecodeInstr(w, width, TRUE)]

DcSpec == DcInit /\ [][DcNext]_decoded

LEMMA DcInvHolds == DcSpec => []DcInv
<1>1. DcInit => DcInv
  BY DEF DcInit, DcInv
<1>2. DcInv /\ [DcNext]_decoded => DcInv'
  <2> SUFFICES ASSUME DcInv, [DcNext]_decoded
               PROVE  DcInv'
    OBVIOUS
  <2>1. CASE Decode
    <3>1. CASE \E w \in DcWords16 :
                 decoded' = [width |-> 16, word |-> w, shown |-> DecodeInstr(w, 16, FALSE),
                             run |-> DecodeInstr(w, 16, TRUE)]
      BY <3>1, DcAssumption, Zenon DEF DcInv
    <3>2. CASE \E w \in DcWords32 :
                 decoded' = [width |-> 32, word |-> w, shown |-> DecodeInstr(w, 32, FALSE),
                             run |-> DecodeInstr(w, 32, TRUE)]
      BY <3>2, DcAssumption, Zenon DEF DcInv
    <3> QED
      BY <2>1, <3>1, <3>2, Zenon DEF Decode
  <2>2. CASE ClearInstr
    BY <2>2, Zenon DEF ClearInstr, DcInv
  <2>3. CASE UNCHANGED decoded
    BY <2>3, Zenon DEF DcInv
  <2> QED
    BY <2>1, <2>2, <2>3 DEF DcNext
<1> QED
  BY <1>1, <1>2, PTL DEF DcSpec

\* The lemmas on one word, put together.
LEMMA DcInvMeans == DcInv => ShownIsExecuted /\ DecodeOnlyAgrees
<1>1. CASE decoded = NothingDecoded
  <2>1. decoded.width = 0
    BY <1>1 DEF NothingDecoded
  <2> QED
    BY <2>1 DEF ShownIsExecuted, DecodeOnlyAgrees, Shown
<1>2. ASSUME NEW w \in Nat, NEW width \in {16, 32},
             decoded = [width |-> width, word |-> w, shown |-> DecodeInstr(w, width, FALSE),
                        run |-> DecodeInstr(w, width, TRUE)]
      PROVE  ShownIsExecuted /\ DecodeOnlyAgrees
  <2>1. PICK full, short : /\ full = DecodeInstr(w, width, FALSE)
                           /\ short = DecodeInstr(w, width, TRUE)
    OBVIOUS
  <2>2. decoded.shown = full /\ decoded.run = short
    BY <1>2, <2>1
  <2>3. DcWordRight(full, short, DcPC) /\ DcWordShort(full, short, DcPC)
    <3>1. CASE width = 16
      BY <2>1, <3>1, DcWord16, Zenon DEF DecodeInstr
    <3>2. CASE width = 32
      <4>1. width # 16
        BY <3>2
      <4> QED
        BY <2>1, <4>1, DcWord32, Zenon DEF DecodeInstr
    <3> QED
      BY <3>1, <3>2
  <2>4. ShownIsExecuted
    BY <2>2, <2>3, Zenon DEF ShownIsExecuted, Shown, SignOfSlti, DecodedOp, Nameless,
          DcWordRight, DcAsShown, DcNameless
  <2>5. DecodeOnlyAgrees
    BY <2>2, <2>3, Zenon DEF DecodeOnlyAgrees, DecodedOp, DcWordShort
  <2> QED
    BY <2>4, <2>5
<1> QED
  BY <1>1, <1>2 DEF DcInv

\* What the disassembly shows is what the simulator runs, for every word (up to
\* the sign of SLTI's constant, which ShownIsExecuted leaves out).
THEOREM WordsRunAsShown == DcSpec => []ShownIsExecuted
BY DcInvHolds, DcInvMeans, PTL

\* The simulator's short call decodes what the full call decodes.
THEOREM ShortCallDecodesTheSame == DcSpec => []DecodeOnlyAgrees
BY DcInvHolds, DcInvMeans, PTL
=============================================================================
