------------------------------ MODULE ScrProofs ------------------------------
(***************************************************************************)
(* Proofs about scripts and runs inside each other (Scripts), for all       *)
(* scripts, breakpoints and programs, any depth and any number of files.    *)
(***************************************************************************)
EXTENDS Scripts, FiniteSetTheorems, SequenceTheorems, TLAPS

ScriptFrames == [kind : {"script"}, rest : Seq(ScrLineType)]
RunFrames ==
    [kind : {"run"}, nb_steps : Nat, step : Nat, asked : Nat, phase : {"step", "walk"},
     idx : Nat, instr : Int, stop : BOOLEAN]

\* A run still has the number of steps its line asked for, and never more steps
\* behind it; scripts and runs differ in their kind.
GoodRuns == {f \in RunFrames : f.nb_steps = f.asked /\ (f.asked # ScrForever => f.step <= f.asked)}
GoodFrames == ScriptFrames \cup GoodRuns

ScrStates ==
    [setup : ScrSetups, pc : Int, arg : Nat, stack : Seq(GoodFrames), open : Int,
     failed : Int, sigint : BOOLEAN, done : Nat \X Nat]

ScriptsOf(stack) == {i \in 1..Len(stack) : stack[i].kind = "script"}

\* The states that ScrKeepsItsOwn and the argument for it describe.
Good(s) ==
    /\ s \in ScrStates
    /\ s.done[1] = s.done[2]
    /\ s.open = Cardinality(ScriptsOf(s.stack)) + s.failed

----------------------------------------------------------------------------
(* The stack                                                               *)

LEMMA KindOfFrame ==
    ASSUME NEW f \in GoodFrames
    PROVE  /\ f.kind = "script" <=> f \in ScriptFrames
           /\ f.kind = "run" <=> f \in GoodRuns
           /\ f.kind \in {"script", "run"}
BY DEF GoodFrames, GoodRuns, ScriptFrames, RunFrames

LEMMA ScriptsFinite ==
    ASSUME NEW stack \in Seq(GoodFrames)
    PROVE  IsFiniteSet(ScriptsOf(stack)) /\ Cardinality(ScriptsOf(stack)) \in Nat
<1>1. Len(stack) \in Nat
  OBVIOUS
<1>2. IsFiniteSet(1..Len(stack))
  BY <1>1, FS_Interval
<1>3. ScriptsOf(stack) \in SUBSET (1..Len(stack))
  BY DEF ScriptsOf
<1> QED
  BY <1>2, <1>3, FS_Subset, FS_CardinalityType

LEMMA PushStack ==
    ASSUME NEW stack \in Seq(GoodFrames), NEW f \in GoodFrames
    PROVE  /\ Append(stack, f) \in Seq(GoodFrames)
           /\ f.kind = "script" =>
                Cardinality(ScriptsOf(Append(stack, f))) = Cardinality(ScriptsOf(stack)) + 1
           /\ f.kind # "script" => ScriptsOf(Append(stack, f)) = ScriptsOf(stack)
<1> DEFINE new == Append(stack, f)
           n == Len(stack)
<1>1. /\ n \in Nat /\ new \in Seq(GoodFrames) /\ Len(new) = n + 1 /\ new[n + 1] = f
      /\ \A i \in 1..n : new[i] = stack[i]
  OBVIOUS
<1>2. n + 1 \notin ScriptsOf(stack)
  BY <1>1 DEF ScriptsOf
<1> HIDE DEF new
<1>3. 1..(n + 1) = (1..n) \cup {n + 1}
  BY <1>1
<1>4. ASSUME f.kind = "script" PROVE ScriptsOf(new) = ScriptsOf(stack) \cup {n + 1}
  BY <1>1, <1>3, <1>4 DEF ScriptsOf
<1>5. ASSUME f.kind # "script" PROVE ScriptsOf(new) = ScriptsOf(stack)
  BY <1>1, <1>3, <1>5 DEF ScriptsOf
<1>6. ASSUME f.kind = "script" PROVE Cardinality(ScriptsOf(new)) = Cardinality(ScriptsOf(stack)) + 1
  BY <1>2, <1>4, <1>6, ScriptsFinite, FS_AddElement
<1> QED
  BY <1>1, <1>5, <1>6 DEF new

LEMMA PopStack ==
    ASSUME NEW stack \in Seq(GoodFrames), stack # <<>>
    PROVE  /\ Front(stack) \in Seq(GoodFrames)
           /\ Last(stack) \in GoodFrames
           /\ Last(stack).kind = "script" =>
                Cardinality(ScriptsOf(Front(stack))) = Cardinality(ScriptsOf(stack)) - 1
           /\ Last(stack).kind # "script" => ScriptsOf(Front(stack)) = ScriptsOf(stack)
           /\ Append(Front(stack), Last(stack)) = stack
<1> DEFINE new == Front(stack)
           n == Len(stack) - 1
<1>1. n \in Nat /\ Len(stack) = n + 1 /\ \A i \in 1..(n + 1) : stack[i] \in GoodFrames
  OBVIOUS
<1>2. new = SubSeq(stack, 1, n) /\ Last(stack) = stack[n + 1]
  BY <1>1 DEF Front, Last
<1> HIDE DEF new, n
<1>3. /\ new \in Seq(GoodFrames) /\ Len(new) = IF 1 <= n THEN n - 1 + 1 ELSE 0
      /\ \A i \in 1..(n - 1 + 1) : new[i] = stack[1 + i - 1]
  BY <1>1, <1>2, SubSeqProperties
<1>4. new \in Seq(GoodFrames) /\ Len(new) = n /\ \A i \in 1..n : new[i] = stack[i]
  BY <1>1, <1>3
<1>5. Last(stack) \in GoodFrames
  BY <1>1, <1>2
<1>6. Append(new, Last(stack)) = stack
  <2>1. /\ Append(new, Last(stack)) \in Seq(GoodFrames)
        /\ Len(Append(new, Last(stack))) = n + 1
        /\ Append(new, Last(stack))[n + 1] = stack[n + 1]
        /\ \A i \in 1..n : Append(new, Last(stack))[i] = stack[i]
    BY <1>1, <1>2, <1>4, <1>5
  <2>2. \A i \in 1..(n + 1) : Append(new, Last(stack))[i] = stack[i]
    BY <1>1, <2>1
  <2> QED
    BY <1>1, <2>1, <2>2, SeqEqual
<1>7. /\ Cardinality(ScriptsOf(new)) \in Nat
      /\ Last(stack).kind = "script" =>
           Cardinality(ScriptsOf(stack)) = Cardinality(ScriptsOf(new)) + 1
      /\ Last(stack).kind # "script" => ScriptsOf(stack) = ScriptsOf(new)
  <2> DEFINE f == Last(stack)
  <2> HIDE DEF f
  <2>1. /\ f.kind = "script" =>
              Cardinality(ScriptsOf(Append(new, f))) = Cardinality(ScriptsOf(new)) + 1
        /\ f.kind # "script" => ScriptsOf(Append(new, f)) = ScriptsOf(new)
    BY <1>4, <1>5, PushStack DEF f
  <2>2. Cardinality(ScriptsOf(new)) \in Nat
    BY <1>4, ScriptsFinite
  <2> QED
    BY <1>6, <2>1, <2>2 DEF f
<1> HIDE DEF new
<1>8. Last(stack).kind = "script" =>
        Cardinality(ScriptsOf(new)) = Cardinality(ScriptsOf(stack)) - 1
  <2> DEFINE a == Cardinality(ScriptsOf(new))
             b == Cardinality(ScriptsOf(stack))
  <2>1. a \in Nat /\ (Last(stack).kind = "script" => b = a + 1)
    BY <1>7
  <2> HIDE DEF a, b
  <2>2. Last(stack).kind = "script" => a = b - 1
    BY <2>1
  <2> QED
    BY <2>2 DEF a, b
<1> QED
  BY <1>4, <1>5, <1>6, <1>7, <1>8 DEF new

LEMMA ReplaceTop ==
    ASSUME NEW stack \in Seq(GoodFrames), stack # <<>>,
           NEW f \in GoodFrames, f.kind = Last(stack).kind
    PROVE  /\ Front(stack) \o <<f>> \in Seq(GoodFrames)
           /\ Cardinality(ScriptsOf(Front(stack) \o <<f>>)) = Cardinality(ScriptsOf(stack))
<1>1. /\ Front(stack) \in Seq(GoodFrames) /\ Last(stack) \in GoodFrames
      /\ Append(Front(stack), Last(stack)) = stack
  BY PopStack
<1> DEFINE new == Front(stack)
           l == Last(stack)
<1> HIDE DEF new, l
<1>2. new \o <<f>> = Append(new, f)
  BY <1>1 DEF new
<1>3. /\ Append(new, f) \in Seq(GoodFrames)
      /\ f.kind = "script" =>
           Cardinality(ScriptsOf(Append(new, f))) = Cardinality(ScriptsOf(new)) + 1
      /\ f.kind # "script" => ScriptsOf(Append(new, f)) = ScriptsOf(new)
  BY <1>1, PushStack DEF new
<1>4. /\ l.kind = "script" =>
           Cardinality(ScriptsOf(stack)) = Cardinality(ScriptsOf(new)) + 1
      /\ l.kind # "script" => ScriptsOf(stack) = ScriptsOf(new)
  BY <1>1, PushStack DEF new, l
<1>5. f.kind = l.kind
  BY DEF l
<1> QED
  BY <1>2, <1>3, <1>4, <1>5 DEF new

----------------------------------------------------------------------------
(* What the operators make of a good state is good                         *)

LEMMA FieldsOfGood ==
    ASSUME NEW s, Good(s)
    PROVE  /\ s.setup \in ScrSetups /\ s.pc \in Int /\ s.arg \in Nat /\ s.stack \in Seq(GoodFrames)
           /\ s.open \in Int /\ s.failed \in Int /\ s.sigint \in BOOLEAN
           /\ s.done \in Nat \X Nat /\ s.done[1] = s.done[2]
           /\ s.open = Cardinality(ScriptsOf(s.stack)) + s.failed
           /\ Cardinality(ScriptsOf(s.stack)) \in Nat
<1>1. s \in ScrStates
  BY DEF Good
<1> QED
  BY <1>1, ScriptsFinite DEF Good, ScrStates

\* A stack with as many scripts can take the place of the other.
LEMMA OtherStack ==
    ASSUME NEW s, Good(s), NEW stack \in Seq(GoodFrames),
           Cardinality(ScriptsOf(stack)) = Cardinality(ScriptsOf(s.stack))
    PROVE  Good([s EXCEPT !.stack = stack])
<1> DEFINE new == [s EXCEPT !.stack = stack]
<1>1. s \in ScrStates /\ s.done[1] = s.done[2] /\ s.open = Cardinality(ScriptsOf(s.stack)) + s.failed
  BY DEF Good
<1>2. new \in ScrStates /\ new.done = s.done /\ new.open = s.open /\ new.failed = s.failed
      /\ new.stack = stack
  BY <1>1 DEF ScrStates
<1> HIDE DEF new
<1>3. Good(new)
  BY <1>1, <1>2 DEF Good
<1> QED
  BY <1>3 DEF new

LEMMA OtherFields ==
    ASSUME NEW s, Good(s), NEW pc \in Int, NEW arg \in Nat, NEW sigint \in BOOLEAN
    PROVE  /\ Good([s EXCEPT !.pc = pc])
           /\ Good([s EXCEPT !.arg = arg])
           /\ Good([s EXCEPT !.sigint = sigint])
BY DEF Good, ScrStates

LEMMA OpenedIsGood ==
    ASSUME NEW s, Good(s), NEW file, CanOpen(s, file)
    PROVE  Good(Opened(s, file))
<1> DEFINE f == ScriptFrame(s.setup.files[file])
           stack == Append(s.stack, f)
           c == Cardinality(ScriptsOf(s.stack))
           new == Opened(s, file)
<1>1. f \in GoodFrames /\ f.kind = "script"
  <2>1. s.setup.files[file] \in Seq(ScrLineType)
    BY FieldsOfGood, ScrAssumption DEF CanOpen
  <2> QED
    BY <2>1 DEF ScriptFrame, GoodFrames, ScriptFrames
<1>2. s \in ScrStates /\ s.stack \in Seq(GoodFrames) /\ s.open \in Int /\ s.failed \in Int
      /\ s.open = c + s.failed /\ c \in Nat /\ s.done[1] = s.done[2]
  BY FieldsOfGood DEF Good
<1> HIDE DEF f
<1>3. stack \in Seq(GoodFrames) /\ Cardinality(ScriptsOf(stack)) = c + 1
  BY <1>1, <1>2, PushStack
<1>4. new.stack = stack /\ new.open = s.open + 1 /\ new.failed = s.failed /\ new.done = s.done
  BY <1>2 DEF Opened, ScrStates, f
<1>5. new \in ScrStates
  <2>1. new = [s EXCEPT !.stack = stack, !.open = s.open + 1]
    BY DEF Opened, f
  <2>2. s.open + 1 \in Int
    BY <1>2
  <2> HIDE DEF stack, new
  <2> QED
    BY <1>2, <1>3, <2>1, <2>2 DEF ScrStates
<1> HIDE DEF stack, c
<1> DEFINE o == s.open
           fl == s.failed
<1> HIDE DEF o, fl, new
<1>6. o + 1 = (c + 1) + fl
  <2>1. o \in Int /\ fl \in Int /\ o = c + fl /\ c \in Nat
    BY <1>2 DEF o, fl
  <2> QED
    BY <2>1
<1>7. new.open = Cardinality(ScriptsOf(new.stack)) + new.failed
  BY <1>3, <1>4, <1>6 DEF o, fl
<1>8. Good(new)
  BY <1>2, <1>4, <1>5, <1>7 DEF Good
<1> QED
  BY <1>8 DEF new

LEMMA RunIsGood ==
    ASSUME NEW s, Good(s), NEW n \in Nat, n # 0
    PROVE  Good([s EXCEPT !.stack = Append(@, RunFrame(n))])
<1> DEFINE f == RunFrame(n)
<1>1. f \in GoodFrames /\ f.kind # "script"
  BY DEF RunFrame, GoodFrames, GoodRuns, RunFrames
<1> HIDE DEF f
<1>2. s.stack \in Seq(GoodFrames)
  BY FieldsOfGood
<1>3. Append(s.stack, f) \in Seq(GoodFrames) /\ ScriptsOf(Append(s.stack, f)) = ScriptsOf(s.stack)
  BY <1>1, <1>2, PushStack
<1>4. Good([s EXCEPT !.stack = Append(s.stack, f)])
  BY <1>3, OtherStack
<1> QED
  BY <1>4 DEF f

LEMMA ParsedIsGood ==
    ASSUME NEW s0, Good(s0), NEW l \in ScrLineType
    PROVE  Good(Parsed(s0, l))
<1> DEFINE s == IF l.cmd = "s" THEN s0 ELSE [s0 EXCEPT !.arg = l.arg]
<1>0. l.arg \in Nat /\ l.cmd \in {"run", "read", "setpc", "s", "bad"}
  BY DEF ScrLineType
<1>1. Good(s)
  <2>1. /\ s0.pc \in Int /\ s0.sigint \in BOOLEAN
    BY FieldsOfGood
  <2>2. Good([s0 EXCEPT !.arg = l.arg])
    BY <1>0, <2>1, OtherFields
  <2> QED
    BY <2>2
<1>2. Good(ScrSimple(s, s.pc))
  <2>1. s.pc \in Int /\ s.arg \in Nat /\ s.sigint \in BOOLEAN
    BY <1>1, FieldsOfGood
  <2> HIDE DEF s
  <2>2. CASE s.pc \in DOMAIN ScrProgram
    <3>1. s.pc + ScrProgram[s.pc] \in Int
      BY <2>1, <2>2, ScrAssumption
    <3>2. Good([s EXCEPT !.pc = s.pc + ScrProgram[s.pc]])
      BY <1>1, <2>1, <3>1, OtherFields
    <3> QED
      BY <2>2, <3>2 DEF ScrSimple
  <2>3. CASE s.pc \notin DOMAIN ScrProgram
    BY <1>1, <2>3 DEF ScrSimple
  <2> QED
    BY <2>2, <2>3
<1>3. Good([s EXCEPT !.pc = l.arg])
  <2>1. s.arg \in Nat /\ s.sigint \in BOOLEAN
    BY <1>1, FieldsOfGood
  <2>2. l.arg \in Int
    BY <1>0
  <2> HIDE DEF s
  <2> QED
    BY <1>1, <2>1, <2>2, OtherFields
<1>4. CanOpen(s, l.arg) => Good(Opened(s, l.arg))
  BY <1>0, <1>1, OpenedIsGood
<1>5. l.arg # 0 => Good([s EXCEPT !.stack = Append(@, RunFrame(l.arg))])
  BY <1>0, <1>1, RunIsGood
<1>6. Parsed(s0, l) = CASE l.cmd = "run" -> IF l.arg = 0 THEN s ELSE [s EXCEPT !.stack = Append(@, RunFrame(l.arg))]
         [] l.cmd = "read" -> IF CanOpen(s, l.arg) THEN Opened(s, l.arg) ELSE s
         [] l.cmd = "setpc" -> [s EXCEPT !.pc = l.arg]
         [] OTHER -> ScrSimple(s, s.pc)
  BY DEF Parsed
<1> HIDE DEF s
<1>7. CASE l.cmd = "run"
  BY <1>1, <1>5, <1>6, <1>7
<1>8. CASE l.cmd = "read"
  BY <1>1, <1>4, <1>6, <1>8
<1>9. CASE l.cmd = "setpc"
  BY <1>3, <1>6, <1>9
<1>10. CASE l.cmd \notin {"run", "read", "setpc"}
  BY <1>2, <1>6, <1>10
<1> QED
  BY <1>7, <1>8, <1>9, <1>10

LEMMA ReturnedIsGood ==
    ASSUME NEW s, Good(s), NEW failed \in BOOLEAN
    PROVE  Good(Returned(s, failed))
<1>1. CASE s.stack = <<>> \/ Last(s.stack).kind = "script"
  BY <1>1 DEF Returned
<1>2. CASE ~(s.stack = <<>> \/ Last(s.stack).kind = "script")
  <2> DEFINE l == Last(s.stack)
             f == WalkedOn(l, failed)
             stack == Front(s.stack) \o <<f>>
  <2>1. s.stack \in Seq(GoodFrames) /\ l \in GoodFrames
    BY <1>2, FieldsOfGood, PopStack
  <2>2. l \in GoodRuns
    BY <1>2, <2>1, KindOfFrame
  <2>3. f \in GoodFrames /\ f.kind = l.kind
    <3> DEFINE stop == l.stop \/ failed
    <3>1. stop \in BOOLEAN
      OBVIOUS
    <3> DEFINE idx == l.idx + 1
    <3>2. f = [l EXCEPT !.idx = idx, !.stop = stop]
      BY DEF WalkedOn
    <3> HIDE DEF l, stop, f
    <3>3. l \in RunFrames /\ idx \in Nat
      BY <2>2 DEF GoodRuns, RunFrames
    <3> HIDE DEF idx
    <3>4. f \in RunFrames
      BY <3>1, <3>2, <3>3 DEF RunFrames
    <3>5. f.nb_steps = l.nb_steps /\ f.asked = l.asked /\ f.step = l.step /\ f.kind = l.kind
      BY <3>2, <3>3 DEF RunFrames
    <3> QED
      BY <2>2, <3>4, <3>5 DEF GoodFrames, GoodRuns
  <2> HIDE DEF f
  <2>4. stack \in Seq(GoodFrames) /\ Cardinality(ScriptsOf(stack)) = Cardinality(ScriptsOf(s.stack))
    BY <1>2, <2>1, <2>3, ReplaceTop
  <2>5. Good([s EXCEPT !.stack = stack])
    BY <2>4, OtherStack
  <2> QED
    BY <1>2, <2>5 DEF Returned, f
<1> QED
  BY <1>1, <1>2

----------------------------------------------------------------------------
(* Every action                                                            *)

LEMMA LineIsGood ==
    ASSUME Good(scr), ScrLine
    PROVE  Good(scr')
<1> DEFINE l == ScrTop
           f == [l EXCEPT !.rest = Tail(@)]
           line == Head(l.rest)
<1>1. scr.stack # <<>> /\ l.kind = "script" /\ l.rest # <<>>
  BY DEF ScrLine, ScrAt
<1>2. scr.stack \in Seq(GoodFrames) /\ l \in ScriptFrames
  BY <1>1, FieldsOfGood, PopStack, KindOfFrame DEF ScrTop
<1>3. f \in GoodFrames /\ f.kind = l.kind
  <2> HIDE DEF l
  <2>1. l.rest \in Seq(ScrLineType) /\ Tail(l.rest) \in Seq(ScrLineType)
    BY <1>1, <1>2 DEF ScriptFrames
  <2> QED
    BY <1>2, <2>1 DEF GoodFrames, ScriptFrames
<1>4. Good(ScrReplaced(f))
  <2> DEFINE stack == Front(scr.stack) \o <<f>>
  <2>1. stack \in Seq(GoodFrames) /\ Cardinality(ScriptsOf(stack)) = Cardinality(ScriptsOf(scr.stack))
    <3> HIDE DEF f
    <3> QED
      BY <1>1, <1>2, <1>3, ReplaceTop DEF ScrTop
  <2>2. Good([scr EXCEPT !.stack = stack])
    <3> HIDE DEF stack
    <3> QED
      BY <2>1, OtherStack
  <2> QED
    BY <2>2 DEF ScrReplaced
<1>5. line \in ScrLineType
  <2> HIDE DEF l
  <2>1. l.rest \in Seq(ScrLineType)
    BY <1>2 DEF ScriptFrames
  <2> QED
    BY <1>1, <2>1
<1>6. scr' = Parsed(ScrReplaced(f), line)
  BY DEF ScrLine
<1> QED
  BY <1>4, <1>5, <1>6, ParsedIsGood

LEMMA RunEndIsGood ==
    ASSUME NEW s, Good(s), s.stack # <<>>, Last(s.stack).kind = "run"
    PROVE  Good([s EXCEPT !.stack = Front(@)])
<1>1. s.stack \in Seq(GoodFrames)
  BY FieldsOfGood
<1>2. Front(s.stack) \in Seq(GoodFrames) /\ ScriptsOf(Front(s.stack)) = ScriptsOf(s.stack)
  BY <1>1, PopStack
<1> QED
  BY <1>2, OtherStack

\* One script less: its file is closed, or it counts as failed.
LEMMA ScriptEndIsGood ==
    ASSUME NEW s, Good(s), s.stack # <<>>, Last(s.stack).kind = "script"
    PROVE  /\ Good([s EXCEPT !.stack = Front(@), !.open = @ - 1])
           /\ Good([s EXCEPT !.stack = Front(@), !.failed = @ + 1])
<1> DEFINE stack == Front(s.stack)
           c == Cardinality(ScriptsOf(stack))
           o == s.open
           fl == s.failed
           closed == [s EXCEPT !.stack = stack, !.open = o - 1]
           bad == [s EXCEPT !.stack = stack, !.failed = fl + 1]
<1>1. s \in ScrStates /\ s.done[1] = s.done[2] /\ stack \in Seq(GoodFrames)
  BY FieldsOfGood, PopStack DEF Good
<1>2. /\ c \in Nat /\ o \in Int /\ fl \in Int /\ o = Cardinality(ScriptsOf(s.stack)) + fl
      /\ Cardinality(ScriptsOf(s.stack)) \in Nat /\ c = Cardinality(ScriptsOf(s.stack)) - 1
  BY FieldsOfGood, PopStack, ScriptsFinite
<1> HIDE DEF c, o, fl, stack
<1>3. o - 1 = c + fl /\ o = c + (fl + 1) /\ o - 1 \in Int /\ fl + 1 \in Int
  BY <1>2
<1>4. /\ closed \in ScrStates /\ closed.stack = stack /\ closed.open = o - 1
      /\ closed.failed = fl /\ closed.done = s.done
  BY <1>1, <1>3 DEF ScrStates, fl
<1>5. /\ bad \in ScrStates /\ bad.stack = stack /\ bad.open = o
      /\ bad.failed = fl + 1 /\ bad.done = s.done
  BY <1>1, <1>3 DEF ScrStates, o
<1> HIDE DEF closed, bad
<1>6. Good(closed) /\ Good(bad)
  BY <1>1, <1>3, <1>4, <1>5 DEF Good, c
<1> QED
  BY <1>6 DEF closed, bad, o, fl, stack

LEMMA BadLineIsGood ==
    ASSUME Good(scr), ScrBadLine
    PROVE  Good(scr')
BY ScriptEndIsGood, ReturnedIsGood DEF ScrBadLine, ScrAt, ScrTop

LEMMA EndIsGood ==
    ASSUME Good(scr), ScrEnd
    PROVE  Good(scr')
BY ScriptEndIsGood, ReturnedIsGood DEF ScrEnd, ScrAt, ScrTop

LEMMA WalkIsGood ==
    ASSUME Good(scr), ScrWalk
    PROVE  Good(scr')
<1>1. \E b : \/ scr' = Returned(scr, FALSE)
             \/ CanOpen(scr, b) /\ scr' = Opened(scr, b)
             \/ scr' = Returned(scr, TRUE)
  BY DEF ScrWalk
<1> QED
  BY <1>1, OpenedIsGood, ReturnedIsGood

LEMMA StepIsGood ==
    ASSUME Good(scr), ScrStep
    PROVE  Good(scr')
<1> DEFINE l == ScrTop
           instr == ScrProgram[scr.pc]
           f == [l EXCEPT !.phase = "walk", !.idx = 1, !.stop = FALSE, !.instr = instr]
<1>1. scr.stack # <<>> /\ Last(scr.stack).kind = "run"
  BY DEF ScrStep, ScrAt, ScrTop
<1>2. scr.stack \in Seq(GoodFrames) /\ l \in GoodRuns
  BY <1>1, FieldsOfGood, PopStack, KindOfFrame DEF ScrTop
<1>3. CASE scr.pc \in DOMAIN ScrProgram
  <2>1. instr \in Int
    BY <1>3, ScrAssumption
  <2>2. f \in GoodFrames /\ f.kind = l.kind
    <3> HIDE DEF l, instr
    <3>1. l \in RunFrames
      BY <1>2 DEF GoodRuns
    <3>2. f \in RunFrames
      BY <2>1, <3>1 DEF RunFrames
    <3>3. f.nb_steps = l.nb_steps /\ f.asked = l.asked /\ f.step = l.step /\ f.kind = l.kind
      BY <3>1 DEF RunFrames
    <3> HIDE DEF f
    <3> QED
      BY <1>2, <3>2, <3>3 DEF GoodFrames, GoodRuns
  <2> DEFINE stack == Front(scr.stack) \o <<f>>
  <2>3. stack \in Seq(GoodFrames) /\ Cardinality(ScriptsOf(stack)) = Cardinality(ScriptsOf(scr.stack))
    <3> HIDE DEF f
    <3> QED
      BY <1>1, <1>2, <2>2, ReplaceTop DEF ScrTop
  <2>4. scr' = [scr EXCEPT !.stack = stack]
    BY <1>3 DEF ScrStep, ScrReplaced
  <2> HIDE DEF stack
  <2> QED
    BY <2>3, <2>4, OtherStack
<1>4. CASE scr.pc \notin DOMAIN ScrProgram
  <2>1. scr' = [scr EXCEPT !.stack = Front(@)]
    BY <1>4 DEF ScrStep
  <2> QED
    BY <1>1, <2>1, RunEndIsGood
<1> QED
  BY <1>3, <1>4

LEMMA OtherDone ==
    ASSUME NEW s, Good(s), NEW n \in Nat, NEW m \in Nat, n = m
    PROVE  Good([s EXCEPT !.done = <<n, m>>])
<1> DEFINE new == [s EXCEPT !.done = <<n, m>>]
<1>1. s \in ScrStates /\ s.open = Cardinality(ScriptsOf(s.stack)) + s.failed
  BY DEF Good
<1>2. /\ new \in ScrStates /\ new.done = <<n, m>> /\ new.open = s.open
      /\ new.failed = s.failed /\ new.stack = s.stack
  BY <1>1 DEF ScrStates
<1> HIDE DEF new
<1>3. Good(new)
  BY <1>1, <1>2 DEF Good
<1> QED
  BY <1>3 DEF new

\* A run counts a step only when the loop goes on, so that its last step is
\* the one its line asked for.
LEMMA StepEndIsGood ==
    ASSUME Good(scr), ScrStepEnd
    PROVE  Good(scr')
<1> DEFINE l == ScrTop
           n == IF l.asked = ScrForever THEN l.step ELSE l.step + 1
           next == [l EXCEPT !.phase = "step", !.step = n]
           moved == [scr EXCEPT !.pc = @ + l.instr]
           ended == [moved EXCEPT !.stack = Front(@)]
<1>1. scr.stack # <<>> /\ Last(scr.stack).kind = "run"
  BY DEF ScrStepEnd, ScrAt, ScrTop
<1>2. scr.stack \in Seq(GoodFrames) /\ l \in GoodRuns
  BY <1>1, FieldsOfGood, PopStack, KindOfFrame DEF ScrTop
<1> HIDE DEF l
<1>3. l \in RunFrames /\ l.nb_steps = l.asked /\ l.asked \in Nat /\ l.step \in Nat /\ l.instr \in Int
      /\ (l.asked # ScrForever => l.step <= l.asked)
  BY <1>2 DEF GoodRuns, RunFrames
<1>4. Good(moved) /\ moved.stack = scr.stack
  <2> DEFINE pc == scr.pc + l.instr
  <2>1. pc \in Int /\ scr.arg \in Nat /\ scr.sigint \in BOOLEAN
    BY <1>3, FieldsOfGood
  <2>2. scr \in ScrStates
    BY DEF Good
  <2> HIDE DEF pc
  <2>3. Good([scr EXCEPT !.pc = pc]) /\ [scr EXCEPT !.pc = pc].stack = scr.stack
    BY <2>1, <2>2, OtherFields DEF ScrStates
  <2> QED
    BY <2>3 DEF pc
<1> HIDE DEF moved
<1>5. Good(ended)
  BY <1>1, <1>4, RunEndIsGood
<1>6. CASE l.stop
  <2>1. scr' = [scr EXCEPT !.stack = Front(@)]
    BY <1>6 DEF ScrStepEnd, l
  <2> QED
    BY <1>1, <2>1, RunEndIsGood
<1>7. CASE ~l.stop /\ ScrInterrupted(l)
  <2>1. scr' = [ended EXCEPT !.sigint = FALSE]
    BY <1>7 DEF ScrStepEnd, l, moved
  <2>2. ended.pc \in Int /\ ended.arg \in Nat
    BY <1>5, FieldsOfGood
  <2> HIDE DEF ended
  <2> QED
    BY <1>5, <2>1, <2>2, OtherFields
<1>8. CASE ~l.stop /\ ~ScrInterrupted(l) /\ ScrLast(l)
  <2>1. scr' = [ended EXCEPT !.done = <<l.asked, l.step>>]
    BY <1>8 DEF ScrStepEnd, l, moved
  <2>2. l.asked = l.step
    <3>1. l.asked # ScrForever /\ l.step >= l.asked
      BY <1>3, <1>8 DEF ScrLast
    <3> DEFINE a == l.asked
               b == l.step
    <3>2. a \in Nat /\ b \in Nat /\ b >= a /\ b <= a
      BY <1>3, <3>1
    <3> HIDE DEF a, b
    <3>3. a = b
      BY <3>2
    <3> QED
      BY <3>3 DEF a, b
  <2> HIDE DEF ended
  <2> QED
    BY <1>3, <1>5, <2>1, <2>2, OtherDone
<1>9. CASE ~l.stop /\ ~ScrInterrupted(l) /\ ~ScrLast(l)
  <2> DEFINE stack == Front(scr.stack) \o <<next>>
  <2>1. n \in Nat /\ (l.asked # ScrForever => n <= l.asked)
    <3> DEFINE a == l.asked
               b == l.step
    <3>1. a \in Nat /\ b \in Nat /\ (a # ScrForever => ~(b >= a))
      BY <1>3, <1>9 DEF ScrLast
    <3>2. n = IF a = ScrForever THEN b ELSE b + 1
      OBVIOUS
    <3> HIDE DEF a, b, n
    <3>3. n \in Nat /\ (a # ScrForever => n <= a)
      BY <3>1, <3>2
    <3> QED
      BY <3>3 DEF a
  <2>2. next \in GoodFrames /\ next.kind = l.kind
    <3> HIDE DEF n
    <3>1. next \in RunFrames
      BY <1>3, <2>1 DEF RunFrames
    <3>2. next.nb_steps = l.nb_steps /\ next.asked = l.asked /\ next.step = n /\ next.kind = l.kind
      BY <1>3 DEF RunFrames
    <3> HIDE DEF next
    <3> QED
      BY <1>3, <2>1, <3>1, <3>2 DEF GoodFrames, GoodRuns
  <2>3. stack \in Seq(GoodFrames) /\ Cardinality(ScriptsOf(stack)) = Cardinality(ScriptsOf(scr.stack))
    <3> HIDE DEF next
    <3> QED
      BY <1>1, <1>2, <2>2, ReplaceTop DEF l, ScrTop
  <2>4. scr' = [moved EXCEPT !.stack = stack]
    <3>1. scr' = [moved EXCEPT !.stack = Front(@) \o <<next>>]
      BY <1>9 DEF ScrStepEnd, l, moved
    <3> QED
      BY <1>4, <3>1
  <2> HIDE DEF stack
  <2> QED
    BY <1>4, <2>3, <2>4, OtherStack
<1> QED
  BY <1>6, <1>7, <1>8, <1>9

----------------------------------------------------------------------------
(***************************************************************************)
(* Scripts and runs inside each other keep what is theirs: a run that ends *)
(* regularly has done the steps of its own line, and the open files are    *)
(* those of the active scripts and of the scripts that a bad line ended    *)
(* (cmd_parser.c:72-99, simulate.c:1042-1117), for all scripts, at every    *)
(* depth.                                                                  *)
(***************************************************************************)
THEOREM ScrCorrect == ScrInit /\ [][ScrNext]_scr => []ScrKeepsItsOwn
<1>1. ScrInit => Good(scr)
  <2> SUFFICES ASSUME ScrInit PROVE Good(scr)
    OBVIOUS
  <2>1. PICK setup \in ScrSetups :
          scr = [setup |-> setup, pc |-> 0, arg |-> 0, stack |-> <<>>, open |-> 0,
                 failed |-> 0, sigint |-> FALSE, done |-> ScrNoDone]
    BY DEF ScrInit
  <2>2. scr \in ScrStates /\ scr.done[1] = scr.done[2]
    BY <2>1 DEF ScrStates, ScrNoDone
  <2>3. ScriptsOf(<<>>) = {}
    BY DEF ScriptsOf
  <2>4. Cardinality(ScriptsOf(<<>>)) = 0
    BY <2>3, FS_EmptySet
  <2>5. scr.stack = <<>> /\ scr.open = 0 /\ scr.failed = 0
    BY <2>1
  <2>6. Cardinality(ScriptsOf(scr.stack)) = 0
    BY <2>4, <2>5
  <2>7. scr.open = Cardinality(ScriptsOf(scr.stack)) + scr.failed
    BY <2>5, <2>6
  <2> QED
    BY <2>2, <2>7 DEF Good
<1>2. Good(scr) /\ [ScrNext]_scr => Good(scr)'
  <2> SUFFICES ASSUME Good(scr), [ScrNext]_scr PROVE Good(scr')
    BY DEF Good, ScrStates
  <2>1. CASE ScrType
    <3>1. PICK l \in scr.setup.typed : scr' = Parsed(scr, l)
      BY <2>1 DEF ScrType
    <3>2. l \in ScrLineType
      BY FieldsOfGood, ScrAssumption
    <3> QED
      BY <3>1, <3>2, ParsedIsGood
  <2>2. CASE ScrLine
    BY <2>2, LineIsGood
  <2>3. CASE ScrBadLine
    BY <2>3, BadLineIsGood
  <2>4. CASE ScrEnd
    BY <2>4, EndIsGood
  <2>5. CASE ScrStep
    BY <2>5, StepIsGood
  <2>6. CASE ScrWalk
    BY <2>6, WalkIsGood
  <2>7. CASE ScrStepEnd
    BY <2>7, StepEndIsGood
  <2>8. CASE ScrCtrlC
    <3>1. scr.pc \in Int /\ scr.arg \in Nat
      BY FieldsOfGood
    <3> QED
      BY <2>8, <3>1, OtherFields DEF ScrCtrlC
  <2>9. CASE UNCHANGED scr
    BY <2>9
  <2> QED
    BY <2>1, <2>2, <2>3, <2>4, <2>5, <2>6, <2>7, <2>8, <2>9 DEF ScrNext, ScrThread
<1>3. Good(scr) => ScrKeepsItsOwn
  <2> SUFFICES ASSUME Good(scr) PROVE ScrKeepsItsOwn
    OBVIOUS
  <2>1. ScrActive("script") = ScriptsOf(scr.stack)
    <3> DEFINE stack == scr.stack
    <3>1. stack \in Seq(GoodFrames)
      BY FieldsOfGood
    <3> HIDE DEF stack
    <3>2. DOMAIN stack = 1..Len(stack)
      BY <3>1
    <3>3. ScrActive("script") = {i \in DOMAIN stack : stack[i].kind = "script"}
      BY DEF ScrActive, stack
    <3>4. ScrActive("script") = ScriptsOf(stack)
      BY <3>2, <3>3 DEF ScriptsOf
    <3> QED
      BY <3>4 DEF stack
  <2> QED
    BY <2>1, FieldsOfGood DEF ScrKeepsItsOwn
<1> QED
  BY <1>1, <1>2, <1>3, PTL
=============================================================================
