---------------------------- MODULE DecodeInstr ----------------------------
(***************************************************************************)
(* decode_instr (disassm/decode_disassm.c) as its two users see it: the    *)
(* views and the disassembler ask for the text, the simulator only for the *)
(* fields.  A step decodes one word at the address DcPC in both ways, the  *)
(* next one clears instr_t (memset).                                       *)
(***************************************************************************)
EXTENDS Decoder16, Executed

CONSTANTS DcWords16,  \* 16-bit words, with bit 15 set
          DcWords32,  \* 32-bit words, with bit 31 clear
          DcPC        \* address of the instruction

ASSUME DcAssumption == DcWords16 \subseteq Nat /\ DcWords32 \subseteq Nat

VARIABLE decoded  \* the word, and the results of the two calls

NothingDecoded == [width |-> 0]

DcInit == decoded = NothingDecoded

\* decode_instr: bit 31 of the word at PC says which decoder reads it.
DecodeInstr(w, width, decode_only) ==
    IF width = 16 THEN Decode16(w, DcPC, decode_only) ELSE Decode32(w, DcPC, decode_only)

Decode ==
    /\ decoded = NothingDecoded
    /\ \/ \E w \in DcWords16 :
            decoded' = [width |-> 16, word |-> w, shown |-> DecodeInstr(w, 16, FALSE),
                        run |-> DecodeInstr(w, 16, TRUE)]
       \/ \E w \in DcWords32 :
            decoded' = [width |-> 32, word |-> w, shown |-> DecodeInstr(w, 32, FALSE),
                        run |-> DecodeInstr(w, 32, TRUE)]

ClearInstr == decoded # NothingDecoded /\ decoded' = NothingDecoded

DcNext == Decode \/ ClearInstr

----------------------------------------------------------------------------
\* The 32-bit instruction that the manual gives as the meaning of a 16-bit
\* mnemonic and its operands; a 64-bit product by register stands for the pair
\* of registers that its first operand is in.
SameOperands == [ADD333 |-> "ADD", SUB333 |-> "SUB", ADDI333 |-> "ADDI", SLLI333 |-> "SLLI",
                 LBI333 |-> "LBI", SBI333 |-> "SBI", LHI333 |-> "LHI", SHI333 |-> "SHI",
                 LWI333 |-> "LWI", SWI333 |-> "SWI", LWI333_bi |-> "LWI_bi",
                 SWI333_bi |-> "SWI_bi", SEB33 |-> "SEB", SEH33 |-> "SEH", ZEH33 |-> "ZEH",
                 BEQZ38 |-> "BEQZ", BNEZ38 |-> "BNEZ", MOVI55 |-> "MOVI", J8 |-> "J",
                 JR5 |-> "JR", RET5 |-> "RET"]
SourceIsTarget == [ADD45 |-> "ADD", SUB45 |-> "SUB", ADDI45 |-> "ADDI", SRAI45 |-> "SRAI",
                   SRLI45 |-> "SRLI"]
ImpliedTarget == [SLT45 |-> <<"SLT", 15>>, SLTS45 |-> <<"SLTS", 15>>, SLTI45 |-> <<"SLTI", 15>>,
                  SLTSI45 |-> <<"SLTSI", 15>>, BEQZS8 |-> <<"BEQZ", 15>>,
                  BNEZS8 |-> <<"BNEZ", 15>>, JRAL5 |-> <<"JRAL", 30>>]
ImpliedLast == [MOV55 |-> <<"ADDI", 0>>, LWI450 |-> <<"LWI", 0>>, SWI450 |-> <<"SWI", 0>>,
                ZEB33 |-> <<"ANDI", 255>>, XLSB33 |-> <<"ANDI", 1>>]
ImpliedBase == [LWI37 |-> <<"LWI", 28>>, SWI37 |-> <<"SWI", 28>>, LWI37SP |-> <<"LWI", 31>>,
                SWI37SP |-> <<"SWI", 31>>, BEQS38 |-> <<"BEQ", 5>>, BNES38 |-> <<"BNE", 5>>]

Meaning(t) ==
    LET n == t[1]
    IN CASE n \in DOMAIN SameOperands -> <<SameOperands[n]>> \o Tail(t)
         [] n \in DOMAIN SourceIsTarget -> <<SourceIsTarget[n], t[2]>> \o Tail(t)
         [] n \in DOMAIN ImpliedTarget -> ImpliedTarget[n] \o Tail(t)
         [] n \in DOMAIN ImpliedLast -> <<ImpliedLast[n][1], t[2], t[3], ImpliedLast[n][2]>>
         [] n \in DOMAIN ImpliedBase -> <<ImpliedBase[n][1], t[2], ImpliedBase[n][2], t[3]>>
         [] n = "SUBI333" -> <<"ADDI", t[2], t[3], -t[4]>>
         [] n = "SUBI45" -> <<"ADDI", t[2], t[2], -t[3]>>
         [] n = "ADDI10S" -> <<"ADDI", 31, 31, t[2]>>
         [] n \in {"MULR64", "MULSR64"} ->
                LET pair == t[2] - (t[2] % 2)
                IN <<n, pair + 1, pair, t[3], t[4]>>
         [] OTHER -> t

Shown == decoded.width # 0 /\ decoded.shown.ret = 0 /\ decoded.shown.text # Unknown

\* SLTI with a negative constant: disassm32 extends its sign, simulate() does not.
SignOfSlti == decoded.run.instr.opc = "SLTI" /\ decoded.run.instr.imm1_15 >= 2^14

\* A register of the user group that disassm32 has no name for.
Nameless == /\ decoded.shown.text[1] \in {"MFUSR", "MTUSR"}
            /\ decoded.shown.text[3] \in {"<RESERVED>", "<disassm: unimpl>"}

DecodedOp == ExecutedOp(decoded.run.instr, DcPC)

\* What the disassembly shows is what the simulator runs: a 16-bit form through
\* its own text and through its translation, a 32-bit form through disassm32
\* and through simulate() give the same operation on the same operands.  Where
\* the text has no name for a user register, the simulator ends the run with an
\* error or loads the PC, MTUSR too.
ShownIsExecuted ==
    Shown /\ ~SignOfSlti =>
        \/ DecodedOp = <<"unimplemented">>
        \/ IF Nameless
           THEN DecodedOp \in {<<"error">>, <<"MFUSR", decoded.shown.text[2], "PC">>}
           ELSE DecodedOp = Meaning(decoded.shown.text)

\* The simulator's short call (decode_only) looks no sub-opcode up.  Where the
\* full call succeeds it gives the same fields; a word the full call refuses
\* ends the run or, when it is a register jump of unknown kind, is stepped over.
DecodeOnlyAgrees ==
    decoded.width # 0 =>
        IF decoded.shown.ret = 0
        THEN decoded.run.ret = 0 /\ [decoded.shown.instr EXCEPT !.mnemonic = ""]
                                    = [decoded.run.instr EXCEPT !.mnemonic = ""]
        ELSE \/ decoded.run.ret = 1
             \/ DecodedOp = <<"unimplemented">>
             \/ decoded.run.instr.opc = "JREG" /\ DecodedOp = <<"nothing">>

\* disassm/README: "0 | opc_6 | 000| Dt_1 | 0 | ra_5 | rb_5 | 0000 | sub_6".
\* The accumulator a 64-bit multiplication names is the one it works on.
AccumulatorOps == {"MULTS64", "MULT64", "MADDS64", "MADD64", "MSUBS64", "MSUB64", "MULT32",
                   "MADD32", "MSUB32", "DIV", "DIVS"}
DtIsDecoded ==
    Shown /\ decoded.shown.text[1] \in AccumulatorOps
        => decoded.shown.text[2] = Bits(decoded.word, 21, 21)
=============================================================================
