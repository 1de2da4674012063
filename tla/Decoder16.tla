----------------------------- MODULE Decoder16 -----------------------------
(***************************************************************************)
(* disassm/decode_disassm16.c with its table opc16.c: the 16-bit forms.    *)
(* An opcode is named by its macro in opcodes16.h.  Text16 is what         *)
(* disassm16 shows (mnemonic and operands, without the layout), and        *)
(* Translate what translate_to_32 hands to the simulator.                  *)
(***************************************************************************)
EXTENDS Decoder32

\* name |-> <<bits of opcode, opcode, type>>
opc16_list ==
    [ADD333 |-> <<6, 12, "333">>, ADD45 |-> <<6, 4, "45">>, ADDI333 |-> <<6, 14, "333">>,
     ADDI45 |-> <<6, 6, "45">>, BEQS38 |-> <<4, 10, "38">>, BEQZ38 |-> <<4, 8, "38">>,
     BEQZS8 |-> <<7, 104, "8">>, BFMI333 |-> <<6, 11, "333_SUB">>, BNES38 |-> <<4, 11, "38">>,
     BNEZ38 |-> <<4, 9, "38">>, BNEZS8 |-> <<7, 105, "8">>, J8 |-> <<7, 85, "8">>,
     JR5 |-> <<10, 744, "5">>, JRAL5 |-> <<10, 745, "5">>, LBI333 |-> <<6, 19, "333">>,
     LHI333 |-> <<6, 18, "333">>, LWI333 |-> <<6, 16, "333">>, LWI333_bi |-> <<6, 17, "333">>,
     LWI450 |-> <<6, 26, "450">>, MOV55 |-> <<5, 0, "55">>, MOVI55 |-> <<5, 1, "55">>,
     RET5 |-> <<10, 748, "5">>, SBI333 |-> <<6, 23, "333">>, SHI333 |-> <<6, 22, "333">>,
     SLLI333 |-> <<6, 10, "333">>, SLT45 |-> <<6, 49, "45">>, SLTI45 |-> <<6, 51, "45">>,
     SLTS45 |-> <<6, 48, "45">>, SLTSI45 |-> <<6, 50, "45">>, SRAI45 |-> <<6, 8, "45">>,
     SRLI45 |-> <<6, 9, "45">>, SUB333 |-> <<6, 13, "333">>, SUB45 |-> <<6, 5, "45">>,
     SUBI333 |-> <<6, 15, "333">>, SUBI45 |-> <<6, 7, "45">>, SWI333 |-> <<6, 20, "333">>,
     SWI333_bi |-> <<6, 21, "333">>, SWI450 |-> <<6, 27, "450">>, XWI37 |-> <<4, 7, "37_SUB">>,
     ADDI10S |-> <<5, 27, "10">>, XWI37SP |-> <<4, 14, "37_SUB">>]

\* opcode |-> the mnemonic of each sub-opcode
opc16_sub_list ==
    [BFMI333 |-> [SEB33 |-> 2, SEH33 |-> 3, ZEB33 |-> 0, ZEH33 |-> 1, XLSB33 |-> 4],
     XWI37 |-> [LWI37 |-> 0, SWI37 |-> 1],
     XWI37SP |-> [LWI37SP |-> 0, SWI37SP |-> 1]]

Opc16 == DOMAIN opc16_list

\* The rows whose opcode the word w starts with; the loop of decode_16 asks for
\* 10, 7, 6, 5 and 4 bits of opcode in this order and takes the first row.
Matching16(w) ==
    LET top == [n \in {4, 5, 6, 7, 10} |-> Bits(w, 14, 15 - n)]
    IN {o \in Opc16 : opc16_list[o][2] = top[opc16_list[o][1]]}

FindRow16(w) ==
    {o \in Matching16(w) : \A p \in Matching16(w) : opc16_list[p][1] <= opc16_list[o][1]}

\* reg_4T5
reg_4T5(r) == IF r <= 11 THEN r ELSE r + 4

\* fill_args_instr_type16
FillArgs16(w, o) ==
    LET type == opc16_list[o][3]
        z    == [Cleared EXCEPT !.opc = o, !.mnemonic = o, !.len = 2]
    IN CASE type = "10" -> [z EXCEPT !.imm1_10 = Bits(w, 9, 0)]
         [] type = "333" -> [z EXCEPT !.rt = Bits(w, 8, 6), !.ra = Bits(w, 5, 3),
                                      !.rb = Bits(w, 2, 0), !.imm1_3 = Bits(w, 2, 0)]
         [] type = "333_SUB" -> [z EXCEPT !.rt = Bits(w, 8, 6), !.ra = Bits(w, 5, 3),
                                          !.sub = Bits(w, 2, 0)]
         [] type = "37_SUB" -> [z EXCEPT !.rt = Bits(w, 10, 8), !.sub = Bits(w, 7, 7),
                                         !.imm1_7 = Bits(w, 6, 0)]
         [] type = "38" -> [z EXCEPT !.rt = Bits(w, 10, 8), !.imm1_8 = Bits(w, 7, 0)]
         [] type = "45" -> [z EXCEPT !.ra = Bits(w, 8, 5), !.rt = Bits(w, 8, 5),
                                     !.rb = Bits(w, 4, 0), !.imm1_5 = Bits(w, 4, 0)]
         [] type = "450" -> [z EXCEPT !.rt = Bits(w, 8, 5), !.ra = Bits(w, 4, 0)]
         [] type = "5" -> [z EXCEPT !.rb = Bits(w, 4, 0)]
         [] type = "55" -> [z EXCEPT !.rt = Bits(w, 9, 5), !.ra = Bits(w, 4, 0),
                                     !.imm1_5 = Bits(w, 4, 0)]
         [] type = "8" -> [z EXCEPT !.imm1_8 = Bits(w, 7, 0)]

----------------------------------------------------------------------------
\* disassm16 at address pc, by the operands its format strings name.
Text16(i, pc) ==
    LET o == i.opc
        n == i.mnemonic
        target == SignExtend(i.imm1_8 * 2, 9, 32) + pc
    IN CASE o = "ADDI10S" -> <<n, SignExtend(i.imm1_10, 10, 32)>>
         [] o \in {"ADD333", "SUB333"} -> <<n, i.rt, i.ra, i.rb>>
         [] o \in {"ADDI333", "SLLI333", "SUBI333", "LBI333", "SBI333"} ->
                <<n, i.rt, i.ra, i.imm1_3>>
         [] o \in {"LHI333", "SHI333"} -> <<n, i.rt, i.ra, i.imm1_3 * 2>>
         [] o \in {"LWI333", "SWI333", "LWI333_bi", "SWI333_bi"} ->
                <<n, i.rt, i.ra, i.imm1_3 * 4>>
         [] o = "BFMI333" -> <<n, i.rt, i.ra>>
         [] o \in {"XWI37", "XWI37SP"} -> <<n, i.rt, i.imm1_7 * 4>>
         [] o \in {"BEQS38", "BEQZ38", "BNES38", "BNEZ38"} -> <<n, i.rt, target>>
         [] o \in {"ADD45", "SUB45"} -> <<n, reg_4T5(i.rt), i.rb>>
         [] o \in {"SLT45", "SLTS45"} -> <<n, reg_4T5(i.ra), i.rb>>
         [] o \in {"ADDI45", "SRAI45", "SRLI45", "SUBI45"} -> <<n, reg_4T5(i.rt), i.imm1_5>>
         [] o \in {"SLTI45", "SLTSI45"} -> <<n, reg_4T5(i.ra), i.imm1_5>>
         [] o \in {"LWI450", "SWI450"} -> <<n, reg_4T5(i.rt), i.ra>>
         [] o \in {"JR5", "JRAL5", "RET5"} -> <<n, i.rb>>
         [] o = "MOV55" -> <<n, i.rt, i.ra>>
         [] o = "MOVI55" -> <<n, i.rt, SignExtend(i.imm1_5, 5, 32)>>
         [] o \in {"BEQZS8", "BNEZS8", "J8"} -> <<n, target>>

----------------------------------------------------------------------------
(* translate_to_32, one operator per opcode length as in its outer switch. *)
(* ERRX ends the program: the result is Exits.                             *)

Exits == [Cleared EXCEPT !.opc = "exit"]

As(i, opc) == [i EXCEPT !.opc = opc]
AsSub(i, opc, sub) == [i EXCEPT !.opc = opc, !.sub = opc32_sub_list[opc][sub]]

\* Branches with r5 or zero, and words at fp (r28) or sp (r31).
Translate4(i) ==
    CASE i.opc = "BEQS38" ->
            [AsSub(i, "BR1", "BEQ") EXCEPT !.ra = 5, !.imm1_14 = SignExtend(i.imm1_8, 8, 14)]
      [] i.opc = "BNES38" ->
            [AsSub(i, "BR1", "BNE") EXCEPT !.ra = 5, !.imm1_14 = SignExtend(i.imm1_8, 8, 14)]
      [] i.opc = "BEQZ38" ->
            [AsSub(i, "BR2", "BEQZ") EXCEPT !.imm1_16 = SignExtend(i.imm1_8, 8, 20)]
      [] i.opc = "BNEZ38" ->
            [AsSub(i, "BR2", "BNEZ") EXCEPT !.imm1_16 = SignExtend(i.imm1_8, 8, 20)]
      [] i.opc \in {"XWI37", "XWI37SP"} ->
            [As(i, IF i.sub = 0 THEN "LWI" ELSE "SWI") EXCEPT
                !.ra = IF i.opc = "XWI37" THEN 28 ELSE 31, !.imm1_15 = i.imm1_7]

Translate5(i) ==
    CASE i.opc = "MOVI55" -> [As(i, "MOVI") EXCEPT !.imm1_20 = SignExtend(i.imm1_5, 5, 20)]
      [] i.opc = "MOV55" -> [As(i, "ADDI") EXCEPT !.imm1_15 = 0]
      [] i.opc = "ADDI10S" ->
            [As(i, "ADDI") EXCEPT !.rt = 31, !.ra = 31,
                                  !.imm1_15 = SignExtend(i.imm1_10, 10, 15)]

\* The 45 forms name one register, with 4 bits, as source and destination.
Twice(i) == [i EXCEPT !.rt = reg_4T5(i.rt), !.ra = reg_4T5(i.rt)]

\* Variant of Translate6Alu: "subtract immediate" loses its sign.
Translate6AluAdds(i) ==
    CASE i.opc \in {"ADDI45", "SUBI45"} -> [As(Twice(i), "ADDI") EXCEPT !.imm1_15 = i.imm1_5]
      [] i.opc \in {"ADDI333", "SUBI333"} -> [As(i, "ADDI") EXCEPT !.imm1_15 = i.imm1_3]
      [] OTHER -> Exits

Translate6Alu(i) ==
    CASE i.opc = "ADDI45" -> [As(Twice(i), "ADDI") EXCEPT !.imm1_15 = i.imm1_5]
      [] i.opc = "ADDI333" -> [As(i, "ADDI") EXCEPT !.imm1_15 = i.imm1_3]
      [] i.opc = "SUBI45" -> [As(Twice(i), "ADDI") EXCEPT !.imm1_15 = NEG(i.imm1_5)]
      [] i.opc = "SUBI333" -> [As(i, "ADDI") EXCEPT !.imm1_15 = NEG(i.imm1_3)]
      [] i.opc = "ADD45" -> AsSub(Twice(i), "ALU_1", "ADD")
      [] i.opc = "ADD333" -> AsSub(i, "ALU_1", "ADD")
      [] i.opc = "SUB45" -> AsSub(Twice(i), "ALU_1", "SUB")
      [] i.opc = "SUB333" -> AsSub(i, "ALU_1", "SUB")
      [] i.opc = "SRAI45" -> AsSub(Twice(i), "ALU_1", "SRAI")
      [] i.opc = "SRLI45" -> AsSub(Twice(i), "ALU_1", "SRLI")
      [] i.opc = "SLLI333" -> [AsSub(i, "ALU_1", "SLLI") EXCEPT !.imm1_5 = i.imm1_3]

\* Variant of Translate6Bits: the switch has no default.
Translate6BitsOpen(i) ==
    IF i.sub = 0 THEN [As(i, "ANDI") EXCEPT !.imm1_15 = 255] ELSE AsSub(i, "ALU_1", "SEH")

\* Byte and halfword extension; five of the eight sub-opcodes exist.
Translate6Bits(i) ==
    CASE i.sub = 0 -> [As(i, "ANDI") EXCEPT !.imm1_15 = 255]
      [] i.sub = 1 -> AsSub(i, "ALU_1", "ZEH")
      [] i.sub = 2 -> AsSub(i, "ALU_1", "SEB")
      [] i.sub = 3 -> AsSub(i, "ALU_1", "SEH")
      [] i.sub = 4 -> [As(i, "ANDI") EXCEPT !.imm1_15 = 1]
      [] OTHER -> Exits

\* Comparisons write r15.
Compared(i) == [i EXCEPT !.ra = reg_4T5(i.ra), !.rt = 15]

Translate6Compare(i) ==
    CASE i.opc = "SLTI45" -> [As(Compared(i), "SLTI") EXCEPT !.imm1_15 = i.imm1_5]
      [] i.opc = "SLTSI45" -> [As(Compared(i), "SLTSI") EXCEPT !.imm1_15 = i.imm1_5]
      [] i.opc = "SLT45" -> AsSub(Compared(i), "ALU_1", "SLT")
      [] i.opc = "SLTS45" -> AsSub(Compared(i), "ALU_1", "SLTS")

WideAccess == [LWI333 |-> "LWI", LWI333_bi |-> "LWI_bi", LHI333 |-> "LHI", LBI333 |-> "LBI",
               SWI333 |-> "SWI", SWI333_bi |-> "SWI_bi", SHI333 |-> "SHI", SBI333 |-> "SBI"]

Translate6Access(i) ==
    CASE i.opc = "LWI450" -> [As(i, "LWI") EXCEPT !.rt = reg_4T5(i.rt), !.imm1_15 = 0]
      [] i.opc = "SWI450" -> [As(i, "SWI") EXCEPT !.rt = reg_4T5(i.rt), !.imm1_15 = 0]
      [] OTHER -> [As(i, WideAccess[i.opc]) EXCEPT !.imm1_15 = i.imm1_3]

Translate7(i) ==
    CASE i.opc = "BEQZS8" ->
            [AsSub(i, "BR2", "BEQZ") EXCEPT !.rt = 15, !.imm1_16 = SignExtend(i.imm1_8, 8, 16)]
      [] i.opc = "BNEZS8" ->
            [AsSub(i, "BR2", "BNEZ") EXCEPT !.rt = 15, !.imm1_16 = SignExtend(i.imm1_8, 8, 16)]
      [] i.opc = "J8" -> [As(i, "J") EXCEPT !.imm1_24 = SignExtend(i.imm1_8, 8, 24)]

Translate10(i) ==
    CASE i.opc = "JR5" -> AsSub(i, "JREG", "JR")
      [] i.opc = "RET5" -> AsSub(i, "JREG", "RET")
      [] i.opc = "JRAL5" -> [AsSub(i, "JREG", "JRAL") EXCEPT !.rt = 30]

Translate(i) ==
    LET length == opc16_list[i.opc][1]
    IN CASE length = 4 -> Translate4(i)
         [] length = 5 -> Translate5(i)
         [] length = 7 -> Translate7(i)
         [] length = 10 -> Translate10(i)
         [] i.opc = "BFMI333" -> Translate6Bits(i)
         [] i.opc \in {"SLTI45", "SLTSI45", "SLT45", "SLTS45"} -> Translate6Compare(i)
         [] i.opc \in DOMAIN WideAccess \cup {"LWI450", "SWI450"} -> Translate6Access(i)
         [] OTHER -> Translate6Alu(i)

----------------------------------------------------------------------------
\* decode_16: the return code, what is shown and what is handed on.  With
\* decode_only nothing is shown and the sub-opcode is not looked up.
Decode16(w, pc, decode_only) ==
    IF FindRow16(w) = {} THEN [ret |-> 1, text |-> <<"unknown">>, instr |-> Cleared]
    ELSE LET o == CHOOSE r \in FindRow16(w) : TRUE
             i == FillArgs16(w, o)
             named == o \notin DOMAIN opc16_sub_list
             subs == IF named THEN {} ELSE {s \in DOMAIN opc16_sub_list[o] :
                                                opc16_sub_list[o][s] = i.sub}
         IN IF decode_only THEN [ret |-> 0, text |-> <<"unknown">>, instr |-> Translate(i)]
            ELSE IF named THEN [ret |-> 0, text |-> Text16(i, pc), instr |-> Translate(i)]
            ELSE IF subs = {} THEN [ret |-> 1, text |-> <<"unknown">>, instr |-> i]
            ELSE LET s == CHOOSE x \in subs : TRUE
                     j == [i EXCEPT !.mnemonic = s]
                 IN [ret |-> 0, text |-> Text16(j, pc), instr |-> Translate(j)]
=============================================================================
