----------------------------- MODULE Decoder32 -----------------------------
(***************************************************************************)
(* disassm/decode_disassm32.c with its tables in opc32.c.  Opcodes and     *)
(* sub-opcodes are named by their macros in opcodes32.h (OPC_LWI_bi is     *)
(* LWI_bi); Text32 is what disassm32 shows.                                *)
(* What the 16-bit decoder shares comes first: bits of a word, the sign    *)
(* extension and the fields of instr_t.  A value of 32 bits is the integer *)
(* it stands for when read as signed: TLC has no larger numbers, and every *)
(* immediate is shorter.                                                   *)
(***************************************************************************)
EXTENDS Integers

\* Bits lo..hi of word w.
Bits(w, hi, lo) == (w \div 2^lo) % 2^(hi - lo + 1)

\* nds32_sign_extend: the bits from length up to ext are set when bit
\* length-1 is; bits that nb has above ext stay.  With ext = 32 the result is
\* the negative number.
SignExtend(nb, length, ext) ==
    IF Bits(nb, length - 1, length - 1) = 0 THEN nb
    ELSE IF ext = 32 THEN (nb % 2^length) - 2^length
    ELSE (nb % 2^length) + (2^ext - 2^length) + 2^ext * (nb \div 2^ext)

\* The macro NEG on a uint32_t.
NEG(nb) == -nb

\* instr_t after decode_instr's memset; opc is the name of the opcode's macro.
InstrFields == {"len", "sub", "rt", "ra", "rb", "rd", "rs", "re", "dt", "enable",
                "imm1_24", "imm1_20", "imm1_16", "imm1_15", "imm1_14", "imm1_10",
                "imm1_8", "imm1_7", "imm1_5", "imm1_3", "imm1_2", "imm2_5",
                "usr", "group", "sridx", "en"}

Cleared == [f \in InstrFields \cup {"opc", "mnemonic"} |->
                IF f \in {"opc", "mnemonic"} THEN "" ELSE 0]

----------------------------------------------------------------------------
\* name |-> <<opcode, type>>
opc32_list ==
    [ALU_1 |-> <<32, "T4">>, ADDI |-> <<40, "T2">>, ANDI |-> <<42, "T2">>, BR1 |-> <<38, "T2">>,
     BR2 |-> <<39, "T1">>, MISC |-> <<50, "T4">>, ALU_2 |-> <<33, "T5">>, J |-> <<36, "T0">>,
     JREG |-> <<37, "T4">>, MEM |-> <<28, "T3">>, LBI |-> <<0, "T2">>, LBI_bi |-> <<4, "T2">>,
     LBSI |-> <<16, "T2">>, LBSI_bi |-> <<20, "T2">>, LHI |-> <<1, "T2">>, LHI_bi |-> <<5, "T2">>,
     LHSI |-> <<17, "T2">>, LHSI_bi |-> <<21, "T2">>, LSMW |-> <<29, "T5">>, LWI |-> <<2, "T2">>,
     LWI_bi |-> <<6, "T2">>, MOVI |-> <<34, "T1">>, ORI |-> <<44, "T2">>, SBI |-> <<8, "T2">>,
     SBI_bi |-> <<12, "T2">>, SETHI |-> <<35, "T1">>, SHI |-> <<9, "T2">>, SHI_bi |-> <<13, "T2">>,
     SLTI |-> <<46, "T2">>, SLTSI |-> <<47, "T2">>, SUBRI |-> <<41, "T2">>, SWI |-> <<10, "T2">>,
     SWI_bi |-> <<14, "T2">>, XORI |-> <<43, "T2">>]

\* The rows of each opcode that has sub-opcodes.  SETEND and SETGIE have the
\* numbers of CCTL and MFSR, which come first: they are never found.
opc32_sub_list ==
    [ALU_1 |-> [ADD |-> 0, AND |-> 2, CMOVN |-> 27, CMOVZ |-> 26, NOR |-> 5, OR |-> 4,
                ROTR |-> 15, ROTRI |-> 11, SEB |-> 16, SEH |-> 17, SLL |-> 12, SLLI |-> 8,
                SLT |-> 6, SLTS |-> 7, SRA |-> 14, SRAI |-> 10, SRL |-> 13, SRLI |-> 9,
                SUB |-> 1, SVA |-> 24, SVS |-> 25, WSBH |-> 20, XOR |-> 3, ZEH |-> 19,
                DIVR |-> 23, DIVSR |-> 22],
     ALU_2 |-> [DIV |-> 47, DIVS |-> 46, MADD32 |-> 51, MADD64 |-> 43, MADDS64 |-> 42,
                MFUSR |-> 32, MSUB32 |-> 53, MSUB64 |-> 45, MSUBS64 |-> 44, MTUSR |-> 33,
                MUL |-> 36, MULT32 |-> 49, MULT64 |-> 41, MULTS64 |-> 40, BSET |-> 8,
                BTST |-> 11, MIN |-> 1, BSP |-> 13, ABS |-> 3, MAX |-> 0, MADDR32 |-> 115,
                MSUBR32 |-> 117, MULR64 |-> 105, MULSR64 |-> 104],
     BR1 |-> [BEQ |-> 0, BNE |-> 1],
     BR2 |-> [BEQZ |-> 2, BGEZ |-> 4, BGEZAL |-> 12, BGTZ |-> 6, BLEZ |-> 7, BLTZ |-> 5,
              BLTZAL |-> 13, BNEZ |-> 3],
     MISC |-> [BREAK |-> 10, CCTL |-> 1, DSB |-> 8, IRET |-> 4, ISB |-> 9, ISYNC |-> 13,
               MFSR |-> 2, MSYNC |-> 12, MTSR |-> 3, STANDBY |-> 0, SYSCALL |-> 11, TEQZ |-> 6,
               TNEZ |-> 7, TLBOP |-> 14, TRAP |-> 5],
     J |-> [J |-> 0, JAL |-> 1],
     JREG |-> [JR |-> 0, JRAL |-> 1, RET |-> 32],
     MEM |-> [LB |-> 0, LB_bi |-> 4, LBS |-> 16, LBS_bi |-> 20, LH |-> 1, LH_bi |-> 5,
              LHS |-> 17, LHS_bi |-> 21, LLW |-> 24, LW |-> 2, LW_bi |-> 6, SB |-> 8,
              SB_bi |-> 12, SCW |-> 25, SH |-> 9, SH_bi |-> 13, SW |-> 10, SW_bi |-> 14],
     LSMW |-> [LMW_ai |-> 16, LMW_bi |-> 0, LMW_ad |-> 24, LMW_bd |-> 8, LMW_aim |-> 20,
               LMW_bim |-> 4, LMW_adm |-> 28, LMW_bdm |-> 12, SMW_ai |-> 48, SMW_bi |-> 32,
               SMW_ad |-> 56, SMW_bd |-> 40, SMW_aim |-> 52, SMW_bim |-> 36, SMW_adm |-> 60,
               SMW_bdm |-> 44, SMWA_adm |-> 61, SMWA_bdm |-> 45, LMWA_bim |-> 5]]

Opc32 == DOMAIN opc32_list
HasSub == DOMAIN opc32_sub_list

\* The mnemonic of an instruction, if its sub-opcode is known.
Names(opc, sub) ==
    IF opc \notin HasSub THEN {opc}
    ELSE {s \in DOMAIN opc32_sub_list[opc] : opc32_sub_list[opc][s] = sub}

\* fill_args_instr_type32.  dt is masked with a bit that a 32-bit word does not
\* have: it stays 0.
FillArgs32(w, o) ==
    LET type == opc32_list[o][2]
        z == [Cleared EXCEPT !.opc = o, !.mnemonic = o, !.len = 4]
        r == [z EXCEPT !.rt = Bits(w, 24, 20), !.ra = Bits(w, 19, 15), !.rb = Bits(w, 14, 10)]
    IN CASE type = "T0" -> [z EXCEPT !.sub = Bits(w, 24, 24), !.imm1_24 = Bits(w, 23, 0)]
         [] type = "T1" -> [z EXCEPT !.rt = Bits(w, 24, 20), !.imm1_20 = Bits(w, 19, 0),
                                     !.imm1_16 = Bits(w, 15, 0), !.sub = Bits(w, 19, 16)]
         [] type = "T2" -> [z EXCEPT !.rt = Bits(w, 24, 20), !.ra = Bits(w, 19, 15),
                                     !.sub = Bits(w, 14, 14), !.imm1_15 = Bits(w, 14, 0),
                                     !.imm1_14 = Bits(w, 13, 0)]
         [] type = "T3" -> [r EXCEPT !.imm1_5 = Bits(w, 14, 10), !.imm1_2 = Bits(w, 9, 8),
                                     !.sub = Bits(w, 7, 0)]
         [] type = "T4" -> [r EXCEPT !.rd = Bits(w, 9, 5), !.rs = Bits(w, 9, 5),
                                     !.imm1_5 = Bits(w, 14, 10), !.imm2_5 = Bits(w, 9, 5),
                                     !.sub = Bits(w, 4, 0), !.sridx = Bits(w, 19, 10),
                                     !.en = Bits(w, 20, 20),
                                     !.ra = IF o = "MISC" THEN Bits(w, 24, 20)
                                            ELSE Bits(w, 19, 15)]
         [] o = "ALU_2" -> [r EXCEPT !.dt = 0, !.sub = Bits(w, 9, 0), !.imm1_5 = Bits(w, 14, 10),
                                     !.usr = Bits(w, 19, 15), !.group = Bits(w, 14, 10)]
         [] o = "LSMW" -> [z EXCEPT !.rb = Bits(w, 24, 20), !.ra = Bits(w, 19, 15),
                                    !.re = Bits(w, 14, 10), !.enable = Bits(w, 9, 6),
                                    !.sub = Bits(w, 5, 0)]

----------------------------------------------------------------------------
\* disassm32 at address pc: the mnemonic and the operands, in their order.
Unknown == <<"unknown">>

\* Types T0, T1 and T2: jumps, constants, immediates, loads and stores.
TextImmediate(i, pc) ==
    LET o == i.opc
        n == i.mnemonic
    IN CASE o = "J" -> <<n, SignExtend(i.imm1_24 * 2, 25, 32) + pc>>
         [] o = "MOVI" -> <<n, i.rt, SignExtend(i.imm1_20, 20, 32)>>
         [] o = "SETHI" -> <<n, i.rt, i.imm1_20>>
         [] o = "BR2" -> IF n \in {"BGEZAL", "BLTZAL"} THEN Unknown
                         ELSE <<n, i.rt, SignExtend(i.imm1_16 * 2, 17, 32) + pc>>
         [] o \in {"ADDI", "SUBRI", "SLTI", "SLTSI", "LBI", "LBSI", "SBI", "LBI_bi", "LBSI_bi",
                   "SBI_bi"} ->
                <<n, i.rt, i.ra, SignExtend(i.imm1_15, 15, 32)>>
         [] o \in {"ANDI", "ORI", "XORI"} -> <<n, i.rt, i.ra, i.imm1_15>>
         [] o \in {"LHI", "LHSI", "SHI", "LHI_bi", "LHSI_bi", "SHI_bi"} ->
                <<n, i.rt, i.ra, SignExtend(i.imm1_15 * 2, 16, 32)>>
         [] o \in {"LWI", "SWI", "LWI_bi", "SWI_bi"} ->
                <<n, i.rt, i.ra, SignExtend(i.imm1_15 * 4, 17, 32)>>
         [] o = "BR1" -> <<n, i.rt, i.ra, SignExtend(i.imm1_14 * 2, 15, 32) + pc>>

\* Types T3 and T4: indexed access, ALU_1, register jumps, system registers.
TextRegister(i) ==
    LET o == i.opc
        n == i.mnemonic
    IN CASE o = "MEM" -> <<n, i.rt, i.ra, i.rb, i.imm1_2>>
         [] o = "ALU_1" ->
                CASE n \in {"SEH", "SEB", "ZEH"} -> <<n, i.rt, i.ra>>
                  [] n \in {"SLLI", "SRLI", "SRAI", "ROTRI"} -> <<n, i.rt, i.ra, i.imm1_5>>
                  [] n \in {"DIVR", "DIVSR"} -> <<n, i.rt, i.rs, i.ra, i.rb>>
                  [] n = "WSBH" -> Unknown
                  [] OTHER -> <<n, i.rt, i.ra, i.rb>>
         [] o = "JREG" -> IF n = "JRAL" THEN <<n, i.rt, i.rb>> ELSE <<n, i.rb>>
         [] o = "MISC" ->
                CASE n = "MFSR" -> <<n, i.rt, i.sridx>>
                  [] n = "MTSR" /\ i.imm2_5 = 0 -> <<n, i.ra, i.sridx>>
                  [] n = "MTSR" /\ i.imm2_5 = 2 -> <<"SETGIE", i.en>>
                  [] n \in {"CCTL", "MSYNC", "ISB", "IRET"} -> <<n>>
                  [] OTHER -> Unknown

\* get_usr_name: groups but 0 and most registers have no name.
get_usr_name(group, usr) ==
    IF group # 0 THEN "<disassm: unimpl>"
    ELSE IF usr > 3 THEN "<RESERVED>"
    ELSE <<"D0.LO", "D0.HI", "D1.LO", "D1.HI">>[usr + 1]

\* Type T5: ALU_2 and LSMW.
TextMultiple(i) ==
    LET n == i.mnemonic
    IN CASE i.opc = "LSMW" -> <<n, i.rb, i.ra, i.re, i.enable>>
         [] n \in {"MULTS64", "MULT64", "MADDS64", "MADD64", "MSUBS64", "MSUB64", "MULT32",
                   "MADD32", "MSUB32", "DIV", "DIVS"} -> <<n, i.dt, i.ra, i.rb>>
         [] n \in {"BSET", "BTST"} -> <<n, i.rt, i.ra, i.imm1_5>>
         [] n = "ABS" -> <<n, i.rt, i.ra>>
         [] n \in {"MFUSR", "MTUSR"} -> <<n, i.rt, get_usr_name(i.group, i.usr)>>
         [] OTHER -> <<n, i.rt, i.ra, i.rb>>

Text32(i, pc) ==
    CASE i.opc \in {"MEM", "ALU_1", "JREG", "MISC"} -> TextRegister(i)
      [] i.opc \in {"ALU_2", "LSMW"} -> TextMultiple(i)
      [] OTHER -> TextImmediate(i, pc)

\* decode_32
Decode32(w, pc, decode_only) ==
    LET rows == {o \in Opc32 : opc32_list[o][1] = Bits(w, 30, 25)}
    IN IF rows = {} THEN [ret |-> 1, text |-> Unknown, instr |-> Cleared]
       ELSE LET o == CHOOSE r \in rows : TRUE
                i == FillArgs32(w, o)
                names == Names(o, i.sub)
            IN IF decode_only THEN [ret |-> 0, text |-> Unknown, instr |-> i]
               ELSE IF names = {} THEN [ret |-> 1, text |-> Unknown, instr |-> i]
               ELSE LET j == [i EXCEPT !.mnemonic = CHOOSE s \in names : TRUE]
                    IN [ret |-> 0, text |-> Text32(j, pc), instr |-> j]
=============================================================================
