------------------------------ MODULE Executed ------------------------------
(***************************************************************************)
(* The operands simulate() uses for a decoded instruction                  *)
(* (simulate/simulate.c), written in the order in which the disassembly    *)
(* shows them: the simulator computes them from instr_t on its own and     *)
(* not through the disassembler.  pc is the address of the instruction;    *)
(* branches are given by their target.                                     *)
(***************************************************************************)
EXTENDS Decoder32, Sequences

\* opcodes and sub-opcodes with a case in simulate's switch
Simulated ==
    [ALU_1 |-> {"OR", "NOR", "AND", "SLT", "SLTS", "SUB", "ADD", "SRAI", "SRLI", "SLL", "SRL",
                "SEB", "ZEH", "SEH", "SLLI", "CMOVZ", "CMOVN", "DIVR", "DIVSR", "XOR"},
     ALU_2 |-> {"BSET", "MADD32", "MUL", "MADDR32", "BTST", "MULR64", "MULSR64", "MSUBR32",
                "MFUSR", "MTUSR", "BSP", "ABS"},
     BR1 |-> {"BEQ", "BNE"}, BR2 |-> {"BNEZ", "BGEZ", "BLEZ", "BEQZ", "BGTZ", "BLTZ"},
     J |-> {"J", "JAL"}, JREG |-> {"JR", "JRAL", "RET"},
     MISC |-> {"MFSR", "MTSR", "ISB", "IRET"},
     MEM |-> {"LW", "SW", "LB", "LH", "LBS", "SB"},
     LSMW |-> {"LMW_ai", "LMW_bi", "LMW_ad", "LMW_aim", "LMW_bim", "LMW_adm", "LMW_bdm",
               "SMW_ai", "SMW_bi", "SMW_ad", "SMW_aim", "SMW_bim", "SMW_adm", "SMW_bdm",
               "SMWA_adm", "SMWA_bdm", "LMWA_bim"}]

\* Opcodes without sub-opcode that simulate() does not know.
NotSimulated == {"LHSI_bi"}

\* SETHI to SHI_bi, ADDI, ANDI, ORI, SLTI, SLTSI, XORI, SUBRI.
OperandImmediate(i) ==
    CASE i.opc = "SETHI" -> <<i.rt, i.imm1_20>>
      [] i.opc = "MOVI" -> <<i.rt, SignExtend(i.imm1_20, 20, 32)>>
      [] i.opc \in {"ORI", "ANDI", "XORI", "SLTI"} -> <<i.rt, i.ra, i.imm1_15>>
      [] i.opc \in {"LWI", "SWI", "LWI_bi", "SWI_bi"} ->
            <<i.rt, i.ra, SignExtend(i.imm1_15 * 4, 17, 32)>>
      [] i.opc \in {"LHI", "LHSI", "SHI", "LHI_bi", "SHI_bi"} ->
            <<i.rt, i.ra, SignExtend(i.imm1_15 * 2, 16, 32)>>
      [] OTHER -> <<i.rt, i.ra, SignExtend(i.imm1_15, 15, 32)>>

\* BR1, BR2, J, JREG.
OperandBranch(i, n, pc) ==
    CASE i.opc = "BR1" -> <<i.rt, i.ra, SignExtend(i.imm1_14 * 2, 15, 32) + pc>>
      [] i.opc = "BR2" -> <<i.rt, SignExtend(i.imm1_16 * 2, 17, 32) + pc>>
      [] i.opc = "J" -> <<SignExtend(i.imm1_24 * 2, 25, 32) + pc>>
      [] n = "JRAL" -> <<i.rt, i.rb>>
      [] OTHER -> <<i.rb>>

\* MFUSR, MTUSR: four halves of the accumulators, the PC (which both of them
\* load into rt), and an error for all others.
OperateUsr(i, n) ==
    IF i.group # 0 \/ i.usr \notin 0..3 \cup {31} THEN <<"error">>
    ELSE IF i.usr = 31 THEN <<"MFUSR", i.rt, "PC">>
    ELSE <<n, i.rt, <<"D0.LO", "D0.HI", "D1.LO", "D1.HI">>[i.usr + 1]>>

\* MULR64, MULSR64: the high and the low word of the product go to the two
\* registers of the pair that rt is in.
OperandProduct(i) ==
    LET d == Bits(i.rt, 4, 1)
    IN <<2 * d + 1, 2 * d, i.ra, i.rb>>

\* ALU_1, ALU_2, LSMW, MISC, MEM.
OperandRegister(i, n) ==
    CASE i.opc = "MEM" -> <<i.rt, i.ra, i.rb, i.imm1_2>>
      [] i.opc = "LSMW" -> <<i.rb, i.ra, i.re, i.enable>>
      [] n \in {"SEB", "SEH", "ZEH", "ABS"} -> <<i.rt, i.ra>>
      [] n \in {"SLLI", "SRLI", "SRAI", "BSET", "BTST"} -> <<i.rt, i.ra, i.imm1_5>>
      [] n \in {"DIVR", "DIVSR"} -> <<i.rt, i.rs, i.ra, i.rb>>
      [] n \in {"MULR64", "MULSR64"} -> OperandProduct(i)
      [] n = "MADD32" -> <<i.dt, i.ra, i.rb>>
      [] n = "MFSR" -> <<i.rt, i.sridx>>
      [] n = "MTSR" -> <<i.ra, i.sridx>>
      [] n \in {"ISB", "IRET"} -> <<>>
      [] OTHER -> <<i.rt, i.ra, i.rb>>

\* The operation simulate() carries out; "unimplemented" and "error" end the
\* run, "nothing" leaves all registers as they are and goes on behind the word:
\* the switch of JREG has no default, and MTSR does nothing for the kinds it
\* does not know.
ExecutedOp(i, pc) ==
    LET names == Names(i.opc, i.sub)
        n == IF names = {} THEN "" ELSE CHOOSE s \in names : TRUE
    IN IF i.opc \in NotSimulated \cup {"exit"} THEN <<"unimplemented">>
       ELSE IF i.opc \notin HasSub THEN <<i.opc>> \o OperandImmediate(i)
       ELSE IF n \notin Simulated[i.opc]
            THEN IF i.opc = "JREG" THEN <<"nothing">> ELSE <<"unimplemented">>
       ELSE IF i.opc \in {"BR1", "BR2", "J", "JREG"} THEN <<n>> \o OperandBranch(i, n, pc)
       ELSE IF n \in {"MFUSR", "MTUSR"} THEN OperateUsr(i, n)
       ELSE IF n = "MTSR" /\ i.imm2_5 = 2 THEN <<"SETGIE", i.en>>
       ELSE IF n = "MTSR" /\ i.imm2_5 # 0 THEN <<"nothing">>
       ELSE <<n>> \o OperandRegister(i, n)
=============================================================================
