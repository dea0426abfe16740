------------------------------ MODULE Decoder ------------------------------
(***************************************************************************)
(* Decoder::Decode (src/src/Decoder.h): from an instruction word, given    *)
(* bit by bit, to an Instruction object.  A branch function that is not    *)
(* one of BrFunc (funct3 of 2 or 3) is outside the model: the executor has *)
(* no case for it.                                                         *)
(***************************************************************************)
EXTENDS Executor

\* The immediates need 21 bits and a sign.
ASSUME DecoderAssumption == WordBits >= 22

InstructionWord == [0 .. 31 -> {0, 1}]

(***************************************************************************)
(* A bit-field of the union DecodedInstr: size bits from the given one on. *)
(***************************************************************************)
Field(w, first, size) == FromBits([k \in 0 .. size - 1 |-> w[first + k]], size)

Opcode(w) == Field(w, 0, 7)
Rd(w)     == Field(w, 7, 5)
Funct3(w) == Field(w, 12, 3)
Rs1(w)    == Field(w, 15, 5)
Rs2(w)    == Field(w, 20, 5)
AluSel(w) == Field(w, 30, 1)

-----------------------------------------------------------------------------
\* Fault: the sign is taken one bit too high.
SignExtendHigh(i, sbit) ==
    Wrap(i + Bit(i, sbit + 1) * (Modulus - TwoTo[sbit + 1]))

SignExtend(i, sbit) ==
    Wrap(i + Bit(i, sbit) * (Modulus - TwoTo[sbit + 1]))

ImmI(w) == SignExtend(Field(w, 20, 12), 11)
ImmS(w) == SignExtend(Field(w, 25, 7) * 2 ^ 5 + Field(w, 7, 5), 11)
ImmU(w) == ShiftLeft(Field(w, 12, 20), 12)
ImmB(w) == SignExtend(Field(w, 31, 1) * 2 ^ 12 + Field(w, 7, 1) * 2 ^ 11
                        + Field(w, 25, 6) * 2 ^ 5 + Field(w, 8, 4) * 2, 12)
ImmJ(w) == SignExtend(Field(w, 31, 1) * 2 ^ 20 + Field(w, 12, 8) * 2 ^ 12
                        + Field(w, 20, 1) * 2 ^ 11 + Field(w, 21, 10) * 2, 20)

-----------------------------------------------------------------------------
(***************************************************************************)
(* Register and immediate operations.  Sr and Add are told apart by bit    *)
(* 30, but an immediate Add has no such bit.                               *)
(***************************************************************************)
Arithmetic ==
    [f \in 0 .. 7 |-> CASE f = 0 -> "Add"  [] f = 1 -> "Sll" [] f = 2 -> "Slt"
                        [] f = 3 -> "Sltu" [] f = 4 -> "Xor" [] f = 5 -> "Srl"
                        [] f = 6 -> "Or"   [] f = 7 -> "And"]

Branching ==
    [f \in {0, 1, 4, 5, 6, 7} |->
        CASE f = 0 -> "Eq" [] f = 1 -> "Neq" [] f = 4 -> "Lt"
          [] f = 5 -> "Ge" [] f = 6 -> "Ltu" [] f = 7 -> "Geu"]

IsSr(w) == Funct3(w) = 5

DecodeOpImm(w) ==
    [FreshInstruction EXCEPT
        !.type    = "Alu",
        !.aluFunc = IF IsSr(w) /\ AluSel(w) = 1 THEN "Sra" ELSE Arithmetic[Funct3(w)],
        !.imm     = IF IsSr(w) THEN ImmI(w) % 32 ELSE ImmI(w),
        !.dst     = Rd(w),
        !.src1    = Rs1(w)]

DecodeOp(w) ==
    [FreshInstruction EXCEPT
        !.type    = "Alu",
        !.aluFunc = IF AluSel(w) = 0 \/ Funct3(w) \notin {0, 5}
                    THEN Arithmetic[Funct3(w)]
                    ELSE IF IsSr(w) THEN "Sra" ELSE "Sub",
        !.dst     = Rd(w),
        !.src1    = Rs1(w),
        !.src2    = Rs2(w)]

\* Fault: the mask is forgotten, and the number keeps the immediate's sign.
CsrUnmasked(w) == ImmI(w)

\* `immI & 0xfff`
CsrNumber(w) == Field(w, 20, 12)

DecodeSystem(w) ==
    [FreshInstruction EXCEPT
        !.type = IF Funct3(w) = 1 /\ Rd(w) = 0 THEN "Csrw"
                 ELSE IF Funct3(w) = 2 /\ Rs1(w) = 0 THEN "Csrr"
                 ELSE "Unsupported",
        !.dst  = Rd(w),
        !.src1 = Rs1(w),
        !.csr  = CsrNumber(w)]

DecodeOpcode(w) ==
    CASE Opcode(w) = 19 -> DecodeOpImm(w)
      [] Opcode(w) = 51 -> DecodeOp(w)
      [] Opcode(w) = 55 -> [FreshInstruction EXCEPT !.type = "Alu", !.aluFunc = "Add",
                              !.dst = Rd(w), !.src1 = 0, !.imm = ImmU(w)]
      [] Opcode(w) = 23 -> [FreshInstruction EXCEPT !.type = "Auipc",
                              !.dst = Rd(w), !.imm = ImmU(w)]
      [] Opcode(w) = 111 -> [FreshInstruction EXCEPT !.type = "J", !.brFunc = "AT",
                              !.dst = Rd(w), !.imm = ImmJ(w)]
      [] Opcode(w) = 103 -> [FreshInstruction EXCEPT !.type = "Jr", !.brFunc = "AT",
                              !.dst = Rd(w), !.src1 = Rs1(w), !.imm = ImmI(w)]
      [] Opcode(w) = 99 -> [FreshInstruction EXCEPT !.type = "Br",
                              !.brFunc = Branching[Funct3(w)],
                              !.src1 = Rs1(w), !.src2 = Rs2(w), !.imm = ImmB(w)]
      [] Opcode(w) = 3  -> [FreshInstruction EXCEPT
                              !.type = IF Funct3(w) = 2 THEN "Ld" ELSE "Unsupported",
                              !.aluFunc = "Add",
                              !.dst = Rd(w), !.src1 = Rs1(w), !.imm = ImmI(w)]
      [] Opcode(w) = 35 -> [FreshInstruction EXCEPT
                              !.type = IF Funct3(w) = 2 THEN "St" ELSE "Unsupported",
                              !.aluFunc = "Add",
                              !.src1 = Rs1(w), !.src2 = Rs2(w), !.imm = ImmS(w)]
      [] Opcode(w) = 115 -> DecodeSystem(w)
      [] OTHER -> [FreshInstruction EXCEPT !.aluFunc = "None"]

\* Fault: register 0 is a destination like any other.
KeepDestination(i) == i

(***************************************************************************)
(* The last statement of Decode: register 0 is never a destination.        *)
(***************************************************************************)
DropDestination(i) == IF i.dst = 0 THEN [i EXCEPT !.dst = None] ELSE i

Decode(w) == DropDestination(DecodeOpcode(w))

=============================================================================
