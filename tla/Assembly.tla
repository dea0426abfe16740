------------------------------ MODULE Assembly ------------------------------
(***************************************************************************)
(* What the programs are written in: the RV32I instructions the simulator  *)
(* supports, how the assembler encodes them, and what each of them has to  *)
(* do.  This is the other side of Decoder and Executor: the encodings put  *)
(* together what Decode takes apart, and the meaning of an operation is    *)
(* stated bit by bit or on signed numbers, not computed.                   *)
(***************************************************************************)
EXTENDS Words

ImmediateOps == [addi |-> 0, slti |-> 2, sltiu |-> 3, xori |-> 4, ori |-> 6, andi |-> 7]
ShiftOps     == [slli |-> <<1, 0>>, srli |-> <<5, 0>>, srai |-> <<5, 32>>]
RegisterOps  == [add |-> <<0, 0>>, sub |-> <<0, 32>>, sll |-> <<1, 0>>,
                 slt |-> <<2, 0>>, sltu |-> <<3, 0>>, xor |-> <<4, 0>>,
                 srl |-> <<5, 0>>, sra |-> <<5, 32>>, or |-> <<6, 0>>,
                 and |-> <<7, 0>>]
BranchOps    == [beq |-> 0, bne |-> 1, blt |-> 4, bge |-> 5, bltu |-> 6, bgeu |-> 7]

-----------------------------------------------------------------------------
(***************************************************************************)
(* Registers, and the immediates each format can hold.                     *)
(***************************************************************************)
Ops == DOMAIN ImmediateOps \cup DOMAIN ShiftOps \cup DOMAIN RegisterOps
         \cup DOMAIN BranchOps
         \cup {"lui", "auipc", "jal", "jalr", "lw", "sw", "csrr", "csrw"}

SignedImm(imm, size) == imm \in -TwoTo[size - 1] .. TwoTo[size - 1] - 1

Fits(imm, op) ==
    CASE op \in DOMAIN ImmediateOps \cup {"jalr", "lw", "sw"} -> SignedImm(imm, 12)
      [] op \in DOMAIN ShiftOps    -> imm \in 0 .. 31
      [] op \in DOMAIN RegisterOps -> imm = 0
      [] op \in DOMAIN BranchOps   -> SignedImm(imm, 13) /\ imm % 2 = 0
      [] op \in {"lui", "auipc"}   -> imm \in 0 .. TwoTo[20] - 1
      [] op = "jal"                -> SignedImm(imm, 21) /\ imm % 2 = 0
      [] op \in {"csrr", "csrw"}   -> imm \in 0 .. TwoTo[12] - 1

IsInstruction(m) ==
    /\ m \in [op : Ops, rd : 0 .. 31, rs1 : 0 .. 31, rs2 : 0 .. 31, imm : Int]
    /\ Fits(m.imm, m.op)

(***************************************************************************)
(* The 32 bits of a set of fields; In puts the lowest bits of a (signed)   *)
(* number at bits high .. low.                                             *)
(***************************************************************************)
In(high, low, value) == [high |-> high, low |-> low, value |-> value]

Pack(fields) ==
    [k \in 0 .. 31 |->
        LET f == CHOOSE f \in fields : k \in f.low .. f.high
        IN  Bit(f.value, k - f.low)]

IFormat(opcode, funct3, m) ==
    Pack({In(6, 0, opcode), In(11, 7, m.rd), In(14, 12, funct3), In(19, 15, m.rs1),
          In(31, 20, m.imm)})

RFormat(opcode, funct3, funct7, m) ==
    Pack({In(6, 0, opcode), In(11, 7, m.rd), In(14, 12, funct3), In(19, 15, m.rs1),
          In(24, 20, m.rs2), In(31, 25, funct7)})

SFormat(opcode, funct3, m) ==
    Pack({In(6, 0, opcode), In(11, 7, m.imm), In(14, 12, funct3), In(19, 15, m.rs1),
          In(24, 20, m.rs2), In(31, 25, m.imm \div 2 ^ 5)})

BFormat(opcode, funct3, m) ==
    Pack({In(6, 0, opcode), In(7, 7, m.imm \div 2 ^ 11), In(11, 8, m.imm \div 2),
          In(14, 12, funct3), In(19, 15, m.rs1), In(24, 20, m.rs2),
          In(30, 25, m.imm \div 2 ^ 5), In(31, 31, m.imm \div 2 ^ 12)})

UFormat(opcode, m) == Pack({In(6, 0, opcode), In(11, 7, m.rd), In(31, 12, m.imm)})

JFormat(opcode, m) ==
    Pack({In(6, 0, opcode), In(11, 7, m.rd), In(19, 12, m.imm \div 2 ^ 12),
          In(20, 20, m.imm \div 2 ^ 11), In(30, 21, m.imm \div 2),
          In(31, 31, m.imm \div 2 ^ 20)})

(***************************************************************************)
(* csrr rd, csr is csrrs rd, csr, x0 and csrw csr, rs1 is csrrw x0, csr,   *)
(* rs1 (Instruction.h:39-41).                                              *)
(***************************************************************************)
Encode(m) ==
    CASE m.op \in DOMAIN ImmediateOps -> IFormat(19, ImmediateOps[m.op], m)
      [] m.op \in DOMAIN ShiftOps ->
            RFormat(19, ShiftOps[m.op][1], ShiftOps[m.op][2], [m EXCEPT !.rs2 = m.imm])
      [] m.op \in DOMAIN RegisterOps ->
            RFormat(51, RegisterOps[m.op][1], RegisterOps[m.op][2], m)
      [] m.op = "lui"   -> UFormat(55, m)
      [] m.op = "auipc" -> UFormat(23, m)
      [] m.op = "jal"   -> JFormat(111, m)
      [] m.op = "jalr"  -> IFormat(103, 0, m)
      [] m.op \in DOMAIN BranchOps -> BFormat(99, BranchOps[m.op], m)
      [] m.op = "lw"    -> IFormat(3, 2, m)
      [] m.op = "sw"    -> SFormat(35, 2, m)
      [] m.op = "csrr"  -> IFormat(115, 2, [m EXCEPT !.rs1 = 0])
      [] m.op = "csrw"  -> IFormat(115, 1, [m EXCEPT !.rd = 0])

-----------------------------------------------------------------------------
(***************************************************************************)
(* The number a word stands for in two's complement, and equality of       *)
(* numbers modulo the word size.                                           *)
(***************************************************************************)
Number(w)    == w - Bit(w, WordBits - 1) * Modulus
Same(m, n)   == (m - n) % Modulus = 0
AllBits(w, bit(_)) == \A k \in 0 .. WordBits - 1 : Bit(w, k) = bit(k)
Amount(b)    == b % 32

(***************************************************************************)
(* w is what the operation makes of the words a and b.                     *)
(***************************************************************************)
IsResult(op, a, b, w) ==
    CASE op \in {"add", "addi"}   -> Same(w, a + b)
      [] op = "sub"               -> Same(w + b, a)
      [] op \in {"slt", "slti"}   -> w = IF Number(a) < Number(b) THEN 1 ELSE 0
      [] op \in {"sltu", "sltiu"} -> w = IF a < b THEN 1 ELSE 0
      [] op \in {"and", "andi"} ->
            LET bit(k) == IF Bit(a, k) = 1 /\ Bit(b, k) = 1 THEN 1 ELSE 0
            IN  AllBits(w, bit)
      [] op \in {"or", "ori"} ->
            LET bit(k) == IF Bit(a, k) = 1 \/ Bit(b, k) = 1 THEN 1 ELSE 0
            IN  AllBits(w, bit)
      [] op \in {"xor", "xori"} ->
            LET bit(k) == IF Bit(a, k) # Bit(b, k) THEN 1 ELSE 0
            IN  AllBits(w, bit)
      [] op \in {"sll", "slli"} ->
            LET bit(k) == IF k >= Amount(b) THEN Bit(a, k - Amount(b)) ELSE 0
            IN  AllBits(w, bit)
      [] op \in {"srl", "srli"} ->
            LET bit(k) == IF k + Amount(b) < WordBits THEN Bit(a, k + Amount(b)) ELSE 0
            IN  AllBits(w, bit)
      [] op \in {"sra", "srai"} ->
            LET bit(k) == Bit(a, IF k + Amount(b) < WordBits THEN k + Amount(b)
                                   ELSE WordBits - 1)
            IN  AllBits(w, bit)

Taken(op, a, b) ==
    CASE op = "beq"  -> a = b
      [] op = "bne"  -> a # b
      [] op = "blt"  -> Number(a) < Number(b)
      [] op = "bge"  -> Number(a) >= Number(b)
      [] op = "bltu" -> a < b
      [] op = "bgeu" -> a >= b

=============================================================================
