------------------------ MODULE InstructionInvariant ------------------------
(***************************************************************************)
(* The inductive invariant behind the properties of Instructions: what the *)
(* instruction object has to hold after each stage, put together from the  *)
(* instruction as it was written and not from its word.                    *)
(***************************************************************************)
EXTENDS Instructions

ComputedOps == DOMAIN ImmediateOps \cup DOMAIN ShiftOps \cup DOMAIN RegisterOps

AluFuncOf(op) ==
    CASE op \in {"add", "addi"}   -> "Add"
      [] op = "sub"               -> "Sub"
      [] op \in {"slt", "slti"}   -> "Slt"
      [] op \in {"sltu", "sltiu"} -> "Sltu"
      [] op \in {"and", "andi"}   -> "And"
      [] op \in {"or", "ori"}     -> "Or"
      [] op \in {"xor", "xori"}   -> "Xor"
      [] op \in {"sll", "slli"}   -> "Sll"
      [] op \in {"srl", "srli"}   -> "Srl"
      [] op \in {"sra", "srai"}   -> "Sra"

BrFuncOf(op) ==
    CASE op = "beq" -> "Eq" [] op = "bne" -> "Neq" [] op = "blt" -> "Lt"
      [] op = "bge" -> "Ge" [] op = "bltu" -> "Ltu" [] op = "bgeu" -> "Geu"

-----------------------------------------------------------------------------
(***************************************************************************)
(* The fields of the object, each from the operation and its operands.     *)
(***************************************************************************)
MeantType(op) ==
    CASE op \in ComputedOps \cup {"lui"} -> "Alu"
      [] op = "auipc"                    -> "Auipc"
      [] op = "jal"                      -> "J"
      [] op = "jalr"                     -> "Jr"
      [] op \in DOMAIN BranchOps         -> "Br"
      [] op = "lw"                       -> "Ld"
      [] op = "sw"                       -> "St"
      [] op = "csrr"                     -> "Csrr"
      [] op = "csrw"                     -> "Csrw"

MeantBrFunc(op) ==
    CASE op \in DOMAIN BranchOps -> BrFuncOf(op)
      [] op \in {"jal", "jalr"}  -> "AT"
      [] OTHER                   -> "NT"

MeantAluFunc(op) == IF op \in ComputedOps THEN AluFuncOf(op) ELSE "Add"

MeantDst(m) ==
    IF m.op \in {"sw", "csrw"} \cup DOMAIN BranchOps \/ m.rd = 0 THEN None ELSE m.rd

MeantSrc1(m) ==
    CASE m.op \in {"auipc", "jal"} -> None
      [] m.op \in {"lui", "csrr"}  -> 0
      [] OTHER                     -> m.rs1

MeantSrc2(m) ==
    IF m.op \in DOMAIN RegisterOps \cup DOMAIN BranchOps \cup {"sw"} THEN m.rs2 ELSE None

MeantCsr(m) == IF m.op \in {"csrr", "csrw"} THEN m.imm ELSE None

MeantImm(m) ==
    CASE m.op \in DOMAIN RegisterOps \cup {"csrr", "csrw"} -> None
      [] m.op \in DOMAIN ShiftOps                          -> m.imm
      [] m.op \in {"lui", "auipc"}                         -> ShiftLeft(m.imm, 12)
      [] OTHER                                             -> Wrap(m.imm)

Object(type, brFunc, aluFunc, dst, src1, src2, csr, imm) ==
    [type |-> type, brFunc |-> brFunc, aluFunc |-> aluFunc,
     dst |-> dst, src1 |-> src1, src2 |-> src2, csr |-> csr, imm |-> imm,
     src1Val |-> 0, src2Val |-> 0, csrVal |-> 0,
     data |-> DeadBeaf, addr |-> DeadBeaf, nextIp |-> DeadBeaf]

Meant(m) ==
    Object(MeantType(m.op), MeantBrFunc(m.op), MeantAluFunc(m.op),
           MeantDst(m), MeantSrc1(m), MeantSrc2(m), MeantCsr(m), MeantImm(m))

-----------------------------------------------------------------------------
(***************************************************************************)
(* The object with its operands, and when it has been executed.            *)
(***************************************************************************)
Ready    == ReadCsr(ReadRegisters(Meant(asm), before), Instret, Cycle)
Executed == Execute(Ready, ip)

Answered(w) == IF Executed.type = "Ld" THEN [Executed EXCEPT !.data = w] ELSE Executed

\* What an instruction is given: x0 holds zero.
GivenOK ==
    /\ asm \in Programs /\ ip \in WordSet
    /\ before \in [Register -> WordSet] /\ before[0] = 0

(***************************************************************************)
(* At every stage the object is exactly what the instruction as written,   *)
(* the registers before it and the loaded word make of it: no field is     *)
(* left over from decoding, none is lost, and the registers wait for the   *)
(* last stage.                                                             *)
(***************************************************************************)
StagesOK ==
    /\ GivenOK
    /\ pc # "done" => regs = before
    /\ pc = "decode" => instr = FreshInstruction
    /\ pc = "read" => instr = Meant(asm)
    /\ pc = "execute" => instr = Ready
    /\ pc = "memory" => instr = Executed
    /\ pc \in {"write", "done"} => \E w \in LoadedWords : instr = Answered(w)
    /\ pc = "done" => regs = WriteRegister(instr, before)

=============================================================================
