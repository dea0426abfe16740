------------------------------ MODULE Executor ------------------------------
(***************************************************************************)
(* The Instruction object (src/src/Instruction.h), the registers it is     *)
(* read from and written to (RegisterFile.h, CsrFile.h) and what           *)
(* Executor::Execute (Executor.h) makes of it.                             *)
(***************************************************************************)
EXTENDS Words

CONSTANT DeadBeaf   \* 0xdeadbeaf, in every field of a fresh instruction

ASSUME DeadBeafAssumption == DeadBeaf \in WordSet

Register == 0 .. 31

\* An empty std::optional.
None == -1

IType   == {"Unsupported", "Alu", "Ld", "St", "J", "Jr", "Br", "Csrr", "Csrw", "Auipc"}
BrFunc  == {"Eq", "Neq", "Lt", "Ltu", "Ge", "Geu", "AT", "NT"}
AluFunc == {"Add", "Sub", "And", "Or", "Xor", "Slt", "Sltu", "Sll", "Srl", "Sra", "None"}

CsrInstret == 3074   \* 0xc02
CsrCycle   == 3072   \* 0xc00
CsrMhartid == 3856   \* 0xf10
CsrMtohost == 1920   \* 0x780

InstructionObject ==
    [type : IType, brFunc : BrFunc, aluFunc : AluFunc,
     dst : None .. 31, src1 : None .. 31, src2 : None .. 31,
     csr : None .. 4095, imm : None .. Modulus - 1,
     src1Val : WordSet, src2Val : WordSet, csrVal : WordSet,
     data : WordSet, addr : WordSet, nextIp : WordSet]

(***************************************************************************)
(* What make_unique leaves: the initialisers of the struct, zeros for the  *)
(* members that have none.                                                 *)
(***************************************************************************)
FreshInstruction ==
    [type |-> "Unsupported", brFunc |-> "NT", aluFunc |-> "Add",
     dst |-> None, src1 |-> None, src2 |-> None, csr |-> None, imm |-> None,
     src1Val |-> 0, src2Val |-> 0, csrVal |-> 0,
     data |-> DeadBeaf, addr |-> DeadBeaf, nextIp |-> DeadBeaf]

-----------------------------------------------------------------------------
(***************************************************************************)
(* RegisterFile::Read and Write, CsrFile::Read.                            *)
(***************************************************************************)
ReadRegisters(i, r) ==
    [i EXCEPT !.src1Val = IF i.src1 # None THEN r[i.src1] ELSE @,
              !.src2Val = IF i.src2 # None THEN r[i.src2] ELSE @]

WriteRegister(i, r) ==
    IF i.dst # None THEN [r EXCEPT ![i.dst] = i.data] ELSE r

ReadCsr(i, instret, cycle) ==
    [i EXCEPT !.csrVal = CASE i.csr = CsrInstret -> instret
                           [] i.csr = CsrCycle   -> cycle
                           [] i.csr = CsrMhartid -> 0
                           [] OTHER              -> @]

-----------------------------------------------------------------------------
(***************************************************************************)
(* The operators of C++ on Word, and its conversion to int.                *)
(***************************************************************************)
BitAnd(a, b) ==
    FromBits([k \in 0 .. WordBits - 1 |-> Bit(a, k) * Bit(b, k)], WordBits)

BitXor(a, b) ==
    FromBits([k \in 0 .. WordBits - 1 |-> (Bit(a, k) + Bit(b, k)) % 2], WordBits)

BitOr(a, b)  == BitAnd(a, b) + BitXor(a, b)

\* (Shifts of WordBits and more only exist where a word is narrower than 32 bits.)
ShiftLeft(w, n)  == IF n < WordBits THEN (w % TwoTo[WordBits - n]) * TwoTo[n] ELSE 0
ShiftRight(w, n) == IF n < WordBits THEN w \div TwoTo[n] ELSE 0

Signed(w) == IF w < TwoTo[WordBits - 1] THEN w ELSE w - Modulus

Truth(condition) == IF condition THEN 1 ELSE 0

\* Fault: the shift copies zeros into a negative number.
ShiftLogical(a, b) == ShiftRight(a, b % 32)

ShiftArithmetic(a, b) ==
    LET n == IF b % 32 < WordBits THEN b % 32 ELSE WordBits - 1
    IN  Wrap(Signed(a) \div TwoTo[n])

Compute(func, a, b) ==
    CASE func = "Add"  -> Wrap(a + b)
      [] func = "Sub"  -> Wrap(a - b)
      [] func = "And"  -> BitAnd(a, b)
      [] func = "Or"   -> BitOr(a, b)
      [] func = "Xor"  -> BitXor(a, b)
      [] func = "Slt"  -> Truth(Signed(a) < Signed(b))
      [] func = "Sltu" -> Truth(a < b)
      [] func = "Sll"  -> ShiftLeft(a, b % 32)
      [] func = "Srl"  -> ShiftRight(a, b % 32)
      [] func = "Sra"  -> ShiftArithmetic(a, b)
      [] OTHER         -> 0

(***************************************************************************)
(* alu_processing: an instruction without both operands yields 0.          *)
(***************************************************************************)
AluProcessing(i) ==
    IF i.src1 # None /\ (i.imm # None \/ i.src2 # None)
    THEN Compute(i.aluFunc, i.src1Val, IF i.imm # None THEN i.imm ELSE i.src2Val)
    ELSE 0

(***************************************************************************)
(* branching_processing.  The operands it may leave uninitialised are not  *)
(* looked at by the two functions that jumps use.                          *)
(***************************************************************************)
BranchingProcessing(i) ==
    CASE i.brFunc = "Eq"  -> i.src1Val = i.src2Val
      [] i.brFunc = "Neq" -> i.src1Val # i.src2Val
      [] i.brFunc = "Lt"  -> Signed(i.src1Val) < Signed(i.src2Val)
      [] i.brFunc = "Ltu" -> i.src1Val < i.src2Val
      [] i.brFunc = "Ge"  -> Signed(i.src1Val) >= Signed(i.src2Val)
      [] i.brFunc = "Geu" -> i.src1Val >= i.src2Val
      [] i.brFunc = "AT"  -> TRUE
      [] i.brFunc = "NT"  -> FALSE

(***************************************************************************)
(* Execute, for an instruction at ip whose registers have been read.  J    *)
(* falls through into Br.  An unsupported instruction is left as it is.    *)
(***************************************************************************)
Following(ip) == Wrap(ip + 4)

BranchTarget(i, ip) == IF BranchingProcessing(i)
                       THEN Wrap(ip + i.imm)
                       ELSE Following(ip)

Execute(i, ip) ==
    CASE i.type = "Alu"   -> [i EXCEPT !.data = AluProcessing(i),
                                       !.nextIp = Following(ip)]
      [] i.type = "Ld"    -> [i EXCEPT !.addr = AluProcessing(i),
                                       !.nextIp = Following(ip)]
      [] i.type = "St"    -> [i EXCEPT !.addr = AluProcessing(i),
                                       !.data = i.src2Val,
                                       !.nextIp = Following(ip)]
      [] i.type = "Csrw"  -> [i EXCEPT !.data = i.src1Val,
                                       !.nextIp = Following(ip)]
      [] i.type = "Csrr"  -> [i EXCEPT !.data = i.csrVal,
                                       !.nextIp = Following(ip)]
      [] i.type = "J"     -> [i EXCEPT !.data = Following(ip),
                                       !.nextIp = BranchTarget(i, ip)]
      [] i.type = "Br"    -> [i EXCEPT !.nextIp = BranchTarget(i, ip)]
      [] i.type = "Jr"    -> [i EXCEPT !.data = Following(ip),
                                       !.nextIp = IF BranchingProcessing(i)
                                                  THEN Wrap(i.imm + i.src1Val)
                                                  ELSE Following(ip)]
      [] i.type = "Auipc" -> [i EXCEPT !.data = Wrap(ip + i.imm),
                                       !.nextIp = Following(ip)]
      [] OTHER            -> i

=============================================================================
