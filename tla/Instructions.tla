---------------------------- MODULE Instructions ----------------------------
(***************************************************************************)
(* The life of one Instruction object in Cpu::Clock (src/src/Cpu.h:33-54): *)
(* decoded from its word, given its register values, executed, given the   *)
(* loaded word, written back.  Cpu and CachedMem model when these things   *)
(* happen and what the memory does; here it is what they compute.          *)
(***************************************************************************)
EXTENDS Decoder, Assembly

CONSTANTS
    Programs,     \* the instructions, as assembly records (see Assembly)
    StartIps,     \* where they may lie
    Contents,     \* what their source registers may hold
    Instret,      \* what numInstr is
    Cycle,        \* what numCycles is
    LoadedWords   \* what memory may answer

ASSUME InstructionsAssumption ==
    /\ \A m \in Programs : IsInstruction(m)
    /\ StartIps \subseteq WordSet /\ Contents \subseteq WordSet /\ LoadedWords \subseteq WordSet
    /\ Instret \in WordSet /\ Cycle \in WordSet

VARIABLES
    asm,       \* the instruction as it was written (never changes)
    ip,        \* its address (never changes)
    before,    \* the registers before it (never changes)
    regs,      \* RegisterFile::_r
    instr,     \* _instruction
    pc         \* how far Clock has got

given == <<asm, ip, before>>
vars  == <<given, regs, instr, pc>>

TypeOK ==
    /\ regs \in [Register -> WordSet]
    /\ instr \in InstructionObject
    /\ pc \in {"decode", "read", "execute", "memory", "write", "done"}

\* Register 0 holds zero, and no instruction ever changes that.
Init ==
    /\ asm \in Programs
    /\ ip \in StartIps
    /\ \E a, b \in Contents :
          before = [r \in Register |-> IF r = 0 THEN 0
                                       ELSE IF r = asm.rs1 THEN a
                                       ELSE IF r = asm.rs2 THEN b ELSE r]
    /\ regs = before
    /\ instr = FreshInstruction
    /\ pc = "decode"

-----------------------------------------------------------------------------
DecodeWord ==
    /\ pc = "decode"
    /\ instr' = Decode(Encode(asm))
    /\ pc' = "read"
    /\ UNCHANGED <<given, regs>>

ReadOperands ==
    /\ pc = "read"
    /\ instr' = ReadCsr(ReadRegisters(instr, regs), Instret, Cycle)
    /\ pc' = "execute"
    /\ UNCHANGED <<given, regs>>

ExecuteInstr ==
    /\ pc = "execute"
    /\ instr' = Execute(instr, ip)
    /\ pc' = "memory"
    /\ UNCHANGED <<given, regs>>

(***************************************************************************)
(* Of the data response it matters only that a load's data is replaced.    *)
(***************************************************************************)
AccessMemory ==
    /\ pc = "memory"
    /\ \E w \in LoadedWords :
          instr' = IF instr.type = "Ld" THEN [instr EXCEPT !.data = w] ELSE instr
    /\ pc' = "write"
    /\ UNCHANGED <<given, regs>>

WriteBack ==
    /\ pc = "write"
    /\ regs' = WriteRegister(instr, regs)
    /\ pc' = "done"
    /\ UNCHANGED <<given, instr>>

Next == DecodeWord \/ ReadOperands \/ ExecuteInstr \/ AccessMemory \/ WriteBack

Spec == Init /\ [][Next]_vars

-----------------------------------------------------------------------------
A == before[asm.rs1]
B == before[asm.rs2]

(***************************************************************************)
(* The register the instruction writes, and the value it has to write.     *)
(***************************************************************************)
Writes(w) ==
    CASE asm.op \in DOMAIN ImmediateOps ->
            IsResult(asm.op, A, asm.imm % Modulus, w)
      [] asm.op \in DOMAIN ShiftOps     -> IsResult(asm.op, A, asm.imm, w)
      [] asm.op \in DOMAIN RegisterOps  -> IsResult(asm.op, A, B, w)
      [] asm.op = "lui" ->
            LET bit(k) == IF k < 12 THEN 0 ELSE Bit(asm.imm, k - 12)
            IN  AllBits(w, bit)
      [] asm.op = "auipc" ->
            Same(w - ip, (asm.imm % TwoTo[WordBits - 12]) * 2 ^ 12)
      [] asm.op \in {"jal", "jalr"} -> Same(w, ip + 4)
      [] asm.op = "lw"   -> w \in LoadedWords
      [] asm.op = "csrr" -> w = CASE asm.imm = CsrInstret -> Instret
                                  [] asm.imm = CsrCycle   -> Cycle
                                  [] OTHER                -> 0

HasDestination ==
    /\ asm.op \notin {"sw", "csrw"} \cup DOMAIN BranchOps
    /\ asm.rd # 0

\* jalr clears bit 0 of the sum.
GoesTo(target) ==
    CASE asm.op = "jal"  -> Same(target, ip + asm.imm)
      [] asm.op = "jalr" ->
            LET sum == A + asm.imm
            IN  Same(target, sum - (sum % 2))
      [] asm.op \in DOMAIN BranchOps /\ Taken(asm.op, A, B) ->
            Same(target, ip + asm.imm)
      [] OTHER -> Same(target, ip + 4)

OddJump == asm.op = "jalr" /\ (A + asm.imm) % 2 = 1

(***************************************************************************)
(* From its encoding to the registers, an instruction does what it says:   *)
(* the value the operation has on two's complement numbers is in its       *)
(* destination (never in x0), and nothing else in the register file        *)
(* changes.  The fields of every format, the order of the immediate's      *)
(* pieces, their signs, signed and unsigned comparison and the shifts all  *)
(* have to be right for that.                                              *)
(***************************************************************************)
ComputesWhatItSays ==
    pc = "done" =>
        \A r \in Register :
            IF HasDestination /\ r = asm.rd
            THEN Writes(regs[r])
            ELSE regs[r] = before[r]

(***************************************************************************)
(* What the memory, the host and the next fetch are told is what the       *)
(* instruction says: only loads and stores are memory instructions, at the *)
(* address rs1 plus the signed offset, a store with the word of rs2; only  *)
(* a csrw is a write to a csr, with the word of rs1; and the next fetch is *)
(* at the address the instruction leads to.  One case differs from the     *)
(* instruction set: a jalr to an odd sum keeps bit 0 (Executor.h:64), so   *)
(* ip is one more than it should be.                                       *)
(***************************************************************************)
TellsOthersWhatItSays ==
    pc \in {"memory", "write", "done"} =>
        /\ instr.type = "Ld" <=> asm.op = "lw"
        /\ instr.type = "St" <=> asm.op = "sw"
        /\ asm.op \in {"lw", "sw"} => Same(instr.addr, A + asm.imm)
        /\ asm.op = "sw" => instr.data = B
        /\ instr.type = "Csrw" <=> asm.op = "csrw"
        /\ asm.op = "csrw" => instr.csr = asm.imm /\ instr.data = A
        /\ GoesTo(IF OddJump THEN instr.nextIp - 1 ELSE instr.nextIp)

=============================================================================
