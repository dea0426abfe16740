--------------------------- MODULE MCInstructions ---------------------------
(***************************************************************************)
(* Every supported instruction with immediates at the edges of its format  *)
(* and with mixed bits, operands around zero, the sign bit and the largest *)
(* word, and x0, a source and another register as destination.  Words have *)
(* 30 bits, the most TLC's integers can add: of lui's 32 bits the upper    *)
(* two are cut off, nothing else is lost.                                  *)
(***************************************************************************)
EXTENDS InstructionInvariant

Records(ops, rds, rs1s, rs2s, imms) ==
    [op : ops, rd : rds, rs1 : rs1s, rs2 : rs2s, imm : imms]

Rds == {0, 1, 21}

Imm12 == {-2048, -1366, -1, 0, 1365, 2047}

ProgramsForMC ==
    Records(DOMAIN ImmediateOps, Rds, {1}, {2}, Imm12)
    \cup Records(DOMAIN ShiftOps, Rds, {1}, {2}, {0, 1, 21, 29})
    \cup Records(DOMAIN RegisterOps, Rds, {1}, {1, 2, 31}, {0})
    \cup Records({"lui", "auipc"}, Rds, {1}, {2}, {0, 1, 349525, 699050, 262143})
    \cup Records({"jal"}, Rds, {1}, {2},
                 {-1048576, -2, 2, 2048, 4096, 699050, -699052, 1048574})
    \cup Records({"jalr", "lw"}, Rds, {1, 21}, {2}, Imm12)
    \cup Records(DOMAIN BranchOps, {0}, {1}, {2, 31}, {-4096, -2732, -2, 2, 2730, 4094})
    \cup Records({"sw"}, {0}, {1, 21}, {2, 10}, Imm12)
    \cup Records({"csrr"}, Rds, {0}, {2}, {CsrInstret, CsrCycle, CsrMhartid, CsrMtohost})
    \cup Records({"csrw"}, {0}, {1, 21}, {2}, {CsrMtohost, CsrCycle})

ContentsForMC ==
    {0, 1, 33, 2 ^ 29 - 1, 2 ^ 29, 2 ^ 29 + 357913941, 2 ^ 29 - 1 + 2 ^ 29}

\* The reset address, and the last word, from where the next address wraps.
StartIpsForMC == {512, 2 ^ 29 - 4 + 2 ^ 29}
=============================================================================
