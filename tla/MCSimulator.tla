---------------------------- MODULE MCSimulator ----------------------------
(***************************************************************************)
(* Words of six bits, five instructions that compete for the two blocks of *)
(* the code cache, and three data words that compete for those of the data *)
(* cache.  The first four instructions are any choice from a set for each  *)
(* place; the last jumps back.  Register 1 runs through all words, so that *)
(* in time every message is sent: an exit sooner or later.                 *)
(***************************************************************************)
EXTENDS Simulator

I == Exe!FreshInstruction

AddImm(rd, rs, n)    == [I EXCEPT !.type = "Alu", !.aluFunc = "Add", !.dst = rd,
                                  !.src1 = rs, !.imm = n]
Lw(rd, n)            == [I EXCEPT !.type = "Ld", !.dst = rd, !.src1 = 0, !.imm = n]
Sw(rs, n)            == [I EXCEPT !.type = "St", !.src1 = 0, !.src2 = rs, !.imm = n]
Bne(rs1, rs2, n)     == [I EXCEPT !.type = "Br", !.brFunc = "Neq", !.src1 = rs1,
                                  !.src2 = rs2, !.imm = n]
Jal(rd, n)           == [I EXCEPT !.type = "J", !.brFunc = "AT", !.dst = rd, !.imm = n]
Jalr(rd, rs, n)      == [I EXCEPT !.type = "Jr", !.brFunc = "AT", !.dst = rd,
                                  !.src1 = rs, !.imm = n]
Csrw(rs)             == [I EXCEPT !.type = "Csrw", !.src1 = rs, !.csr = Exe!CsrMtohost]
Csrr(rd, csr)        == [I EXCEPT !.type = "Csrr", !.dst = rd, !.src1 = 0, !.csr = csr]

\* Words 6, 7 and 8 are the data: bytes 24, 28 and 32.
First  == {AddImm(1, 1, 19), AddImm(1, 1, 9), Lw(1, 24)}
Second == {Csrw(1), Sw(1, 24), Sw(1, 28), Jal(2, 8)}
Third  == {AddImm(1, 1, 7), Lw(2, 28), Lw(1, 32), Bne(1, 2, 60)}
Fourth == {Csrw(1), Sw(2, 32), Csrr(1, Exe!CsrInstret), Csrr(2, Exe!CsrCycle),
           Jalr(0, 2, 0)}

DecodingsForMC ==
    {<<a, b, c, d, Jal(0, 48)>> : a \in First, b \in Second, c \in Third, d \in Fourth}

MCImage == [l \in 0 .. 8 |-> [o \in 0 .. 0 |-> l]]

WordsForMC == 0 .. 63
ExitsForMC == 0 .. 7

=============================================================================
