-------------------------------- MODULE Isa --------------------------------
(***************************************************************************)
(* The machine a program is written for: one instruction after the other,  *)
(* each in a single step, on a word memory without caches, with a console  *)
(* that hears a message the moment it is written.  There are no cycles:    *)
(* the cycle counter reads as anything.  A program prints an integer by a  *)
(* message with its lower half followed by one with its upper half         *)
(* (src/programs/smallbenchmarks/common/syscalls.c:31-38).                 *)
(***************************************************************************)
EXTENDS Integers

CONSTANTS
    WordBits,      \* bits of a word
    DeadBeaf,      \* what an untouched field of an instruction holds
    Start,         \* word address of the first instruction
    LoadAddress,   \* word addresses the program loads from
    StoreAddress,  \* word addresses it stores to
    Contents,      \* initial contents of these addresses
    Programs,      \* the programs: instructions by word address
    InstretMod     \* the instruction counter wraps at this value

Core == INSTANCE Executor

VARIABLES
    program,   \* the instruction at each address of the code
    ip, regs,  \* word address of the next instruction, registers
    store,     \* the data
    instret,   \* instructions executed
    console    \* the host's side

isaVars == <<program, ip, regs, store, instret, console>>

Half == Core!TwoTo[WordBits \div 2]

Silent == [low |-> Core!None, printed |-> <<"nothing", 0>>, halted |-> FALSE]

Init ==
    /\ program \in Programs
    /\ ip = Start
    /\ regs = [r \in Core!Register |-> 0]
    /\ store = Contents
    /\ instret = 0
    /\ console = Silent

-----------------------------------------------------------------------------
(***************************************************************************)
(* A message: its upper half says what to do with the lower.  An upper     *)
(* half of an integer without a lower half before it prints anything.      *)
(***************************************************************************)
Exit(data) ==
    console' = [console EXCEPT !.printed = <<"exit", data>>, !.halted = TRUE]

PrintChar(data) == console' = [console EXCEPT !.printed = <<"char", data % 256>>]

PrintIntLow(data) == console' = [console EXCEPT !.low = data]

PrintIntHigh(data) ==
    /\ console' = [console EXCEPT !.low = Core!None, !.printed = console'.printed]
    /\ console'.printed[1] = "int"
    /\ console.low # Core!None =>
          console'.printed = <<"int", Core!Signed(data * Half + console.low)>>

Hear(word) ==
    LET type == word \div Half
        data == word % Half
    IN  \/ type = 0 /\ Exit(data)
        \/ type = 1 /\ PrintChar(data)
        \/ type = 2 /\ PrintIntLow(data)
        \/ type = 3 /\ PrintIntHigh(data)
        \/ type \notin 0 .. 3 /\ UNCHANGED console

-----------------------------------------------------------------------------
Executed(cycle) ==
    Core!Execute(Core!ReadCsr(Core!ReadRegisters(program[ip], regs), instret, cycle),
                 4 * ip)

Retire(x, data) ==
    /\ regs' = Core!WriteRegister([x EXCEPT !.data = data], regs)
    /\ ip' = x.nextIp \div 4
    /\ instret' = (instret + 1) % InstretMod
    /\ UNCHANGED program

IsMessage(x) == x.type = "Csrw" /\ x.csr = Core!CsrMtohost

Load(x) ==
    /\ x.type = "Ld"
    /\ x.addr \div 4 \in LoadAddress
    /\ Retire(x, store[x.addr \div 4])
    /\ UNCHANGED <<store, console>>

Store(x) ==
    /\ x.type = "St"
    /\ x.addr \div 4 \in StoreAddress
    /\ store' = [store EXCEPT ![x.addr \div 4] = x.data]
    /\ Retire(x, x.data)
    /\ UNCHANGED console

Message(x) ==
    /\ IsMessage(x)
    /\ Hear(x.data)
    /\ Retire(x, x.data)
    /\ UNCHANGED store

Compute(x) ==
    /\ x.type \notin {"Ld", "St"} /\ ~IsMessage(x)
    /\ Retire(x, x.data)
    /\ UNCHANGED <<store, console>>

Next ==
    /\ ~console.halted
    /\ \E cycle \in Core!WordSet :
          LET x == Executed(cycle)
          IN  Load(x) \/ Store(x) \/ Message(x) \/ Compute(x)

Spec == Init /\ [][Next]_isaVars

=============================================================================
