----------------------------- MODULE Simulator -----------------------------
(***************************************************************************)
(* The whole simulator: the clocked processor of Cpu with what that module *)
(* leaves open filled in by the executor and the register file, and main's *)
(* handling of the messages (src/src/main.cpp).  Every step is a step of   *)
(* Cpu that also computes.                                                 *)
(*                                                                         *)
(* What an instruction word decodes to is a variable that never changes,   *)
(* so that all programs over a set of instructions are checked at once;    *)
(* modules Decoder and Instructions deal with the words themselves.        *)
(***************************************************************************)
EXTENDS CpuProperties

CONSTANTS
    WordBits,   \* bits of a word (32)
    Decodings   \* what the program's words may decode to, all together

Exe == INSTANCE Executor WITH DeadBeaf <- DeadWord

CodeWords == {ImageWord(a) : a \in CodeAddrs}

\* A message is a type and data of half a word each (BaseTypes.h).
Half == Exe!TwoTo[WordBits \div 2]

MessageType(word) == word \div Half
MessageData(word) == word % Half

(***************************************************************************)
(* Words are numbers; any word may be stored or sent; an instruction is no *)
(* wider than what its word decodes to; the counters are words.            *)
(***************************************************************************)
ASSUME SimulatorAssumption ==
    /\ WordBits \in Nat \ {0} /\ WordBits % 2 = 0
    /\ Word = Exe!WordSet
    /\ ZeroWord = 0
    /\ StoreWords = Word
    /\ MessageWords = Word
    /\ ExitWords = {w \in Word : MessageType(w) = 0}
    /\ 0 .. CounterMod - 1 \subseteq Word
    /\ Decodings \subseteq [CodeWords -> Exe!InstructionObject]

VARIABLES
    decoding,    \* Decode, on the words of the program (never changes)
    regs,        \* RegisterFile::_r
    executed,    \* the Instruction object's fields, as Execute left them
    print_int,   \* main's variable, as its upper and lower half
    printed,     \* what main printed last
    low          \* history: a lower half sent and not yet followed by an upper

hostVars == <<print_int, printed, low>>
simVars  == <<vars, decoding, regs, executed, hostVars>>

SimTypeOK ==
    /\ TypeOK
    /\ decoding \in Decodings
    /\ regs \in [Exe!Register -> Word]
    /\ executed \in Exe!InstructionObject
    /\ print_int \in [upper : 0 .. Half - 1, lower : 0 .. Half - 1]
    /\ low \in Exe!None .. Half - 1

SimInit ==
    /\ Init
    /\ decoding \in Decodings
    /\ regs = [r \in Exe!Register |-> 0]
    /\ executed = Exe!FreshInstruction
    /\ print_int = [upper |-> 0, lower |-> 0]
    /\ printed = <<"nothing", 0>>
    /\ low = Exe!None

-----------------------------------------------------------------------------
(***************************************************************************)
(* Decode, Read and Execute, and what the clock sees of the outcome.       *)
(***************************************************************************)
Outcome ==
    Exe!Execute(Exe!ReadCsr(Exe!ReadRegisters(decoding[instrCode], regs),
                            numInstr, numCycles),
                4 * ip)

IsMessage(x) == x.type = "Csrw" /\ x.csr = Exe!CsrMtohost

AsInstruction(x) ==
    [type   |-> CASE x.type \in {"Ld", "St"}      -> x.type
                  [] x.type \in {"J", "Jr", "Br"} -> "J"
                  [] IsMessage(x)                 -> "Csrw"
                  [] OTHER                        -> "Alu",
     addr   |-> IF x.type \in {"Ld", "St"} THEN x.addr \div 4 ELSE NoAddr,
     data   |-> IF x.type = "St" \/ IsMessage(x) THEN x.data ELSE DeadWord,
     nextIp |-> x.nextIp \div 4]

(***************************************************************************)
(* The program keeps to its addresses, and its jumps to whole words.       *)
(***************************************************************************)
WellBehaved(x) == AsInstruction(x) \in Decodable /\ x.nextIp % 4 = 0

SimExecute ==
    /\ Execute
    /\ WellBehaved(Outcome)
    /\ instruction' = AsInstruction(Outcome)
    /\ executed' = Outcome
    /\ UNCHANGED <<decoding, regs, hostVars>>

(***************************************************************************)
(* A program that does not is beyond the model: it stays where it is.      *)
(***************************************************************************)
Astray ==
    /\ pc = "execute"
    /\ ~WellBehaved(Outcome)
    /\ UNCHANGED simVars

(***************************************************************************)
(* RegisterFile::Write: a load's data is what the memory answered.         *)
(***************************************************************************)
\* Fault: the register gets the field as the executor left it.
WrittenBackEarly == executed

WrittenBack ==
    [executed EXCEPT !.data = IF executed.type = "Ld" THEN instruction.data ELSE @]

SimWrite ==
    /\ Write
    /\ regs' = Exe!WriteRegister(WrittenBack, regs)
    /\ UNCHANGED <<decoding, executed, hostVars>>

(***************************************************************************)
(* main's answer to a message.                                             *)
(***************************************************************************)
Say(kind, value) == printed' = <<kind, value>>

AsInt(n) == Exe!Signed(n.upper * Half + n.lower)

\* print_int = data
WithLow(data) == [upper |-> 0, lower |-> data]

\* Fault: halves are added up.
HighAdded(n, data) == [n EXCEPT !.upper = @ + data]

\* print_int |= data << 16
WithHigh(n, data) ==
    [n EXCEPT !.upper = IF @ = 0 THEN data ELSE Exe!BitOr(@, data)]

ExitCode(data) == Say("exit", data) /\ UNCHANGED <<print_int, low>>

PrintChar(data) == Say("char", data % 256) /\ UNCHANGED <<print_int, low>>

PrintIntLow(data) ==
    /\ print_int' = WithLow(data)
    /\ low' = data
    /\ UNCHANGED printed

PrintIntHigh(data) ==
    /\ print_int' = WithHigh(print_int, data)
    /\ Say("int", AsInt(print_int'))
    /\ low' = Exe!None

Answer(message) ==
    CASE MessageType(message) = 0 -> ExitCode(MessageData(message))
      [] MessageType(message) = 1 -> PrintChar(MessageData(message))
      [] MessageType(message) = 2 -> PrintIntLow(MessageData(message))
      [] MessageType(message) = 3 -> PrintIntHigh(MessageData(message))
      [] OTHER                    -> UNCHANGED hostVars

SimTick ==
    /\ Tick
    /\ IF cpuToHostData = NoMessage THEN UNCHANGED hostVars ELSE Answer(cpuToHostData)
    /\ UNCHANGED <<decoding, regs, executed>>

SimClock ==
    /\ ClockStall \/ ClockFetch \/ ClockResume \/ FetchWait \/ Fetch
          \/ FirstResponse \/ Exited
    /\ UNCHANGED <<decoding, regs, executed, hostVars>>

SimNext == SimExecute \/ Astray \/ SimWrite \/ SimTick \/ SimClock

SimSpec == SimInit /\ [][SimNext]_simVars

-----------------------------------------------------------------------------
(***************************************************************************)
(* An instruction takes effect the moment it reaches the write-back stage, *)
(* which is when a store changes the memory the program sees.  What the    *)
(* stage and the host still have to do is then as good as done.            *)
(***************************************************************************)
Committed == pc = "write"

Pending ==
    IF Committed /\ instruction.type = "Csrw" THEN instruction.data ELSE cpuToHostData

Console == [low |-> low, printed |-> printed, halted |-> pc = "done"]

ConsoleAfter(message) ==
    LET data        == MessageData(message)
        tells(type) == message # NoMessage /\ MessageType(message) = type
    IN  CASE tells(0) -> [Console EXCEPT !.printed = <<"exit", data>>, !.halted = TRUE]
          [] tells(1) -> [Console EXCEPT !.printed = <<"char", data % 256>>]
          [] tells(2) -> [Console EXCEPT !.low = data]
          [] tells(3) -> [Console EXCEPT !.low = Exe!None,
                              !.printed = <<"int", AsInt(WithHigh(print_int, data))>>]
          [] OTHER    -> Console

ProgramData == LoadAddrs \cup StoreAddrs

Machine ==
    INSTANCE Isa WITH
        DeadBeaf     <- DeadWord,
        Start        <- ResetIp,
        LoadAddress  <- LoadAddrs,
        StoreAddress <- StoreAddrs,
        Contents     <- [a \in ProgramData |-> ImageWord(a)],
        Programs     <- {[a \in CodeAddrs |-> d[ImageWord(a)]] : d \in Decodings},
        InstretMod   <- CounterMod,
        program      <- [a \in CodeAddrs |-> decoding[ImageWord(a)]],
        ip           <- IF Committed THEN instruction.nextIp ELSE ip,
        regs         <- IF Committed THEN Exe!WriteRegister(WrittenBack, regs) ELSE regs,
        store        <- [a \in ProgramData |-> DataView(a)],
        instret      <- IF Committed THEN (numInstr + 1) % CounterMod ELSE numInstr,
        console      <- ConsoleAfter(Pending)

(***************************************************************************)
(* The simulator runs programs: with its caches, its countdown, the        *)
(* instruction that waits for data and the one message slot, it does step  *)
(* by step what a machine does that executes each instruction at once.     *)
(* Operands are read after the previous instruction has written its        *)
(* register, a load's word gets into its register, the instruction counter *)
(* reads as the number of instructions before it, no message is lost or    *)
(* taken twice, and an integer sent in halves is printed whole.            *)
(***************************************************************************)
SimulatorImplementsIsa == Machine!Spec

=============================================================================
