-------------------------- MODULE SimulatorProofs --------------------------
(***************************************************************************)
(* The whole simulator implements the instruction-set machine: proof of    *)
(* SimulatorImplementsIsa.  What the caches do is not looked at again; the *)
(* lemmas of CoherenceProofs say what a response makes of the memory the   *)
(* program sees.                                                           *)
(***************************************************************************)
EXTENDS Simulator, CoherenceProofs

\* What is known of the executor (its definitions are those of Exe).
Facts == INSTANCE ExecutorProofs WITH DeadBeaf <- DeadWord

(***************************************************************************)
(* The executor of the abstract machine is that of the simulator.          *)
(***************************************************************************)
LEMMA SameTwoTo == Machine!Core!TwoTo = Exe!TwoTo
  BY DEF Machine!Core!TwoTo, Exe!TwoTo

LEMMA SameBits ==
    ASSUME NEW a, NEW b
    PROVE  /\ Machine!Core!BitAnd(a, b) = Exe!BitAnd(a, b)
           /\ Machine!Core!BitXor(a, b) = Exe!BitXor(a, b)
<1>1. \A w, k : Machine!Core!Bit(w, k) = Exe!Bit(w, k)
  BY SameTwoTo DEF Machine!Core!Bit, Exe!Bit
<1>2. \A bit, size : Machine!Core!FromBits(bit, size) = Exe!FromBits(bit, size)
  BY SameTwoTo DEF Machine!Core!FromBits, Exe!FromBits
<1> QED
  BY <1>1, <1>2 DEF Machine!Core!BitAnd, Exe!BitAnd, Machine!Core!BitXor, Exe!BitXor

LEMMA SameExecute ==
    ASSUME NEW i, NEW a
    PROVE  Machine!Core!Execute(i, a) = Exe!Execute(i, a)
  BY SameTwoTo, SameBits DEF Machine!Core!Execute, Exe!Execute,
         Machine!Core!BranchTarget, Exe!BranchTarget,
         Machine!Core!Following, Exe!Following,
         Machine!Core!BranchingProcessing, Exe!BranchingProcessing,
         Machine!Core!AluProcessing, Exe!AluProcessing,
         Machine!Core!Compute, Exe!Compute, Machine!Core!Truth, Exe!Truth,
         Machine!Core!ShiftLeft, Exe!ShiftLeft, Machine!Core!ShiftRight, Exe!ShiftRight,
         Machine!Core!ShiftArithmetic, Exe!ShiftArithmetic,
         Machine!Core!Signed, Exe!Signed, Machine!Core!BitOr, Exe!BitOr,
         Machine!Core!Wrap, Exe!Wrap, Machine!Core!Modulus, Exe!Modulus,
         Machine!Core!None, Exe!None

LEMMA SameRegisters ==
    ASSUME NEW i, NEW r, NEW instret, NEW cycle
    PROVE  /\ Machine!Core!ReadRegisters(i, r) = Exe!ReadRegisters(i, r)
           /\ Machine!Core!ReadCsr(i, instret, cycle) = Exe!ReadCsr(i, instret, cycle)
           /\ Machine!Core!WriteRegister(i, r) = Exe!WriteRegister(i, r)
<1>1. Machine!Core!ReadRegisters(i, r) = Exe!ReadRegisters(i, r)
  BY DEF Machine!Core!ReadRegisters, Exe!ReadRegisters, Machine!Core!None, Exe!None
<1>2. Machine!Core!ReadCsr(i, instret, cycle) = Exe!ReadCsr(i, instret, cycle)
  BY DEF Machine!Core!ReadCsr, Exe!ReadCsr, Machine!Core!CsrInstret, Exe!CsrInstret,
         Machine!Core!CsrCycle, Exe!CsrCycle, Machine!Core!CsrMhartid, Exe!CsrMhartid
<1>3. Machine!Core!WriteRegister(i, r) = Exe!WriteRegister(i, r)
  BY DEF Machine!Core!WriteRegister, Exe!WriteRegister, Machine!Core!None, Exe!None
<1> QED
  BY <1>1, <1>2, <1>3

LEMMA SameConstants ==
    /\ Machine!Core!None = Exe!None
    /\ Machine!Core!WordSet = Word
    /\ Machine!Half = Half
    /\ \A n : Machine!Core!Signed(n) = Exe!Signed(n)
    /\ \A x : Machine!IsMessage(x) = IsMessage(x)
<1>1. Machine!Core!WordSet = Exe!WordSet
  BY SameTwoTo DEF Machine!Core!WordSet, Exe!WordSet, Machine!Core!Modulus, Exe!Modulus
<1>2. Machine!Core!None = Exe!None
  BY DEF Machine!Core!None, Exe!None
<1>3. Machine!Half = Half
  BY SameTwoTo DEF Machine!Half, Half
<1>4. ASSUME NEW n PROVE Machine!Core!Signed(n) = Exe!Signed(n)
  BY SameTwoTo DEF Machine!Core!Signed, Exe!Signed, Machine!Core!Modulus, Exe!Modulus
<1>5. ASSUME NEW x PROVE Machine!IsMessage(x) = IsMessage(x)
  BY DEF Machine!IsMessage, IsMessage, Machine!Core!CsrMtohost, Exe!CsrMtohost
<1> QED
  BY <1>1, <1>2, <1>3, <1>4, <1>5, SimulatorAssumption

-----------------------------------------------------------------------------
(***************************************************************************)
(* Every behaviour of the simulator is one of the processor that decodes   *)
(* anything.                                                               *)
(***************************************************************************)
LEMMA SimIsCpu == SimSpec => Spec
<1>1. SimInit => Init
  BY DEF SimInit
<1>2. [SimNext]_simVars => [Next]_vars
  <2> SUFFICES ASSUME [SimNext]_simVars PROVE [Next]_vars
    OBVIOUS
  <2>1. CASE SimExecute
    BY <2>1 DEF SimExecute, Next
  <2>2. CASE SimWrite
    BY <2>2 DEF SimWrite, Next
  <2>3. CASE SimTick
    BY <2>3 DEF SimTick, Next
  <2>4. CASE SimClock
    BY <2>4 DEF SimClock, Next
  <2>5. CASE Astray \/ UNCHANGED simVars
    BY <2>5 DEF Astray, simVars
  <2> QED
    BY <2>1, <2>2, <2>3, <2>4, <2>5 DEF SimNext
<1> QED
  BY <1>1, <1>2, PTL DEF SimSpec, Spec

-----------------------------------------------------------------------------
(***************************************************************************)
(* The invariant: an instruction that has been executed but not written    *)
(* back is what the program has at ip, executed on the registers and the   *)
(* instruction counter as they still are; and a lower half that waits for  *)
(* its upper one is all that print_int holds.                              *)
(***************************************************************************)
ExecutedAt(cycle) ==
    Exe!Execute(Exe!ReadCsr(Exe!ReadRegisters(decoding[ImageWord(ip)], regs),
                            numInstr, cycle),
                4 * ip)

Current(i) ==
    /\ i = AsInstruction(executed)
    /\ \E cycle \in Word : executed = ExecutedAt(cycle)

SimInv ==
    /\ pc = "dataResponse" => Current(instruction)
    /\ Waiting => Current(waitingInstruction)
    /\ low # Exe!None => print_int = WithLow(low)

LEMMA InitSimInv == SimInit => SimInv
  BY DEF SimInit, Init, SimInv, Waiting

LEMMA CycleIsWord ==
    ASSUME TypeOK PROVE numCycles \in Word
  BY SimulatorAssumption DEF TypeOK

LEMMA CurrentFrame ==
    ASSUME NEW i, Current(i), UNCHANGED <<decoding, regs, executed, numInstr, ip>>
    PROVE  Current(i)'
  BY DEF Current, ExecutedAt, AsInstruction, IsMessage, ImageWord

LEMMA CurrentInit ==
    ASSUME NEW cycle \in Word, executed' = ExecutedAt(cycle),
           instruction' = AsInstruction(executed'),
           UNCHANGED <<decoding, regs, numInstr, ip>>
    PROVE  Current(instruction)'
<1>1. ExecutedAt(cycle)' = ExecutedAt(cycle)
  BY DEF ExecutedAt, ImageWord
<1>2. AsInstruction(executed)' = AsInstruction(executed')
  BY DEF AsInstruction, IsMessage
<1> QED
  BY <1>1, <1>2 DEF Current

LEMMA StepSimInv ==
    ASSUME IInv, SimInv, [SimNext]_simVars
    PROVE  SimInv'
<1>1. CASE SimExecute
  <2>1. /\ pc' = "dataResponse" /\ ~Waiting'
        /\ instruction' = AsInstruction(Outcome) /\ executed' = Outcome
        /\ UNCHANGED <<decoding, regs, ip, numInstr, print_int, low>>
    BY <1>1 DEF SimExecute, Execute, hostVars, csrVars, IInv, PipelineOK, Waiting
  <2>2. instrCode = ImageWord(ip) /\ numCycles \in Word
    BY <1>1, CycleIsWord DEF SimExecute, Execute, IInv, FetchedWordIsProgram
  <2>3. PICK c \in Word : c = numCycles
    BY <2>2
  <2>4. Outcome = ExecutedAt(c)
    BY <2>2, <2>3 DEF Outcome, ExecutedAt
  <2>5. Current(instruction)'
    BY <2>1, <2>4, CurrentInit
  <2> QED
    BY <2>1, <2>5 DEF SimInv, WithLow
<1>2. CASE SimWrite
  <2>1. pc' = "memClock" /\ ~Waiting' /\ UNCHANGED <<print_int, low>>
    BY <1>2 DEF SimWrite, Write, hostVars, IInv, PipelineOK, Waiting
  <2> QED
    BY <2>1 DEF SimInv, WithLow
<1>3. CASE SimTick
  <2>1. /\ pc' \in {"clock", "done"} /\ waitingInstruction' = waitingInstruction
        /\ UNCHANGED <<decoding, regs, executed, numInstr, ip>>
    BY <1>3 DEF SimTick, Tick, cpuVars
  <2>2. Waiting' => Current(waitingInstruction)'
    BY <2>1, CurrentFrame DEF SimInv, Waiting
  <2>3. (low # Exe!None => print_int = WithLow(low))'
    <3>1. CASE UNCHANGED <<print_int, low>>
      BY <3>1 DEF SimInv, WithLow
    <3>2. CASE cpuToHostData # NoMessage /\ PrintIntLow(MessageData(cpuToHostData))
      BY <3>2 DEF PrintIntLow, WithLow
    <3>3. CASE cpuToHostData # NoMessage /\ PrintIntHigh(MessageData(cpuToHostData))
      BY <3>3 DEF PrintIntHigh
    <3> QED
      BY <1>3, <3>1, <3>2, <3>3 DEF SimTick, Answer, ExitCode, PrintChar, hostVars
  <2> QED
    BY <2>1, <2>2, <2>3 DEF SimInv
<1>4. CASE SimClock
  <2>1. /\ UNCHANGED <<decoding, regs, executed, numInstr, ip, print_int, low>>
    BY <1>4 DEF SimClock, hostVars, ClockStall, ClockFetch, ClockResume, FetchWait, Fetch,
                FirstResponse, Exited, CountCycle, cpuVars, csrVars, vars
  <2>2. CASE FirstResponse /\ pc' = "memClock"
    <3>1. Current(instruction) /\ waitingInstruction' = instruction
      BY <2>2 DEF FirstResponse, SimInv
    <3> QED
      BY <2>1, <2>2, <3>1, CurrentFrame DEF SimInv, WithLow
  <2>3. CASE /\ Waiting' => Waiting /\ waitingInstruction' = waitingInstruction
             /\ pc' # "dataResponse"
    <3>1. Waiting' => Current(waitingInstruction)'
      BY <2>1, <2>3, CurrentFrame DEF SimInv
    <3> QED
      BY <2>1, <2>3, <3>1 DEF SimInv, WithLow
  <2> QED
    BY <1>4, <2>2, <2>3 DEF SimClock, ClockStall, ClockFetch, ClockResume, FetchWait, Fetch,
                FirstResponse, Exited, cpuVars, vars, Waiting
<1>5. CASE Astray \/ UNCHANGED simVars
  <2>1. /\ UNCHANGED <<decoding, regs, executed, numInstr, ip, print_int, low, pc>>
        /\ UNCHANGED <<instruction, waitingInstruction>>
    BY <1>5 DEF Astray, simVars, hostVars, vars, cpuVars, csrVars
  <2>2. pc' = "dataResponse" => Current(instruction)'
    BY <2>1, CurrentFrame DEF SimInv
  <2>3. Waiting' => Current(waitingInstruction)'
    BY <2>1, CurrentFrame DEF SimInv, Waiting
  <2> QED
    BY <2>1, <2>2, <2>3 DEF SimInv, WithLow
<1> QED
  BY <1>1, <1>2, <1>3, <1>4, <1>5 DEF SimNext

-----------------------------------------------------------------------------
(***************************************************************************)
(* What the clock sees of an executed instruction.                         *)
(***************************************************************************)
LEMMA AsInstructionParts ==
    ASSUME NEW x
    PROVE  LET i == AsInstruction(x)
           IN  /\ i.nextIp = x.nextIp \div 4
               /\ x.type = "Ld" => i.type = "Ld" /\ i.addr = x.addr \div 4
               /\ x.type = "St" => /\ i.type = "St" /\ i.addr = x.addr \div 4
                                   /\ i.data = x.data
               /\ IsMessage(x)  => i.type = "Csrw" /\ i.data = x.data
               /\ x.type \notin {"Ld", "St"} /\ ~IsMessage(x)  => i.type \in {"J", "Alu"}
<1>1. /\ AsInstruction(x).nextIp = x.nextIp \div 4
      /\ AsInstruction(x).type = CASE x.type \in {"Ld", "St"}      -> x.type
                  [] x.type \in {"J", "Jr", "Br"} -> "J"
                  [] IsMessage(x)                 -> "Csrw"
                  [] OTHER                        -> "Alu"
      /\ AsInstruction(x).addr = IF x.type \in {"Ld", "St"} THEN x.addr \div 4 ELSE NoAddr
      /\ AsInstruction(x).data = IF x.type = "St" \/ IsMessage(x) THEN x.data ELSE DeadWord
  BY DEF AsInstruction
<1>2. IsMessage(x) => x.type = "Csrw"
  BY DEF IsMessage
<1> QED
  BY <1>1, <1>2

(***************************************************************************)
(* The console hears the message of an instruction that is committed.      *)
(***************************************************************************)
LEMMA Heard ==
    ASSUME cpuToHostData = NoMessage, ~Committed, pc # "done", Committed',
           pc' = "write", instruction'.type = "Csrw", NEW m \in Word, instruction'.data = m,
           low # Exe!None => print_int = WithLow(low),
           UNCHANGED <<print_int, printed, low>>
    PROVE  Machine!Hear(m)
<1> DEFINE type == m \div Half
           data == m % Half
           was  == [low |-> low, printed |-> printed, halted |-> FALSE]
<1>0. Console = was /\ Console' = was
  <2>1. (pc = "done") = FALSE /\ (pc' = "done") = FALSE
    OBVIOUS
  <2> QED
    BY <2>1 DEF Console
<1>1. ConsoleAfter(Pending) = was
  BY <1>0 DEF ConsoleAfter, Pending
<1>2. Pending' = m /\ m # NoMessage
  BY SentinelAssumption DEF Pending
<1>3. /\ type = 0 => ConsoleAfter(Pending)' =
                        [was EXCEPT !.printed = <<"exit", data>>, !.halted = TRUE]
      /\ type = 1 => ConsoleAfter(Pending)' = [was EXCEPT !.printed = <<"char", data % 256>>]
      /\ type = 2 => ConsoleAfter(Pending)' = [was EXCEPT !.low = data]
  BY <1>0, <1>2 DEF ConsoleAfter, MessageType, MessageData
<1>9. type = 3 => ConsoleAfter(Pending)' =
                    [was EXCEPT !.low = Exe!None,
                                !.printed = <<"int", AsInt(WithHigh(print_int, data))>>]
  BY <1>0, <1>2 DEF ConsoleAfter, MessageType, MessageData
<1>10. type \notin {0, 1, 2, 3} => ConsoleAfter(Pending)' = was
  BY <1>0, <1>2 DEF ConsoleAfter, MessageType, MessageData
<1> HIDE DEF type, data
<1>4. CASE type = 0
  <2>1. Machine!Exit(data)
    BY <1>1, <1>3, <1>4 DEF Machine!Exit
  <2> QED
    BY <1>4, <2>1, SameConstants DEF Machine!Hear, type, data
<1>5. CASE type = 1
  <2>1. Machine!PrintChar(data)
    BY <1>1, <1>3, <1>5 DEF Machine!PrintChar
  <2> QED
    BY <1>5, <2>1, SameConstants DEF Machine!Hear, type, data
<1>6. CASE type = 2
  <2>1. Machine!PrintIntLow(data)
    BY <1>1, <1>3, <1>6 DEF Machine!PrintIntLow
  <2> QED
    BY <1>6, <2>1, SameConstants DEF Machine!Hear, type, data
<1>7. CASE type = 3
  <2>1. low # Exe!None => AsInt(WithHigh(print_int, data)) = Exe!Signed(data * Half + low)
    BY DEF AsInt, WithHigh, WithLow
  <2> DEFINE value == AsInt(WithHigh(print_int, data))
             now   == [was EXCEPT !.low = Exe!None, !.printed = <<"int", value>>]
  <2>2. ConsoleAfter(Pending)' = now
    BY <1>9, <1>7
  <2>3. /\ now.printed = <<"int", value>>
        /\ now = [was EXCEPT !.low = Exe!None, !.printed = now.printed]
        /\ was.low = low
    OBVIOUS
  <2>4. low # Exe!None => now.printed = <<"int", Exe!Signed(data * Half + low)>>
    BY <2>1, <2>3
  <2> HIDE DEF value, now, was
  <2>5. now.printed[1] = "int"
    BY <2>3
  <2>6. Machine!PrintIntHigh(data)
    BY <1>1, <2>2, <2>3, <2>4, <2>5, SameConstants DEF Machine!PrintIntHigh
  <2> QED
    BY <1>7, <2>6, SameConstants DEF Machine!Hear, type, data
<1>8. CASE type \notin 0 .. 3
  <2>1. type \notin {0, 1, 2, 3}
    BY <1>8
  <2>2. ConsoleAfter(Pending)' = was
    BY <1>10, <2>1
  <2> QED
    BY <1>1, <1>8, <2>2, SameConstants DEF Machine!Hear, type
<1> QED
  BY <1>4, <1>5, <1>6, <1>7, <1>8

(***************************************************************************)
(* An instruction that gets to the write-back stage is a step of the       *)
(* abstract machine.                                                       *)
(***************************************************************************)
LEMMA Quiet ==
    ASSUME pc # "done", pc' # "done", cpuToHostData = NoMessage, ~Committed,
           Committed' => instruction'.type # "Csrw",
           UNCHANGED <<cpuToHostData, print_int, printed, low>>
    PROVE  UNCHANGED ConsoleAfter(Pending)
<1>1. Pending = NoMessage /\ Pending' = NoMessage
  BY DEF Pending
<1>2. (pc = "done") = FALSE /\ (pc' = "done") = FALSE
  OBVIOUS
<1>3. Console' = Console
  BY <1>2 DEF Console
<1>4. ConsoleAfter(Pending) = Console /\ ConsoleAfter(Pending)' = Console'
  BY <1>1 DEF ConsoleAfter
<1> QED
  BY <1>3, <1>4

LEMMA CommitStep ==
    ASSUME ip \in CodeAddrs, ~Committed, pc # "done", cpuToHostData = NoMessage,
           pc' = "write", NEW i, Current(i), InstructionOK(i),
           instruction' = [i EXCEPT !.data = DataResult(i.data, i.type)],
           DataResult(i.data, i.type) = IF i.type = "Ld" THEN DataView(i.addr) ELSE i.data,
           \A a \in ProgramData :
              DataView(a)' = IF i.type = "St" /\ a = i.addr THEN i.data ELSE DataView(a),
           low # Exe!None => print_int = WithLow(low),
           UNCHANGED <<decoding, regs, executed, numInstr, ip, cpuToHostData,
                       print_int, printed, low>>
    PROVE  Machine!Next
<1> DEFINE x == executed
           stored == [a \in ProgramData |-> DataView(a)]
<1>1. PICK cycle \in Word : x = ExecutedAt(cycle)
  BY DEF Current
<1>2. Machine!Executed(cycle) = x
  <2>1. [a \in CodeAddrs |-> decoding[ImageWord(a)]][ip] = decoding[ImageWord(ip)]
    OBVIOUS
  <2> QED
    BY <1>1, <2>1, SameExecute, SameRegisters DEF Machine!Executed, ExecutedAt
<1>3. /\ i.nextIp = x.nextIp \div 4
      /\ x.type = "Ld" => i.type = "Ld" /\ i.addr = x.addr \div 4
      /\ x.type = "St" => i.type = "St" /\ i.addr = x.addr \div 4 /\ i.data = x.data
      /\ IsMessage(x)  => i.type = "Csrw" /\ i.data = x.data
      /\ x.type \notin {"Ld", "St"} /\ ~IsMessage(x)  => i.type \in {"J", "Alu"}
  BY AsInstructionParts DEF Current
<1>4. /\ instruction'.type = i.type /\ instruction'.nextIp = i.nextIp
      /\ instruction'.data = DataResult(i.data, i.type)
      /\ i.data \in Word
  BY DEF InstructionOK, Instruction
<1>5. Committed'
  BY DEF Committed
<1>6. ASSUME NEW data, x.type = "Ld" => data = instruction'.data,
             x.type # "Ld" => data = x.data
      PROVE  Machine!Retire(x, data)
  <2>1. WrittenBack' = [x EXCEPT !.data = data]
    BY <1>6 DEF WrittenBack
  <2>2. [a \in CodeAddrs |-> decoding'[ImageWord(a)']] = [a \in CodeAddrs |-> decoding[ImageWord(a)]]
    BY DEF ImageWord
  <2>3. /\ Committed = FALSE /\ Committed' = TRUE
        /\ instruction'.nextIp = x.nextIp \div 4
        /\ regs' = regs /\ numInstr' = numInstr
    BY <1>3, <1>4, <1>5
  <2>4. Exe!WriteRegister(WrittenBack, regs)'
          = Machine!Core!WriteRegister([x EXCEPT !.data = data], regs)
    BY <2>1, <2>3, SameRegisters DEF Exe!WriteRegister
  <2> QED
    BY <2>2, <2>3, <2>4 DEF Machine!Retire
<1>7. Machine!Load(x) \/ Machine!Store(x) \/ Machine!Message(x) \/ Machine!Compute(x)
  <2>1. CASE x.type = "Ld"
    <3>1. i.type = "Ld" /\ i.addr = x.addr \div 4 /\ i.addr \in LoadAddrs
      BY <1>3, <2>1 DEF InstructionOK
    <3>2. Machine!Retire(x, stored[x.addr \div 4])
      BY <1>4, <1>6, <2>1, <3>1 DEF ProgramData
    <3>3. stored' = stored
      BY <3>1 DEF ProgramData
    <3>4. UNCHANGED ConsoleAfter(Pending)
      BY <1>4, <3>1, Quiet
    <3>5. Machine!Load(x)
      BY <2>1, <3>1, <3>2, <3>3, <3>4 DEF Machine!Load
    <3> QED
      BY <3>5
  <2>2. CASE x.type = "St"
    <3>1. /\ i.type = "St" /\ i.addr = x.addr \div 4 /\ i.addr \in StoreAddrs
          /\ i.data = x.data
      BY <1>3, <2>2 DEF InstructionOK
    <3>2. Machine!Retire(x, x.data)
      BY <1>6, <2>2
    <3>3. stored' = [stored EXCEPT ![x.addr \div 4] = x.data]
      BY <3>1 DEF ProgramData
    <3>4. UNCHANGED ConsoleAfter(Pending)
      BY <1>4, <3>1, Quiet
    <3>5. Machine!Store(x)
      BY <2>2, <3>1, <3>2, <3>3, <3>4 DEF Machine!Store
    <3> QED
      BY <3>5
  <2>3. CASE x.type \notin {"Ld", "St"} /\ IsMessage(x)
    <3>1. i.type = "Csrw" /\ i.data = x.data
      BY <1>3, <2>3
    <3>2. Machine!Retire(x, x.data)
      BY <1>6, <2>3
    <3>3. stored' = stored
      BY <3>1
    <3>4. Machine!Hear(x.data)
      BY <1>4, <1>5, <3>1, Heard
    <3>5. Machine!Message(x)
      BY <2>3, <3>2, <3>3, <3>4, SameConstants DEF Machine!Message
    <3> QED
      BY <3>5
  <2>4. CASE x.type \notin {"Ld", "St"} /\ ~IsMessage(x)
    <3>1. i.type \in {"J", "Alu"}
      BY <1>3, <2>4
    <3>2. Machine!Retire(x, x.data)
      BY <1>6, <2>4
    <3>3. stored' = stored
      BY <3>1
    <3>4. UNCHANGED ConsoleAfter(Pending)
      BY <1>4, <3>1, Quiet
    <3>5. Machine!Compute(x)
      BY <2>4, <3>2, <3>3, <3>4, SameConstants DEF Machine!Compute
    <3> QED
      BY <3>5
  <2> QED
    BY <2>1, <2>2, <2>3, <2>4
<1>8. ~ConsoleAfter(Pending).halted
  <2>1. Pending = NoMessage
    BY DEF Pending
  <2>2. (pc = "done") = FALSE
    OBVIOUS
  <2> QED
    BY <2>1, <2>2 DEF ConsoleAfter, Console
<1> QED
  BY <1>2, <1>7, <1>8, SameConstants DEF Machine!Next

-----------------------------------------------------------------------------
(***************************************************************************)
(* All other steps leave the abstract machine as it is.                    *)
(***************************************************************************)
LEMMA Stays ==
    ASSUME ~Committed, ~Committed', pc = "done" <=> pc' = "done",
           UNCHANGED <<decoding, regs, numInstr, ip, mem, dataMemory, cpuToHostData,
                       print_int, printed, low>>
    PROVE  UNCHANGED Machine!isaVars
<1>1. [a \in ProgramData |-> DataView(a)]' = [a \in ProgramData |-> DataView(a)]
  <2>1. \A a \in ProgramData : DataView(a)' = DataView(a)
    BY DataViews
  <2> QED
    BY <2>1
<1>2. [a \in CodeAddrs |-> decoding[ImageWord(a)]]' = [a \in CodeAddrs |-> decoding[ImageWord(a)]]
  BY DEF ImageWord
<1>3. Pending = cpuToHostData /\ Pending' = cpuToHostData
  BY DEF Pending
<1>4. (pc = "done") = (pc' = "done")
  OBVIOUS
<1>5. Console' = Console
  BY <1>4 DEF Console
<1>6. UNCHANGED ConsoleAfter(Pending)
  BY <1>3, <1>5 DEF ConsoleAfter, MessageType, MessageData, AsInt, WithHigh
<1> QED
  BY <1>1, <1>2, <1>6 DEF Machine!isaVars

LEMMA StutterStays ==
    ASSUME UNCHANGED simVars
    PROVE  UNCHANGED Machine!isaVars
<1>1. /\ UNCHANGED <<decoding, regs, executed, numInstr, ip, mem, dataMemory>>
      /\ UNCHANGED <<pc, instruction, cpuToHostData, print_int, printed, low>>
  BY DEF simVars, vars, memVars, cpuVars, csrVars, hostVars
<1>2. Committed' = Committed /\ WrittenBack' = WrittenBack /\ Pending' = Pending
      /\ Console' = Console
  BY <1>1 DEF Committed, WrittenBack, Pending, Console
<1>3. UNCHANGED ConsoleAfter(Pending)
  BY <1>1, <1>2 DEF ConsoleAfter, MessageType, MessageData, AsInt, WithHigh
<1>4. [a \in ProgramData |-> DataView(a)]' = [a \in ProgramData |-> DataView(a)]
  <2>1. \A a \in ProgramData : DataView(a)' = DataView(a)
    BY <1>1, DataViews
  <2> QED
    BY <2>1
<1>5. [a \in CodeAddrs |-> decoding[ImageWord(a)]]' = [a \in CodeAddrs |-> decoding[ImageWord(a)]]
  BY <1>1 DEF ImageWord
<1> QED
  BY <1>1, <1>2, <1>3, <1>4, <1>5 DEF Machine!isaVars, Exe!WriteRegister

LEMMA WriteStays ==
    ASSUME SimWrite
    PROVE  UNCHANGED Machine!isaVars
<1>1. /\ Committed /\ ~Committed' /\ pc # "done" /\ pc' # "done"
      /\ ip' = instruction.nextIp
      /\ regs' = Exe!WriteRegister(WrittenBack, regs)
      /\ numInstr' = (numInstr + 1) % CounterMod
      /\ cpuToHostData' = Pending
      /\ UNCHANGED <<decoding, mem, dataMemory, print_int, printed, low>>
  BY DEF SimWrite, Write, Committed, Pending, memVars, hostVars
<1>2. [a \in ProgramData |-> DataView(a)]' = [a \in ProgramData |-> DataView(a)]
  <2>1. \A a \in ProgramData : DataView(a)' = DataView(a)
    BY <1>1, DataViews
  <2> QED
    BY <2>1
<1>3. [a \in CodeAddrs |-> decoding[ImageWord(a)]]' = [a \in CodeAddrs |-> decoding[ImageWord(a)]]
  BY <1>1 DEF ImageWord
<1>4. Pending' = Pending
  BY <1>1 DEF Pending
<1>5. (pc = "done") = (pc' = "done")
  BY <1>1
<1>6. Console' = Console
  BY <1>1, <1>5 DEF Console
<1>7. UNCHANGED ConsoleAfter(Pending)
  BY <1>1, <1>4, <1>6 DEF ConsoleAfter, MessageType, MessageData, AsInt, WithHigh
<1> QED
  BY <1>1, <1>2, <1>3, <1>7 DEF Machine!isaVars

(***************************************************************************)
(* main's answer makes the console what it was taken to be since the       *)
(* message was written.                                                    *)
(***************************************************************************)
LEMMA AnswerStays ==
    ASSUME TypeOK, SimTick
    PROVE  UNCHANGED ConsoleAfter(Pending)
<1> DEFINE m    == cpuToHostData
           type == MessageType(m)
           data == MessageData(m)
<1>1. Pending = m /\ Pending' = NoMessage
  BY DEF SimTick, Tick, GetMessage, Committed, Pending
<1>2. ConsoleAfter(Pending)' = Console'
  BY <1>1 DEF ConsoleAfter
<1>3. pc # "done" /\ (pc' = "done" <=> m # NoMessage /\ type = 0)
  BY SentinelAssumption, SimulatorAssumption, ProgramAssumption DEF SimTick, Tick, TypeOK
<1>4. /\ Console  = [low |-> low, printed |-> printed, halted |-> FALSE]
      /\ Console' = [low |-> low', printed |-> printed', halted |-> m # NoMessage /\ type = 0]
  <2>1. (pc = "done") = FALSE /\ (pc' = "done") = (m # NoMessage /\ type = 0)
    BY <1>3
  <2> QED
    BY <2>1 DEF Console
<1>5. CASE m = NoMessage
  BY <1>1, <1>2, <1>4, <1>5 DEF ConsoleAfter, SimTick, hostVars
<1>6. CASE m # NoMessage
  <2> DEFINE was == [low |-> low, printed |-> printed, halted |-> FALSE]
  <2>1. Answer(m)
    BY <1>6 DEF SimTick
  <2>2. /\ type = 0 => ConsoleAfter(m) =
                          [was EXCEPT !.printed = <<"exit", data>>, !.halted = TRUE]
        /\ type = 1 => ConsoleAfter(m) = [was EXCEPT !.printed = <<"char", data % 256>>]
        /\ type = 2 => ConsoleAfter(m) = [was EXCEPT !.low = data]
    BY <1>4, <1>6 DEF ConsoleAfter
  <2>3. type = 3 => ConsoleAfter(m) =
                      [was EXCEPT !.low = Exe!None,
                                  !.printed = <<"int", AsInt(WithHigh(print_int, data))>>]
    BY <1>4, <1>6 DEF ConsoleAfter
  <2>4. type \notin {0, 1, 2, 3} => ConsoleAfter(m) = was
    BY <1>4, <1>6 DEF ConsoleAfter
  <2>5. /\ type = 0 => ExitCode(data)
        /\ type = 1 => PrintChar(data)
        /\ type = 2 => PrintIntLow(data)
        /\ type = 3 => PrintIntHigh(data)
        /\ type \notin {0, 1, 2, 3} => UNCHANGED hostVars
    BY <2>1 DEF Answer
  <2> HIDE DEF m, type, data
  <2>6. /\ type = 0 => Console' = ConsoleAfter(m)
        /\ type = 1 => Console' = ConsoleAfter(m)
        /\ type = 2 => Console' = ConsoleAfter(m)
    <3>1. /\ type = 0 => low' = low /\ printed' = <<"exit", data>>
          /\ type = 1 => low' = low /\ printed' = <<"char", data % 256>>
          /\ type = 2 => low' = data /\ printed' = printed
      BY <2>5 DEF ExitCode, PrintChar, PrintIntLow, Say
    <3>2. Console' = [low |-> low', printed |-> printed', halted |-> type = 0]
      BY <1>4, <1>6
    <3>3. type = 0 => Console' = ConsoleAfter(m)
      BY <2>2, <3>1, <3>2
    <3>4. type \in {1, 2} => (type = 0) = FALSE
      OBVIOUS
    <3>5. type = 1 => Console' = ConsoleAfter(m)
      <4> DEFINE shown == <<"char", data % 256>>
      <4>1. /\ type = 1 => low' = low /\ printed' = shown
            /\ type = 1 => ConsoleAfter(m) = [was EXCEPT !.printed = shown]
        BY <2>2, <3>1
      <4> HIDE DEF shown
      <4> QED BY <3>2, <3>4, <4>1
    <3>6. type = 2 => Console' = ConsoleAfter(m)
      <4>1. type = 2 => low' = data /\ printed' = printed
        BY <3>1
      <4>2. type = 2 => ConsoleAfter(m) = [was EXCEPT !.low = data]
        BY <2>2
      <4> QED BY <3>2, <3>4, <4>1, <4>2
    <3> QED BY <3>3, <3>5, <3>6
  <2>7. type = 3 => Console' = ConsoleAfter(m)
    <3> DEFINE shown == <<"int", AsInt(WithHigh(print_int, data))>>
    <3>1. type = 3 => printed' = shown /\ low' = Exe!None
      BY <2>5 DEF PrintIntHigh, Say, AsInt
    <3>2. type = 3 => (m # NoMessage /\ type = 0) = FALSE
      OBVIOUS
    <3>3. type = 3 => ConsoleAfter(m) = [was EXCEPT !.low = Exe!None, !.printed = shown]
      BY <2>3
    <3> HIDE DEF shown
    <3> QED
      BY <1>4, <3>1, <3>2, <3>3
  <2>8. type \notin {0, 1, 2, 3} => Console' = ConsoleAfter(m)
    BY <1>4, <2>4, <2>5 DEF hostVars
  <2> QED
    BY <1>1, <1>2, <2>6, <2>7, <2>8
<1> QED
  BY <1>5, <1>6

LEMMA TickStays ==
    ASSUME TypeOK, SimTick
    PROVE  UNCHANGED Machine!isaVars
<1>1. /\ ~Committed /\ ~Committed'
      /\ UNCHANGED <<decoding, regs, numInstr, ip, mem, dataMemory>>
  BY DEF SimTick, Tick, Committed, MemClock, cpuVars
<1>2. [a \in ProgramData |-> DataView(a)]' = [a \in ProgramData |-> DataView(a)]
  <2>1. \A a \in ProgramData : DataView(a)' = DataView(a)
    BY <1>1, DataViews
  <2> QED
    BY <2>1
<1>3. [a \in CodeAddrs |-> decoding[ImageWord(a)]]' = [a \in CodeAddrs |-> decoding[ImageWord(a)]]
  BY <1>1 DEF ImageWord
<1> QED
  BY <1>1, <1>2, <1>3, AnswerStays DEF Machine!isaVars

-----------------------------------------------------------------------------
(***************************************************************************)
(* The refinement, one step per action.                                    *)
(***************************************************************************)
LEMMA InstructionSteps ==
    ASSUME ProgramPlacement, IInv, SimInv, NoMessageLost', SimClock,
           FirstResponse \/ ClockResume, pc' = "write"
    PROVE  Machine!Next
<1>1. MemTypeOK /\ CellsOK /\ ip \in CodeAddrs /\ ~Committed /\ pc # "done"
  BY IInvTypes DEF TypeOK, FirstResponse, ClockResume, Committed
<1>2. /\ UNCHANGED <<decoding, regs, executed, numInstr, ip, cpuToHostData,
                     print_int, printed, low>>
      /\ cpuToHostData = NoMessage
      /\ low # Exe!None => print_int = WithLow(low)
  BY DEF SimClock, FirstResponse, ClockResume, CountCycle, csrVars, hostVars, NoMessageLost,
         SimInv
<1>3. CASE FirstResponse
  <2> DEFINE i == instruction
  <2>1. /\ InstructionOK(i) /\ Current(i) /\ i \in Instruction
        /\ DataResponse(i.addr, i.data, i.type) /\ DataReady(i.type)
        /\ instruction' = [i EXCEPT !.data = DataResult(i.data, i.type)]
        /\ i.type \in MemoryTypes => i.addr \in DataAddrs /\ PendingAccess(i)
    BY <1>3 DEF FirstResponse, IInv, PipelineOK, InstructionOK, RequestStillValid,
                MemoryTypes, DataAddrs, SimInv
  <2>2. /\ \A a \in DataAddrs :
             DataView(a)' = IF i.type = "St" /\ a = i.addr THEN i.data ELSE DataView(a)
        /\ DataResult(i.data, i.type) =
             IF i.type = "Ld" THEN DataView(i.addr) ELSE i.data
    <3>1. CASE i.type \in MemoryTypes
      BY <1>1, <2>1, <3>1, ResponseView DEF Completes, DataReady, Instruction
    <3>2. CASE i.type \notin MemoryTypes
      <4>1. UNCHANGED <<mem, dataMemory>>
        BY <2>1, <3>2 DEF DataResponse
      <4> QED
        BY <3>2, <4>1, DataViews DEF DataResult, MemoryTypes
    <3> QED
      BY <3>1, <3>2
  <2> QED
    BY <1>1, <1>2, <2>1, <2>2, CommitStep DEF ProgramData, DataAddrs
<1>4. CASE ClockResume
  <2> DEFINE i == waitingInstruction
  <2>1. /\ InstructionOK(i) /\ Current(i) /\ i \in Instruction
        /\ DataResponse(i.addr, i.data, i.type) /\ Completes(i.type)
        /\ instruction' = [i EXCEPT !.data = DataResult(i.data, i.type)]
        /\ i.addr \in DataAddrs /\ PendingAccess(i)
    BY <1>4 DEF ClockResume, IInv, PipelineOK, InstructionOK, RequestStillValid,
                MemoryTypes, DataAddrs, Completes, SimInv
  <2>2. /\ \A a \in DataAddrs :
             DataView(a)' = IF i.type = "St" /\ a = i.addr THEN i.data ELSE DataView(a)
        /\ DataResult(i.data, i.type) =
             IF i.type = "Ld" THEN DataView(i.addr) ELSE i.data
    BY <1>1, <2>1, ResponseView DEF Instruction
  <2> QED
    BY <1>1, <1>2, <2>1, <2>2, CommitStep DEF ProgramData, DataAddrs
<1> QED
  BY <1>3, <1>4

LEMMA SimStep ==
    ASSUME ProgramPlacement, IInv, SimInv, NoMessageLost', [SimNext]_simVars
    PROVE  [Machine!Next]_(Machine!isaVars)
<1>1. CASE SimWrite
  BY <1>1, WriteStays
<1>2. CASE SimTick
  BY <1>2, TickStays, IInvTypes
<1>3. CASE SimExecute
  <2>1. UNCHANGED <<mem, dataMemory>>
    BY <1>3 DEF SimExecute, Execute, DataRequest, memVars
  <2>2. /\ ~Committed /\ ~Committed' /\ pc # "done" /\ pc' # "done"
        /\ UNCHANGED <<decoding, regs, numInstr, ip, cpuToHostData, print_int, printed, low>>
    BY <1>3 DEF SimExecute, Execute, Committed, csrVars, hostVars
  <2> QED
    BY <2>1, <2>2, Stays
<1>4. CASE SimClock /\ (FirstResponse \/ ClockResume) /\ pc' = "write"
  BY <1>4, InstructionSteps
<1>5. CASE SimClock /\ FirstResponse /\ pc' # "write"
  <2>1. UNCHANGED <<mem, dataMemory>>
    BY <1>5 DEF FirstResponse, DataResponse
  <2>2. /\ ~Committed /\ ~Committed' /\ pc # "done" /\ pc' # "done"
        /\ UNCHANGED <<decoding, regs, numInstr, ip, cpuToHostData, print_int, printed, low>>
    BY <1>5 DEF SimClock, FirstResponse, Committed, csrVars, hostVars
  <2> QED
    BY <2>1, <2>2, Stays
<1>6. CASE SimClock /\ (ClockStall \/ ClockFetch \/ FetchWait \/ Fetch \/ Exited)
  <2>1. UNCHANGED <<mem, dataMemory>>
    BY <1>6, FetchIInv DEF ClockStall, ClockFetch, FetchWait, Fetch, Exited, vars, memVars,
                           CodeRequest, CodeResponse
  <2>2. /\ ~Committed /\ ~Committed'
        /\ pc = "done" <=> pc' = "done"
        /\ UNCHANGED <<decoding, regs, numInstr, ip, cpuToHostData, print_int, printed, low>>
    BY <1>6 DEF SimClock, ClockStall, ClockFetch, FetchWait, Fetch, Exited, CountCycle,
                Committed, vars, cpuVars, csrVars, hostVars
  <2> QED
    BY <2>1, <2>2, Stays
<1>7. CASE Astray \/ UNCHANGED simVars
  <2>1. UNCHANGED simVars
    BY <1>7 DEF Astray
  <2> QED
    BY <2>1, StutterStays
<1>8. ClockResume => pc' = "write"
  BY DEF ClockResume
<1> QED
  BY <1>1, <1>2, <1>3, <1>4, <1>5, <1>6, <1>7, <1>8 DEF SimNext, SimClock

LEMMA SimStarts ==
    ASSUME ProgramPlacement, SimInit
    PROVE  Machine!Init
<1>1. /\ pc = "clock" /\ ip = ResetIp /\ numInstr = 0 /\ cpuToHostData = NoMessage
      /\ decoding \in Decodings /\ regs = [r \in Exe!Register |-> 0]
      /\ low = Exe!None /\ printed = <<"nothing", 0>>
  BY DEF SimInit, Init
<1>2. [a \in ProgramData |-> DataView(a)] = [a \in ProgramData |-> ImageWord(a)]
  BY ViewInit DEF SimInit, WordStore!Init, ProgramData
<1>3. Console = Machine!Silent
  <2>1. (pc = "done") = FALSE
    BY <1>1
  <2> QED
    BY <1>1, <2>1, SameConstants DEF Console, Machine!Silent
<1>4. ~Committed /\ ConsoleAfter(Pending) = Machine!Silent
  BY <1>1, <1>3 DEF Committed, Pending, ConsoleAfter
<1>5. [a \in CodeAddrs |-> decoding[ImageWord(a)]]
         \in {[a \in CodeAddrs |-> d[ImageWord(a)]] : d \in Decodings}
  BY <1>1
<1> QED
  BY <1>1, <1>2, <1>4, <1>5 DEF Machine!Init, Machine!Core!Register, Exe!Register

(***************************************************************************)
(* For every program, width and geometry the simulator does what the       *)
(* instruction-set machine does, whatever its caches and its clock have    *)
(* to do for it (SimulatorImplementsIsa).                                  *)
(***************************************************************************)
THEOREM SimulatorRefinesIsa ==
    ASSUME ProgramPlacement
    PROVE  SimSpec => SimulatorImplementsIsa
<1>1. SimInit => Machine!Init /\ SimInv
  BY SimStarts, InitSimInv
<1>2. IInv /\ SimInv /\ [SimNext]_simVars => SimInv'
  BY StepSimInv
<1>3. IInv /\ SimInv /\ NoMessageLost' /\ [SimNext]_simVars
         => [Machine!Next]_(Machine!isaVars)
  BY SimStep
<1>4. SimSpec => []IInv /\ []NoMessageLost
  BY SimIsCpu, Invariance, MessagesReachHost, PTL
<1> QED
  BY <1>1, <1>2, <1>3, <1>4, PTL DEF SimSpec, SimulatorImplementsIsa, Machine!Spec
-----------------------------------------------------------------------------
(***************************************************************************)
(* Types.  The assumptions of Words and Executor hold here, so what        *)
(* ExecutorProofs shows of the executor holds for the one of Simulator.    *)
(***************************************************************************)
LEMMA FactsAssumptions == Facts!WidthAssumption /\ Facts!DeadBeafAssumption
<1>1. Facts!TwoTo = Exe!TwoTo
  BY DEF Facts!TwoTo, Exe!TwoTo
<1>2. Facts!WordSet = Exe!WordSet
  BY <1>1 DEF Facts!WordSet, Exe!WordSet, Facts!Modulus, Exe!Modulus
<1> QED
  BY <1>2, SimulatorAssumption, ProgramAssumption
     DEF Facts!WidthAssumption, Facts!DeadBeafAssumption

\* Both instances of Executor are the same operators, by their definitions.
LEMMA SameFacts ==
    /\ Facts!TwoTo = Exe!TwoTo /\ Facts!WordSet = Word /\ Facts!Modulus = Exe!Modulus
    /\ Facts!Register = Exe!Register /\ Facts!None = Exe!None
    /\ Facts!InstructionObject = Exe!InstructionObject
    /\ \A i, r : Facts!WriteRegister(i, r) = Exe!WriteRegister(i, r)
    /\ \A i, r : Facts!ReadRegisters(i, r) = Exe!ReadRegisters(i, r)
    /\ \A i, m, c : Facts!ReadCsr(i, m, c) = Exe!ReadCsr(i, m, c)
    /\ \A i, a : Facts!Execute(i, a) = Exe!Execute(i, a)
    /\ \A a, b : Facts!BitOr(a, b) = Exe!BitOr(a, b)
<1>1. Facts!TwoTo = Exe!TwoTo
  BY DEF Facts!TwoTo, Exe!TwoTo
<1>2. /\ Facts!Modulus = Exe!Modulus /\ Facts!WordSet = Word
  BY <1>1, SimulatorAssumption DEF Facts!WordSet, Exe!WordSet, Facts!Modulus, Exe!Modulus
<1>3. Facts!Register = Exe!Register /\ Facts!None = Exe!None
  BY DEF Facts!Register, Exe!Register, Facts!None, Exe!None
<1>4. Facts!InstructionObject = Exe!InstructionObject
  BY <1>2, <1>3, SimulatorAssumption
     DEF Facts!InstructionObject, Exe!InstructionObject, Facts!IType, Exe!IType,
         Facts!BrFunc, Exe!BrFunc, Facts!AluFunc, Exe!AluFunc
<1>5. ASSUME NEW a, NEW b
      PROVE  Facts!BitAnd(a, b) = Exe!BitAnd(a, b) /\ Facts!BitXor(a, b) = Exe!BitXor(a, b)
  <2>1. \A w, k : Facts!Bit(w, k) = Exe!Bit(w, k)
    BY <1>1 DEF Facts!Bit, Exe!Bit
  <2>2. \A bit, size : Facts!FromBits(bit, size) = Exe!FromBits(bit, size)
    BY <1>1 DEF Facts!FromBits, Exe!FromBits
  <2> QED
    BY <2>1, <2>2 DEF Facts!BitAnd, Exe!BitAnd, Facts!BitXor, Exe!BitXor
<1>6. \A a, b : Facts!BitOr(a, b) = Exe!BitOr(a, b)
  BY <1>5 DEF Facts!BitOr, Exe!BitOr
<1>7. ASSUME NEW i, NEW a PROVE Facts!Execute(i, a) = Exe!Execute(i, a)
  BY <1>1, <1>2, <1>3, <1>5, <1>6
     DEF Facts!Execute, Exe!Execute,
         Facts!BranchTarget, Exe!BranchTarget, Facts!Following, Exe!Following,
         Facts!BranchingProcessing, Exe!BranchingProcessing,
         Facts!AluProcessing, Exe!AluProcessing,
         Facts!Compute, Exe!Compute, Facts!Truth, Exe!Truth,
         Facts!ShiftLeft, Exe!ShiftLeft, Facts!ShiftRight, Exe!ShiftRight,
         Facts!ShiftArithmetic, Exe!ShiftArithmetic,
         Facts!Signed, Exe!Signed, Facts!Wrap, Exe!Wrap
<1>8. ASSUME NEW i, NEW r, NEW m, NEW c
      PROVE  /\ Facts!ReadRegisters(i, r) = Exe!ReadRegisters(i, r)
             /\ Facts!ReadCsr(i, m, c) = Exe!ReadCsr(i, m, c)
             /\ Facts!WriteRegister(i, r) = Exe!WriteRegister(i, r)
  BY <1>3 DEF Facts!ReadRegisters, Exe!ReadRegisters, Facts!ReadCsr, Exe!ReadCsr,
              Facts!WriteRegister, Exe!WriteRegister, Facts!CsrInstret, Exe!CsrInstret,
              Facts!CsrCycle, Exe!CsrCycle, Facts!CsrMhartid, Exe!CsrMhartid
<1> QED
  BY <1>1, <1>2, <1>3, <1>4, <1>6, <1>7, <1>8

\* Or-ing halves gives a half: none of its bits is above either half's.
LEMMA HalfType ==
    /\ Half \in Nat \ {0}
    /\ \A a, b \in 0 .. Half - 1 : Exe!BitOr(a, b) \in 0 .. Half - 1
    /\ \A w \in Word : MessageData(w) \in 0 .. Half - 1
<1> DEFINE n == WordBits \div 2
<1>1. n \in Nat /\ n \in 0 .. WordBits /\ Half = Facts!TwoTo[n]
  BY SimulatorAssumption, SameFacts DEF Half
<1> HIDE DEF n
<1>2. Half \in Nat \ {0}
  BY <1>1, FactsAssumptions, Facts!TwoToPositive
<1>3. \A a, b \in 0 .. Half - 1 : Facts!BitOr(a, b) \in 0 .. Half - 1
  BY <1>1, FactsAssumptions, Facts!BitOrRange
<1>4. Word \subseteq Nat
  <2>1. Facts!Modulus \in Nat
    BY FactsAssumptions, Facts!ModulusType
  <2> QED BY <2>1, SameFacts DEF Facts!WordSet
<1>5. \A w \in Word : w % Half \in 0 .. Half - 1
  BY <1>2, <1>4
<1> QED BY <1>2, <1>3, <1>5, SameFacts DEF MessageData

\* The executor makes an instruction object of what the program has at ip.
LEMMA OutcomeType ==
    ASSUME IInv, SimTypeOK, pc = "execute"
    PROVE  Outcome \in Exe!InstructionObject
<1>1. instrCode \in CodeWords
  BY DEF IInv, TypeOK, FetchedWordIsProgram, CodeWords
<1>2. decoding[instrCode] \in Exe!InstructionObject
  BY <1>1, SimulatorAssumption DEF SimTypeOK
<1>3. numInstr \in Word /\ numCycles \in Word
  BY SimulatorAssumption DEF IInv, TypeOK
<1>4. 4 * ip \in Int
  BY ProgramAssumption DEF IInv, TypeOK, Addrs
<1> DEFINE i == decoding[instrCode]
           j == Exe!ReadCsr(Exe!ReadRegisters(i, regs), numInstr, numCycles)
<1>5. j \in Exe!InstructionObject
  <2> HIDE DEF i
  <2>1. regs \in [Facts!Register -> Facts!WordSet] /\ i \in Facts!InstructionObject
    BY <1>2, SameFacts DEF SimTypeOK, i
  <2> QED
    BY <1>3, <2>1, SameFacts, FactsAssumptions, Facts!ReadType
<1>6. Outcome = Exe!Execute(j, 4 * ip)
  BY DEF Outcome
<1> HIDE DEF j
<1>7. Facts!Execute(j, 4 * ip) \in Facts!InstructionObject
  BY <1>4, <1>5, SameFacts, FactsAssumptions, Facts!ExecuteType
<1> QED BY <1>6, <1>7, SameFacts

\* Write and Tick are the steps that put words into registers and print_int.
LEMMA StepSimTypeOK ==
    ASSUME IInv, SimTypeOK, TypeOK', [SimNext]_simVars
    PROVE  SimTypeOK'
<1>1. CASE SimExecute
  <2>1. /\ executed' \in Exe!InstructionObject
        /\ UNCHANGED <<decoding, regs, print_int, low>>
    BY <1>1, OutcomeType DEF SimExecute, Execute, hostVars
  <2> QED BY <2>1 DEF SimTypeOK
<1>2. CASE SimWrite
  <2>1. /\ regs' = Facts!WriteRegister(WrittenBack, regs)
        /\ pc = "write"
        /\ UNCHANGED <<decoding, executed, print_int, low>>
    BY <1>2, SameFacts DEF SimWrite, Write, hostVars
  <2>2. WrittenBack \in Facts!InstructionObject
    <3>1. executed \in Facts!InstructionObject
      BY SameFacts DEF SimTypeOK
    <3>2. executed.data \in Facts!WordSet
      BY <3>1 DEF Facts!InstructionObject
    <3>3. instruction.data \in Facts!WordSet
      BY <2>1, SameFacts DEF IInv, PipelineOK, InstructionOK, Instruction
    <3>4. PICK v \in Facts!WordSet : WrittenBack = [executed EXCEPT !.data = v]
      BY <3>2, <3>3 DEF WrittenBack
    <3> QED BY <3>1, <3>4, FactsAssumptions, Facts!ValueType
  <2>3. regs \in [Facts!Register -> Facts!WordSet]
    BY SameFacts DEF SimTypeOK
  <2>4. regs' \in [Facts!Register -> Facts!WordSet]
    BY <2>1, <2>2, <2>3, FactsAssumptions, Facts!WriteType
  <2> QED BY <2>1, <2>4, SameFacts DEF SimTypeOK
<1>3. CASE SimTick
  <2> DEFINE data == MessageData(cpuToHostData)
  <2>1. UNCHANGED <<decoding, regs, executed>>
    BY <1>3 DEF SimTick
  <2>2. cpuToHostData # NoMessage => data \in 0 .. Half - 1
    BY HalfType DEF IInv, TypeOK
  <2>3. print_int' \in [upper : 0 .. Half - 1, lower : 0 .. Half - 1] /\ low' \in Exe!None .. Half - 1
    <3> HIDE DEF data
    <3>1. CASE UNCHANGED <<print_int, low>>
      BY <3>1 DEF SimTypeOK
    <3>2. CASE cpuToHostData # NoMessage /\ PrintIntLow(data)
      BY <2>2, <3>2, HalfType DEF PrintIntLow, WithLow, Exe!None
    <3>3. CASE cpuToHostData # NoMessage /\ PrintIntHigh(data)
      <4>1. print_int.upper \in 0 .. Half - 1 /\ Exe!BitOr(print_int.upper, data) \in 0 .. Half - 1
        BY <2>2, <3>3, HalfType DEF SimTypeOK
      <4>2. PICK upper \in 0 .. Half - 1 : WithHigh(print_int, data) = [print_int EXCEPT !.upper = upper]
        BY <2>2, <3>3, <4>1 DEF WithHigh, SimTypeOK
      <4>3. [print_int EXCEPT !.upper = upper] \in [upper : 0 .. Half - 1, lower : 0 .. Half - 1]
        BY DEF SimTypeOK
      <4> QED BY <3>3, <4>2, <4>3, HalfType DEF PrintIntHigh, Exe!None
    <3> QED
      BY <1>3, <3>1, <3>2, <3>3 DEF SimTick, Answer, ExitCode, PrintChar, hostVars, data
  <2> QED BY <2>1, <2>3 DEF SimTypeOK
<1>4. CASE SimClock \/ Astray \/ UNCHANGED simVars
  <2>1. UNCHANGED <<decoding, regs, executed, print_int, low>>
    BY <1>4 DEF SimClock, Astray, simVars, hostVars
  <2> QED BY <2>1 DEF SimTypeOK
<1> QED BY <1>1, <1>2, <1>3, <1>4 DEF SimNext

(***************************************************************************)
(* Registers, the executed instruction and the integer main puts together  *)
(* stay in their ranges, for every width, program and geometry: the upper  *)
(* half of print_int is half a word although halves are or-ed into it      *)
(* (SimTypeOK).                                                            *)
(***************************************************************************)
THEOREM SimulatorTypes ==
    ASSUME ProgramPlacement
    PROVE  SimSpec => []SimTypeOK
<1>1. SimInit => SimTypeOK
  <2> SUFFICES ASSUME SimInit PROVE SimTypeOK
    OBVIOUS
  <2>1. TypeOK
    BY InitTypeOK DEF SimInit
  <2>2. Exe!FreshInstruction \in Exe!InstructionObject /\ 0 \in Word
    <3>1. Facts!FreshInstruction = Exe!FreshInstruction
      BY SameFacts DEF Facts!FreshInstruction, Exe!FreshInstruction
    <3>2. Facts!FreshInstruction \in Facts!InstructionObject
      BY FactsAssumptions, Facts!FreshType
    <3>3. 0 \in Facts!WordSet
      BY FactsAssumptions, Facts!ModulusType
    <3> QED BY <3>1, <3>2, <3>3, SameFacts
  <2> QED BY <2>1, <2>2, HalfType DEF SimInit, SimTypeOK, Exe!None
<1>2. IInv /\ SimTypeOK /\ TypeOK' /\ [SimNext]_simVars => SimTypeOK'
  BY StepSimTypeOK
<1>3. SimSpec => []IInv /\ []TypeOK
  BY SimIsCpu, Invariance, TypeCorrect, PTL
<1> QED BY <1>1, <1>2, <1>3, PTL DEF SimSpec
=============================================================================
