-------------------------------- MODULE Cpu --------------------------------
(***************************************************************************)
(* class Cpu (src/src/Cpu.h) over the cached memory, driven by the loop of *)
(* src/src/main.cpp.  One turn of that loop is                             *)
(*                                                                         *)
(*     cpu.Clock(); mem.Clock(); cpu.GetMessage()                          *)
(*                                                                         *)
(* and Cpu::Clock stalls, waits for an instruction word, executes an       *)
(* instruction up to its first data response, or resumes the instruction   *)
(* that was waiting for its data.  pc says where in the loop the           *)
(* (only) thread is; every action is the code between two such places.     *)
(*                                                                         *)
(* What Decoder, RegisterFile and Executor make of an instruction word is  *)
(* left open: the word may turn out to be any instruction whose addresses  *)
(* are among those the program uses.                                       *)
(***************************************************************************)
EXTENDS CachedMem

CONSTANTS
    ResetIp,        \* the first instruction (0x200 / 4)
    CodeAddrs,      \* word addresses of the program's instructions
    LoadAddrs,      \* word addresses its loads may read
    StoreAddrs,     \* word addresses its stores may write
    StoreWords,     \* words its stores may write there
    MessageWords,   \* words it may write to the mtohost register
    ExitWords,      \* those of them whose type is ExitCode
    DeadWord,       \* 0xdeadbeaf, the data field of a fresh instruction
    CounterMod,     \* the counters wrap at this value (2^32)
    NoWord,         \* no instruction code fetched yet
    NoInstruction,  \* the null InstructionPtr
    NoMessage       \* the empty cpuToHostData

ASSUME ProgramAssumption ==
    /\ ResetIp \in CodeAddrs
    /\ CodeAddrs \subseteq Addrs
    /\ LoadAddrs \subseteq Addrs
    /\ StoreAddrs \subseteq Addrs
    /\ StoreWords \subseteq Word
    /\ ExitWords \subseteq MessageWords
    /\ MessageWords \subseteq Word
    /\ DeadWord \in Word
    /\ CounterMod \in Nat \ {0}

LinesOf(addrs) == {ToLineAddr(a) : a \in addrs}

CodeLines  == LinesOf(CodeAddrs)
DataLines  == LinesOf(LoadAddrs \cup StoreAddrs)
StoreLines == LinesOf(StoreAddrs)

(***************************************************************************)
(* The instructions by what the clock does with them: "Alu" stands for     *)
(* Alu, Auipc, Csrr and a Csrw of another register than mtohost, "J" for   *)
(* J, Jr and Br.  NoAddr is the 0xdeadbeaf a fresh instruction has for an  *)
(* address; only Ld and St set another one.                                *)
(***************************************************************************)
NoAddr == -1

Instruction == [type   : {"Alu", "Ld", "St", "J", "Csrw"},
                addr   : Addrs \cup {NoAddr},
                data   : Word,
                nextIp : CodeAddrs]

ASSUME SentinelAssumption ==
    /\ NoWord \notin Word
    /\ NoMessage \notin Word
    /\ NoInstruction \notin Instruction

VARIABLES
    ip,                  \* _ip
    pc,                  \* where in the main loop the thread is
    instrCode,           \* the word the code response returned
    instruction,         \* _instruction
    waitingInstruction,  \* _waitingInstruction
    cpuToHostData,       \* CsrFile::cpuToHostData
    numInstr,            \* CsrFile::numInstr
    numCycles            \* CsrFile::numCycles

csrVars == <<cpuToHostData, numInstr, numCycles>>
cpuVars == <<ip, instrCode, instruction, waitingInstruction>>
vars    == <<memVars, cpuVars, csrVars, pc>>

TypeOK ==
    /\ MemTypeOK
    /\ ip \in CodeAddrs
    /\ pc \in {"clock", "fetch", "execute", "dataResponse", "write",
               "memClock", "done"}
    /\ instrCode \in Word \cup {NoWord}
    /\ instruction \in Instruction \cup {NoInstruction}
    /\ waitingInstruction \in Instruction \cup {NoInstruction}
    /\ cpuToHostData \in Word \cup {NoMessage}
    /\ numInstr \in 0 .. CounterMod - 1
    /\ numCycles \in 0 .. CounterMod - 1

Init ==
    /\ MemInit
    /\ ip = ResetIp
    /\ pc = "clock"
    /\ instrCode = NoWord
    /\ instruction = NoInstruction
    /\ waitingInstruction = NoInstruction
    /\ cpuToHostData = NoMessage
    /\ numInstr = 0
    /\ numCycles = 0

-----------------------------------------------------------------------------
(***************************************************************************)
(* Cpu::Clock, first part: count the cycle and see what there is to do.    *)
(***************************************************************************)
\* Fault: a cycle the processor only waits in is not counted.
CountBusyCycle ==
    /\ numCycles' = IF waitCycles = 0 THEN (numCycles + 1) % CounterMod ELSE numCycles
    /\ UNCHANGED <<numInstr, cpuToHostData>>

CountCycle ==
    /\ numCycles' = (numCycles + 1) % CounterMod
    /\ UNCHANGED <<numInstr, cpuToHostData>>

Waiting == waitingInstruction # NoInstruction

ClockStall ==
    /\ pc = "clock"
    /\ waitCycles # 0
    /\ CountCycle
    /\ pc' = "memClock"
    /\ UNCHANGED <<memVars, cpuVars>>

ClockFetch ==
    /\ pc = "clock"
    /\ waitCycles = 0
    /\ ~Waiting
    /\ CountCycle
    /\ CodeRequest(ip)
    /\ pc' = "fetch"
    /\ UNCHANGED cpuVars

(***************************************************************************)
(* The waiting instruction is taken up again; whether its Response says    *)
(* that the access is complete is not looked at.                           *)
(***************************************************************************)
ClockResume ==
    /\ pc = "clock"
    /\ waitCycles = 0
    /\ Waiting
    /\ CountCycle
    /\ LET i == waitingInstruction
       IN  /\ DataResponse(i.addr, i.data, i.type)
           /\ instruction' = [i EXCEPT !.data = DataResult(i.data, i.type)]
    /\ waitingInstruction' = NoInstruction
    /\ pc' = "write"
    /\ UNCHANGED <<ip, instrCode>>

(***************************************************************************)
(* Second part: the code response.                                         *)
(***************************************************************************)
FetchWait ==
    /\ pc = "fetch"
    /\ waitCycles > 0
    /\ pc' = "memClock"
    /\ UNCHANGED <<memVars, cpuVars, csrVars>>

Fetch ==
    /\ pc = "fetch"
    /\ waitCycles = 0
    /\ CodeResponse
    /\ instrCode' = CodeWord
    /\ pc' = "execute"
    /\ UNCHANGED <<ip, instruction, waitingInstruction, csrVars>>

(***************************************************************************)
(* Third part: Decode, Read and Execute, then the data request.  A program *)
(* never runs off its instructions: the next ip is one of CodeAddrs.  The  *)
(* value an Alu or J writes to its register concerns no cache and stays    *)
(* DeadWord.                                                               *)
(***************************************************************************)
Loads  == [type : {"Ld"}, addr : LoadAddrs, data : {DeadWord}, nextIp : {ip + 1}]
Stores == [type : {"St"}, addr : StoreAddrs, data : StoreWords, nextIp : {ip + 1}]
Alus   == [type : {"Alu"}, addr : {NoAddr}, data : {DeadWord}, nextIp : {ip + 1}]
Jumps  == [type : {"J"}, addr : {NoAddr}, data : {DeadWord}, nextIp : CodeAddrs]
Csrws  == [type : {"Csrw"}, addr : {NoAddr}, data : MessageWords, nextIp : {ip + 1}]

Decodable ==
    {i \in Loads \cup Stores \cup Alus \cup Jumps \cup Csrws : i.nextIp \in CodeAddrs}

Execute ==
    /\ pc = "execute"
    /\ \E i \in Decodable :
          /\ instruction' = i
          /\ DataRequest(i.addr, i.type)
    /\ instrCode' = NoWord
    /\ pc' = "dataResponse"
    /\ UNCHANGED <<ip, waitingInstruction, csrVars>>

(***************************************************************************)
(* Fourth part: the first data response.  Without an answer the            *)
(* instruction becomes the waiting one.                                    *)
(***************************************************************************)
FirstResponse ==
    /\ pc = "dataResponse"
    /\ DataResponse(instruction.addr, instruction.data, instruction.type)
    /\ IF DataReady(instruction.type)
       THEN /\ instruction' = [instruction EXCEPT
                                 !.data = DataResult(@, instruction.type)]
            /\ pc' = "write"
            /\ UNCHANGED waitingInstruction
       ELSE /\ waitingInstruction' = instruction
            /\ instruction' = NoInstruction
            /\ pc' = "memClock"
    /\ UNCHANGED <<ip, instrCode, csrVars>>

(***************************************************************************)
(* Last part: the write-back stage.                                        *)
(***************************************************************************)
Write ==
    /\ pc = "write"
    /\ cpuToHostData' = IF instruction.type = "Csrw"
                        THEN instruction.data
                        ELSE cpuToHostData
    /\ numInstr' = (numInstr + 1) % CounterMod
    /\ numCycles' = numCycles
    /\ ip' = instruction.nextIp
    /\ pc' = "memClock"
    /\ UNCHANGED <<memVars, instrCode, instruction, waitingInstruction>>

(***************************************************************************)
(* The rest of the main loop: clock the memory, empty the message slot,    *)
(* and return from main on an exit message.                                *)
(***************************************************************************)
\* Fault: the message stays in its slot.
ReadMessage == UNCHANGED cpuToHostData

GetMessage == cpuToHostData' = NoMessage

Tick ==
    /\ pc = "memClock"
    /\ MemClock
    /\ GetMessage
    /\ pc' = IF cpuToHostData \in ExitWords THEN "done" ELSE "clock"
    /\ UNCHANGED <<cpuVars, numInstr, numCycles>>

(***************************************************************************)
(* main has returned.                                                      *)
(***************************************************************************)
Exited == pc = "done" /\ UNCHANGED vars

Next ==
    \/ ClockStall \/ ClockFetch \/ ClockResume
    \/ FetchWait \/ Fetch
    \/ Execute \/ FirstResponse \/ Write
    \/ Tick \/ Exited

Spec == Init /\ [][Next]_vars

(***************************************************************************)
(* main's while (true) never pauses: some step is always taken.            *)
(***************************************************************************)
FairSpec == Spec /\ WF_vars(Next)

=============================================================================
