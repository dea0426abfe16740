# Verification of the cache simulator

This directory holds TLA+ modules for the RISC-V simulator of this repository
(`src/src/`): a processor model with a code cache and a data cache in front of
one memory, driven by a clock loop.  The modules are checked with TLC on small
instances, and theorems about them are proved with TLAPS for every value of the
constants.

Two results the rest leads up to.  For every program, geometry, latency and word
width, the simulator as a whole - loop, caches, countdown, registers, counters
and message slot - does what a machine does that executes each instruction in
one step on a memory without caches (`SimulatorRefinesIsa`).  And for every
supported instruction, with all registers, immediates, operands and addresses,
decoder and executor together compute what the instruction set says
(`InstructionsCompute`, `InstructionsTell`), with one exception, the low bit of
a jump's target, which is described below.

Paths below are relative to the repository; `Memory.h:372` means line 372 of
`src/src/Memory.h`.

## The system

The program is single threaded.  `main` (`main.cpp:19-47`) loops over

    cpu.Clock(); mem.Clock(); cpu.GetMessage()

What makes it hard is not concurrency but a *split transaction* stretched over
many turns of that loop: a `Request` decides hit or miss and starts a
countdown, and a `Response`, up to 272 cycles later, acts on that decision.
The code port and the data port share the registers that carry it.

| Component | State | Operations | Correct when |
|---|---|---|---|
| `CachedMem` (`Memory.h`) | two arrays of cells (address, line, usage bit, validity bit), `_requestedIp`, `_requestedOffset`, `_cacheMiss`, `_memoryRequestIp`, `_waitCycles` | `Request(ip)`, `Response(ip)`, `Request(addr, type)`, `Response(addr, data, type)`, `Clock` | a load returns the last word stored at its address; a fetch returns the program's word; no line is cached twice; nothing but stored lines ever changes in memory; replacement takes empty cells first |
| `MemoryStorage` (`Memory.h:38-148`) | one megaword of memory | `LoadElf`, read and write of a word | memory holds the segments of the file, the last one over an address wins; what a failed load leaves is determined |
| `UncachedMem` (`Memory.h:169-250`) | a request/response port of its own | read and write of a line; its own port | line reads and writes hit the right line |
| `Cpu` (`Cpu.h`) | `_ip`, `_instruction`, `_waitingInstruction` | `Clock`, `Reset`, `GetMessage` | every instruction completes exactly once, with its data, and resumes only when its access is done |
| `CsrFile` (`CsrFile.h`) | `numInstr`, `numCycles`, `cpuToHostData` | `Clock`, `InstructionExecuted`, `Read`, `Write`, `GetMessage` | no message to the host is overwritten; the counters account for every cycle and instruction |
| `Decoder`, `Executor` | none | `Decode`, `Execute` | the instruction set |
| `RegisterFile` | the 32 registers | `Read`, `Write` | operands are those of the previous instructions; x0 is zero |
| `PoolAllocator`, `PoolAllocated` | free list threaded through blocks of chunks | `allocate`, `deallocate`, `allocateBlock` | no object shares storage with a live one; no free chunk is lost |
| `main` | `print_int`, what it printed | load, dispatch of messages, exit | the exit code, characters and integers printed are those the program sent |

How the parts interact: `Cpu::Clock` calls the memory (`Request`, `Response`)
directly and looks at its countdown (`getWaitCycles`); `CachedMem` calls
`UncachedMem` to read a line and to write one back; `Executor`s results are
fields of the `Instruction` object that `Cpu` passes on; the `Csrw` of the
write-back stage leaves a message in `CsrFile`, which `main` collects in the
same turn of the loop.  `Decode` takes every `Instruction` from the pool and its
`InstructionPtr` gives it back.  `LoadElf` fills the memory once, before the
first turn.

### What is hard to test here

The full list, each with its line, is `hazards` in `PROJECT.json`.  In short:

* The request registers are shared by two ports and read long after they were
  written (`Memory.h:387`, `:444`).
* `Request(ip)` is dropped when `ip` is that of the previous code request
  (`Memory.h:374`).  Without that the processor, which repeats the request on
  every cycle, would never fetch anything; with it, a response may run on
  registers that another access has overwritten since.
* `Cpu.h:48` ignores whether the data response was complete.
* Hit or miss, and the victim a store is charged for, are computed at request
  time; the response computes the victim again.
* A replaced code line is always written back, dirty or not (`Memory.h:406`).
* Address 0 means "empty cell", `validityBit == false` means "dirty" in a
  filled cell and "empty" in another.
* The usage bits must never all be set, or all misses replace block 0.
* A load's register is written when the instruction is taken up again, many
  turns after its operands were read; the instruction counter a program reads
  must count exactly the instructions before the one that reads it.
* An integer reaches `main` in two messages, and the upper half is or-ed to
  whatever `print_int` holds (`main.cpp:44`).
* `jalr` keeps the low bit of its target (`Executor.h:64`).
* The link of a free chunk lies where the owner of a live chunk keeps its data
  (`PoolAllocator.h:46`).
* `LoadElf` may fail with earlier segments already copied, and `main` ignores
  that it failed (`main.cpp:11`).
* The decoder signs five kinds of immediates, put together in different orders
  (`Decoder.h:17-25`), and the executor tells signed from unsigned by a cast.

## Modules

    CacheArrays <- CachedMem <- Cpu <- CpuProperties <-+- CpuInvariant
                                          | INSTANCE   |
                                      WordMemory       `- Simulator --INSTANCE--> Executor
                                                              | INSTANCE             ^
                                                             Isa ----INSTANCE--------'

    Words <-+- Executor <- Decoder <-+- Instructions <- InstructionInvariant
            `- Assembly <------------'
    PoolAllocator --INSTANCE--> ObjectPool
    Loader

    CpuInvariant <- CpuProofs <- CoherenceProofs <- ReplacementProofs
    CoherenceProofs, Simulator <- SimulatorProofs --INSTANCE--> ExecutorProofs
    Executor <- ExecutorProofs
    ExecutorProofs, InstructionInvariant <- InstructionProofs
    PoolAllocator <- PoolProofs        Loader <- LoaderProofs

(`A <- B`: B extends A.)  `Cpu` leaves open what instructions compute;
`Executor` says what they compute; `Simulator` puts the two together with
`main`.  `Isa` is what a program expects of the result.

* `CacheArrays` - cells, rows, and the helpers `checkAddress`, `ifAllMarked`,
  `checkAllBits`, `changeLRUBit`, `pseudoLRUFinding`, `findEntry`, as operators
  on one *row*: the cells a line with a given index may live in, one per block.
  The code stores blocks of cells; the model stores the transposed array, which
  is the same data, since no helper looks at two indices at once.
* `CachedMem` - both ports, the write-back to memory and the countdown.  Each
  method is an action `CodeRequest`, `CodeResponse`, `DataRequest`,
  `DataResponse`, `MemClock`; `CodeWord`, `DataResult` and `DataReady` are what
  the methods return.
* `Cpu` - `Cpu::Clock` and the loop of `main`.  `pc` says where in the loop the
  thread is, and each action is the code between two places where the paths
  fork:

  | action | code | |
  |---|---|---|
  | `ClockStall` | `Cpu.h:20-24` | countdown running: return |
  | `ClockFetch` | `Cpu.h:20-27` | nothing waiting: `Request(ip)` |
  | `FetchWait`, `Fetch` | `Cpu.h:28-33` | no word yet: return; else `Response(ip)` |
  | `Execute` | `Cpu.h:33-39` | decode, read, execute, `Request(addr, type)` |
  | `FirstResponse` | `Cpu.h:40-44` | first data response; no answer: wait |
  | `ClockResume` | `Cpu.h:46-49` | the response of the waiting instruction |
  | `Write` | `Cpu.h:50-54` | write-back stage, next ip |
  | `Tick` | `main.cpp:22-38` | `mem.Clock`, `GetMessage`, exit |
  | `Exited` | `main.cpp:30-38` | `main` has returned |

* `WordMemory` - the abstract specification of the data side: an array of words
  with at most one access outstanding.
* `CpuProperties` - what must hold, and the refinement mapping to `WordMemory`.
* `CpuInvariant` - the inductive invariant `IInv`, in named parts.
* `Words` - a `Word` as a number of `WordBits` bits, with wrap-around and its bits.
* `Executor` - the `Instruction` object with the values it starts with,
  `RegisterFile::Read` and `Write`, `CsrFile::Read`, `Execute` with its
  fall-through, the ALU and the branch functions, on words of `WordBits` bits.
* `Decoder` - `Decode`: the bit-fields of a word, the five immediates, the
  tables of operations, the reset of destination 0.
* `Assembly` - the other side of `Decoder` and `Executor`, external to the code:
  how the instructions of the programs are encoded and what they mean, stated
  bit by bit or on signed numbers where the code computes.
* `Instructions` - the life of one `Instruction` object (`Cpu.h:33-54`): one
  action for each of decode, read, execute, memory, write-back.
* `InstructionInvariant` - what the object holds after each of these stages, said
  from the instruction as it was written (`Meant`), not from its word.
* `Simulator` - `Cpu` with the executor, the register file and `main`'s answer to
  messages filled in.  Each action is an action of `Cpu` (`SimExecute` is
  `Execute` with the instruction the executor yields, `SimWrite` is `Write` with
  the register written, `SimTick` is `Tick` with what `main` prints, `SimClock`
  is all others).  `executed` is the object as `Execute` left it; `low` is a
  history variable for the mapping.
* `Isa` - the abstract machine: program, ip, registers, data words, instruction
  counter and a console.  One instruction per step.
* `PoolAllocator`, `ObjectPool` - the free list, and what `new` and `delete`
  promise: storage that nobody else holds or writes.  `holders` counts how often
  the client has got each chunk and not given it back.  It is a history
  variable, which the code does not have; `ObjectPool` has the same count, and
  there it only ever goes from 0 to 1 and back.  A set of the chunks in use
  would not do: handing out one of them again would leave the set, and the
  contents, as they are.
* `Loader` - `LoadElf` and its use in `main`: `Open` (the checks before the first
  program header), `Segment` (one turn of the loop, `Memory.h:120-143`), `Finish`,
  `Start` (`main.cpp:11-17`, whatever the result).
* `CpuProofs` - lemmas on rows, types, messages.  `CoherenceProofs` - coherence
  and the refinement of `WordMemory`.  `ReplacementProofs` - usage bits, the
  surcharge and cycles.  `SimulatorProofs` - the refinement of `Isa`, types.
  `ExecutorProofs` - the bits of words and what the executor returns.
  `InstructionProofs` - decoding, and what each instruction does.  `PoolProofs`,
  `LoaderProofs` - the allocator, the loader.
* `MC*` - one module and one configuration per run.

### Abstractions

* Addresses are word addresses and line addresses are line numbers: what
  `ToWordAddr` and a division by 128 make of a byte address.  Line number 0
  therefore is the code's address 0, the mark of an empty cell.
* In `Cpu`, what an instruction word decodes to and what its operands are is left
  open: `Execute` picks any load of `LoadAddrs`, any store of `StoreWords` to
  `StoreAddrs`, an instruction that touches no memory, a jump to any of
  `CodeAddrs`, or a message.  Every program whose addresses lie in these sets
  is among the behaviours.  So the word fetched does not constrain what is
  executed; that it is the right word is the separate property
  `FetchedWordIsProgram`.  Register values are not kept there.
* `Simulator` closes that: `decoding` maps each word of the program to an
  instruction, is chosen at the start and never changes.  So all programs over a
  set of instructions are checked, and proved about, at once.  That `Decode`
  yields the right instruction for a word is the subject of `Instructions`.
* A program that leaves its address sets, or jumps between two words, stops in
  `Astray`: the code indexes memory without any check.
* `Isa` has no cycles, so the cycle counter reads as any word there.  An upper
  half of an integer without a lower half before it prints anything: what the
  simulator prints then depends on earlier messages.
* `Loader` works on bytes; a file is what the loader looks at (class, header
  sizes, program headers, contents).  The 32 and 64 bit versions are one
  template in the code and one set of actions here.
* `PoolAllocator` numbers the chunks; a pointer is a chunk or `Null`.  What the
  client keeps in an object is the first word of its chunk, the only one the
  allocator writes too.
* The counters are modulo `CounterMod` (2^32 in the code; 1 where no property
  is about them, so that they do not multiply states).

## Premises

**Programs.**  `ProgramPlacement` (in `CpuInvariant`): no line holds both
instructions and words that are stored to, and nothing lives in line 0.  The
assembly tests are linked that way (`src/programs/assembly/link.ld` starts at 0x200 and aligns
`.data` to a page).  The benchmarks' script
(`src/programs/smallbenchmarks/common/test.ld:25-32`) does not align `.data`;
the shipped binaries happen to keep stored lines apart.  The runs `line_zero`
and `shared_line` show what happens without the premise.

**Instructions.**  Branches with `funct3` 2 or 3 are excluded: the executor has
no case for them and uses an uninitialised result.

**Files** (`IsFile` in `Loader`).  A file is not cut off inside its own ELF
header, `p_paddr + p_memsz` lies inside memory, and no sum of header fields
wraps around.  The code checks none of these and would read or write out of
bounds.

## Runs

All with two or three blocks per row where replacement matters, because the
pseudo-LRU bits are trivial with one block, and with more lines than blocks, so
that every kind of eviction and refill happens.  One more line than blocks is
enough: the helpers compare addresses for equality only, and a row forgets a
line as soon as it is evicted.

| Run | Instance | Question |
|---|---|---|
| `data_port` | 2 blocks, 3 data lines, 2 code lines | Is the data port a word memory? Placement, clean copies, request registers, surcharge, usage bits, empty cells first, types. |
| `code_port` | 3 blocks, 4 code lines, jumps anywhere, 1 data line | Is every decoded word the program's, does fetching keep memory, do usage bits stay unsaturated, is no message lost? |
| `lines` | 2-word lines, 2 rows per cache, a load from the program text | Offsets and indices; the inductive invariant on a second geometry. |
| `progress` | 2 blocks, latencies 2/3/4/+2, 3 code and 3 data lines | Does the loop keep completing instructions? |
| `cycles` | 1 block, the code's latencies 1/3/152/+120, first instructions | Are waits neither started again nor counted twice (`CycleBounds`), and are they all counted (`WaitsCounted`)? |
| `machine` | words of 6 bits, 240 programs of 5 instructions, 2 blocks, 3 data lines | Does the whole simulator do what `Isa` does? |
| `instructions` | words of 30 bits, 2 addresses, every supported instruction | From its encoding to the registers, does each do what it says, and is the next fetch told the right address?  The inductive invariant `StagesOK`. |
| `loader` | 4 bytes of memory, files of up to 3 program headers | What does memory hold at each moment, and which program is simulated? |
| `pool` | 2 blocks of 2 chunks | Is the free list an object pool, whatever the owners write: nothing held is handed out or written, nothing free is lost? |
| `line_zero` | code in line 0 | expected violation: an uncached line 0 is a hit. |
| `self_jump` | a jump to itself | expected violation: a cached line takes the miss path. |
| `shared_line` | code and data in one line | expected violation: a stored word is lost. |

Latencies are 1 in most runs: what a wait can disturb is decided by which
actions happen before it ends, and while the countdown runs only `ClockStall`,
`FetchWait` and `Tick` happen.  `progress` and `cycles` use different
latencies, because progress and cycle counts depend on them.  `cycles` bounds
the number of instructions (`MaxInstr`, a state constraint), which is enough to
evict a dirty line from the single block.  `WaitsCounted` takes the lines in the
caches as witnesses of the misses there have been: lines only get there through
a response that had to wait for them.

`machine` takes each of the first four instructions from a set for its place -
arithmetic, loads and stores of three words that compete for two blocks, a
branch, a jump and a return, messages, both counters - and the fifth jumps back.
Register 1 runs through all words, so every type of message is sent.  With six
bits a message has three bits of type and three of data; types 4 to 7 are the
unknown ones.

`instructions` uses 30 bits because TLC's integers have 32 with sign and sums
must not overflow; of `lui`'s value the two upper bits are lost, nothing else.
Immediates are at the edges of their formats and mixed bit patterns, operands
0, 1, 33 (a shift amount that has to be cut), and the words around the sign bit;
one of the two addresses is the last word, where the next address wraps.  The
theorems of `InstructionProofs` hold for all of these and for 32 bits.

`ComputesWhatItSays` is about the registers, `TellsOthersWhatItSays` about what
leaves the processor: address and word of a memory access, number and word of a
csr write, and the address of the next fetch.  There the code and the
instruction set differ in one point.  The set clears bit 0 of the sum a `jalr`
jumps to (`GoesTo`), `Executor.h:64` does not; `OddJump` marks the case, which
odd immediates and operands in the run reach, and the property says what the
code makes of it: an address one too high.  The word fetched is the same, since
memory is addressed by words, but `auipc` and the links of later jumps are off.
No file of the repository says otherwise: its test (`jalr.S`) jumps to aligned
targets only.  Where the target is not a word address at all the set demands an
exception, which the simulator does not have; `Simulator` and `Isa` leave such
programs out (`Astray`).

`loader` has overlapping segments, headers of other types, empty file parts,
headers that claim more than the file or than their memory has, tables beyond
the end, and files that do not open, cannot be read or are no ELF files.

Bounds, all constants of the configurations: `BlockCount`, `CodeSets`,
`DataSets`, `LineWords`, `MemLines` (geometry), the sets of addresses and words,
`CounterMod`, `MaxInstr`, `WordBits`, `Files` and `MemBytes`, `MaxBlocks` (what
`malloc` can provide; two blocks make the list grow while chunks of the first
are held and given back in any order).  No set is symmetric: addresses are numbers.

Deadlock is checked in every run but `loader` and `instructions`, where loading
and the life of one instruction end.  After an exit message `Cpu` and
`Simulator` stutter in `Exited`.

### Fairness

`InstructionsComplete` is checked under `FairSpec`: weak fairness of `Next` as a
whole, nothing more.  The loop of `main` is `while (true)` without a blocking
call, so some step is always taken; which one is determined by the state, except
for the choice of instruction, about which no fairness is assumed.

### What the violations show

* `line_zero` - `checkAddress` finds line 0 in any row with an empty cell, so
  the code returns zeros without ever reading memory.  The unit test
  `lineNotInCache` promises a miss for any address below 1024.  The linked
  programs start at 0x200 and never fetch from line 0.
* `self_jump` - the unit test `lineInCache`
  (`cache_code_request_tests.cpp:29-40`) says that a request for a line in the
  cache is no miss.  `Request(ip)` drops the repetition before it looks the line
  up, which is intended (`waitRequest`, lines 20-27, asserts that a request for
  the same ip changes nothing) and right as long as the repeated request is for
  the instruction that waits.  After a jump to itself the line is in the cache
  and the flag still says miss: the response fills again, in another block, with
  no wait.  All shipped programs end in such a loop.  Harmless for the values
  (`FetchedWordIsProgram` holds with self-jumps), not for the row: code lines
  may have several copies, which is why `DataPlaced` is about data only, and
  `WaitsCounted` counts lines, not cells.
* `shared_line` - a code cell filled before a store reached memory is written
  back when it is replaced and undoes that store.

## Proofs

For every geometry, every latency and every program (constrained only by the
`ASSUME`s in the modules proved about, which TLC evaluates on every run):

| Theorem | States | Needs |
|---|---|---|
| `TypeCorrect` | `[]TypeOK` | - |
| `MessagesReachHost` | `[]NoMessageLost` | - |
| `Invariance` | `[]IInv` | `ProgramPlacement` |
| `FetchDeliversProgram` | `[]FetchedWordIsProgram` | `ProgramPlacement` |
| `CleanCopies` | `[]CleanCopiesMatchMemory` | `ProgramPlacement` |
| `OneCopyOfEachLine` | `[]DataPlaced` | `ProgramPlacement` |
| `UnstoredMemoryKept` | `[]OnlyStoredLinesChange` | `ProgramPlacement` |
| `RegistersNotStale` | `[]RequestStillValid` | `ProgramPlacement` |
| `FetchReadsOwnRequest` | `[]FetchUsesOwnRequest` | `ProgramPlacement` |
| `FetchesKeepMemory` | `FetchKeepsMemory` | `ProgramPlacement` |
| `DataPortRefinesWordMemory` | `DataPortImplementsWordMemory` | `ProgramPlacement` |
| `UsageNeverSaturates` | `[]SomeBlockUnused` | - |
| `EmptyCellsFirst` | `EmptyBlocksFirst` | `ProgramPlacement` |
| `SurchargeIsForWriteBack` | `[]SurchargeOnlyForWriteBack` | `DataLatency <= FailLatency` |
| `CyclesBounded` | `[]CycleBounds` | `CodeLatency <= FailLatency`, `DataLatency <= FailLatency`, counters not wrapping |
| `WaitsAreCounted` | `[]WaitsCounted` | `ProgramPlacement`, counters not wrapping |
| `SimulatorRefinesIsa` | `SimulatorImplementsIsa` | `ProgramPlacement` |
| `SimulatorTypes` | `[]SimTypeOK` | `ProgramPlacement` |
| `DecodeInvertsEncode` | `Decode(Encode(m)) = Meant(m)` for every supported instruction `m` | - |
| `StagesFollow` | `[]StagesOK` | - |
| `InstructionTypes` | `[]TypeOK` of `Instructions` | - |
| `InstructionsCompute` | `[]ComputesWhatItSays` | - |
| `InstructionsTell` | `[]TellsOthersWhatItSays` | - |
| `PoolTypes` | `[]TypeOK` of the allocator | - |
| `PoolRefinesObjects` | `PoolImplementsObjects` | - |
| `PoolGrowsOnlyWhenFull` | `GrowsOnlyWhenFull` | - |
| `LoaderTypes` | `[]TypeOK` of the loader | - |
| `MemoryIsThePrefix` | `[]MemoryHoldsPrefix` | - |
| `ImageIsDetermined` | `[]ImageOnStart` | - |

**Types.**  `TypeOK` is inductive together with `PipelineTypeOK`: the stages
that use an instruction really hold one, and only loads and stores are
addressed.

**Coherence.**  The properties refer to each other, so none is inductive alone.
That a code fill keeps memory needs code cells to equal the program's lines;
that needs memory to hold those lines unchanged; that needs every data
write-back to go to a stored line, hence dirty cells to hold stored lines; that
a data fill takes the right decision needs the request registers to be those of
its own access, and that a fetch does needs the same of the code registers.
`IInv` collects these:

* `CodeCellsOK` - every filled code cell is an unchanged program line, in its row;
* `DataCellsOK`, `NoTwoCopies` - every filled data cell is a data line, in its
  row, only once there, and equal to memory or else dirty and stored to;
* `PipelineOK` - a load or store continues at `ip + 1`;
* `RequestStillValid`, `FetchOK` - which access the registers describe, at each
  place of the loop.  The delicate case is a code request that will be dropped:
  the next `ip` equals the last requested one only after a jump to itself, and a
  jump leaves the registers alone; after a load or store, which overwrites them,
  the next `ip` is another one.  This is where `PipelineOK` is needed (lemma
  `WriteIInv`).

`CpuProofs` says what the row operators keep (`Touch` and `Install` change
usage bits only, except for the installed cell).  `CoherenceProofs` lifts that
to responses (`CodeFillEffect`, `CodeHitEffect`, `DataFillEffect`,
`DataHitEffect`), proves each part kept by each response, and has one lemma per
action of `Next`.

The run `lines` checks `IInv` with TLC.

**Refinement.**  `DataView(a)` is the word a load of `a` has to return: that of
the cached line, else that in memory.  Given `IInv`, a response changes the view
of no address except the one a store writes: a hit changes one word of the only
copy; a fill takes the line from memory, where the view found it before, and
what it evicts is either equal to memory or written to it, so that the view
moves from the cell to memory unchanged.  Each action then maps to `Issue`
(`Execute`), `CompleteLoad` or `CompleteStore` (`FirstResponse`, `ClockResume`),
`Retire` (`Write`) or a stutter.

**Replacement.**  The usage bits need no more than types: the block a response
uses is marked, and `ChangeLRUBit` resets all others before the last bit is set.
For `EmptyCellsFirst` the invariant is `UsedAreFilled`: empty cells are unused,
and as long as a row has an empty cell its filled cells are used, so the first
cell with the smallest bit is an empty one.  It needs `IInv`, because a hit that
did not find its line would mark block 0 whatever it holds.

**Surcharge.**  The invariant `SurchargeOwed` extends the property to the moment
between request and first response.  Nothing in between changes the row.  The
premise is needed because a wait longer than a miss is how the surcharge is
recognised; the code has 3 and 152.

**Cycles.**  `Left` is what remains of the cycles granted so far, `MaxCycles` for
each instruction retired and for the current one.  The invariant `CyclesCovered`
says what `Left` still has to pay for at each place of the loop: the countdown
running, the data access that may follow a fetch, the cycle that comes next.
The delicate place is again the repeated code request: after a jump to itself it
is dropped and costs nothing, otherwise it starts a countdown, which only a
fresh budget covers.  That no more instructions are retired than cycles are
spent needs to know where in the loop a cycle has been counted already
(`InstructionsCovered`).  The premise `[]NotWrapping` confines the theorem to
the first 2^32 - 1 cycles, since the registers are 32 bits wide; afterwards the
program reads remainders, of which the property says nothing.

`WaitsPaid` is the account from the other side.  `Cost` is one cycle for each
instruction and `FailLatency` for each line held; `Counted` are the cycles of
turns of the loop that are over.  While a miss is under way, `Counted` and what
is left of the countdown pay for one line more, so that the line is paid for
when the response installs it.  A response adds at most its own line to those
held (`CodeLinesHeld`, `DataLinesHeld`), and none on the hit path.  A repeated
fetch that takes the miss path without a wait adds none either, because the line
of the instruction just executed is held: the first conjunct of `WaitsPaid`.

**The whole simulator.**  Every behaviour of `Simulator` is one of `Cpu`
(`SimIsCpu`), so `IInv` holds and the lemmas of the data port can be used again.
An instruction is taken to happen when it reaches the write-back stage
(`Committed`), because that is when a store changes `DataView`.  From then until
the next turn of the loop the mapping says what the stage and `main` are about
to do: the register as `SimWrite` will write it, the next ip, one more
instruction counted, and the console as `main`'s answer will leave it
(`ConsoleAfter(Pending)`).  `SimWrite` and `SimTick` then leave the abstract
machine as it is (`WriteStays`, `TickStays`).

The invariant `SimInv` says what makes the step right: the object that waits, or
is about to get its first response, is what the program has at `ip`, executed on
the registers and the instruction counter *as they still are*, for some value of
the cycle counter (`Current`); and a lower half not yet followed by an upper one
is all that `print_int` holds.  The first part is why an instruction that waits
272 cycles has not read stale operands; it needs `FetchedWordIsProgram` from
`IInv`.  `NoMessageLost` is needed because the message of the previous
instruction must have been answered when the next takes effect.

The executor of the machine is proved to be that of the simulator by comparing
definitions (`SameExecute`), so the theorem is about *when* things happen and
with which operands; what each instruction computes is `Instructions`' subject.

`SimTypeOK` needs that the executor makes an instruction object of an
instruction object (`ExecuteType`) and that or-ing two halves of a word gives a
half (`BitOrRange`).  Both are about the bits of words, and are taken from
`ExecutorProofs` through an instance.  The width of a word is assumed to be even
(`SimulatorAssumption`), because a message consists of two halves.

**Words.**  `TwoTo` and `FromBits` are recursive functions, and all that is said
about the bits of a word needs induction.  The library's induction theorems take
a predicate, which no prover here can instantiate; `SetInduction` puts a *set*
in its place and follows from the least element of its complement.  With it
`RecursionExists` shows that a recursion over the naturals has a solution, so
that `TwoTo` and `FromBits` obey the equations that define them
(`TwoToRecursion`, `FromBitsSums`).  The rest of `ExecutorProofs` is arithmetic:
the bits of a number put together from bits (`BitOfFromBits`), a word from its
bits (`FromBitsOfNumber`), two words with the same bits are equal
(`SameBitsSameWord`).  The bits of a sum and of a product with a power of two
follow (`FromBitsAdd`, `BitOfMultiple`).

**Instructions.**  The code takes fields out of a word, puts immediates
together from them and adds constants to sign them; `Assembly` says where a
format puts each piece of an immediate.  `IFields` to `RFields` say for each
format what `Decoder`'s fields are; `SignExtends` that adding the constant of
`SignExtend` gives a signed number modulo the word; `SImmediate`, `BImmediate`
and `JImmediate` that the pieces, in the order the decoder reads them, are the
immediate.  With one lemma per group of opcodes this gives
`DecodeInvertsEncode`: no combination of immediate and registers is decoded to
anything but what was written.  It also says that an immediate cannot leak into
the operation, nor a register number into an immediate.

The executor's shifts are products and quotients; `BitOfShiftLeft`,
`BitOfShiftRight` and `BitOfShiftArithmetic` say which bits they move where.
`ComputeMeets` and `BranchingMeets` then show for every operation that its
result is the one `Assembly` describes.

`StagesOK` is inductive, together with the range of `pc` (`StageInv`).  It says what the object is at each stage, for the
instruction as written: the object `Meant`, with its operands, executed, with the
loaded word.  It is what makes the properties of the last stage provable, as they
relate the registers written there to the instruction that was encoded
four stages earlier; the operands must still be those of `before`, and a field set
in `Decode` must have survived every stage after it.  The premise that x0 holds
zero at the start is an initial condition of the model (`Contents` are only used
for the other registers), as in `RegisterFile.h:10-13`.

**Allocator.**  The invariant gives the free list as an injective sequence: it
starts at `alloc`, each chunk's `next` is the one after it, the last is `Null`,
and it lists exactly the provided chunks that are not live; and no chunk is held
twice (`holders` is 0 or 1).  The second follows from the first, since a chunk
that is handed out is the head of the list, hence not live.  Links of live
chunks are not mentioned, so whatever an owner writes keeps it (`OtherLinks`).
Taking the first, putting one in front and chaining a block each change the
sequence as expected.

**Loader.**  The invariant is `MemoryHoldsPrefix` together with what is known of
the headers passed: none of them was `Broken`.  One more header adds its own
segment over the earlier ones (`OneMoreHeader`).

**Only model-checked**: `InstructionsComplete`, which is liveness under fairness.
Every other property of a passing run is a theorem.  The three properties of the
violation runs are false.

**Assumptions on the constants** of the instruction set: `WordBits >= 22`
(`DecoderAssumption`, the longest immediate has to fit with its sign), and that
the programs are encodable instructions: known operations, register numbers up
to 31, immediates in the range of their format (`IsInstruction`).

## Not modelled

* The port of `UncachedMem` (`Memory.h:176-214`): the processor is built on
  `CachedMem` and nothing calls it.  Line reads and writes are part of `mem`.
* Byte addresses: word and line numbers are used throughout, except in `Loader`
  and `Executor`.  `checkAddress` computes the index with a signed remainder;
  the addresses for which that differs lie far outside memory.
* Formatting of what is printed, and the command line: no state.
* The unit tests in `src/google_tests`: read for what they promise; where the
  code does otherwise there is a run that shows it.  The programs under
  `src/programs` are the simulator's input.
* The googletest library vendored under `src/google_tests/lib`, by far the most of
  the repository's lines, and the CMake build trees: third party and generated,
  no part of the simulator.  The simulator itself is `src/src`, about 1500
  lines.

## Plan

Done: caches, processor and loop with their proofs; the instruction set, checked
and proved; the whole machine against `Isa`, checked and proved; the cycle bounds; the loader;
the allocator.

Left, in the order of what they would add:

1. One theorem that joins the two results: that the decodings `Simulator` starts
   with can be those of the decoder, so that `Isa` runs the program as written.
2. The port of `UncachedMem` as a second implementation of `WordMemory`, once
   something uses it.
3. Byte addresses at a small width, with the signed remainder of `checkAddress`.
