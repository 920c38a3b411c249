# A verification project for verytb

verytb is a small C++ toolbox for writing test benches around Verilog
(`verytb/`: fixed-width integers, a module tree, pooled pointers, bit tricks) with
one complete simulation built on the same ideas (`sim/picorv32-main/`: the picorv32
CPU behind its AXI4-Lite adapter, compiled by Verilator, and a memory written in
C++). This directory has TLA+ modules translated from that source, the TLC
configurations that check them on small instances, and TLAPS proofs.

Paths below are relative to the repository; `picorv32.v`, `main.cpp` are those of
`sim/picorv32-main/`. `PROJECT.json` gives, for every definition, the lines it models.

## 1. Inventory

| Component | State | Operations | Talks to |
|---|---|---|---|
| `AxiMemory` (main.cpp) | five `deque`s, `memory_space`, `simulation_passed` | `HandleInput_`, `Exec_`, `HandleOutput` | five shared `optional`s, `cout` |
| `Vpicorv32Wrap` (main.cpp) | the optionals, the device's ports | constructor (reset), `Pre`, `Post` | `AxiMemory`, `picorv32_axi` |
| `IrqDriver`, `main` (main.cpp) | `counter`, `irq`; the loop | `Main`; irq, input and exec, pre, output, post | all of the above |
| `picorv32_axi_adapter` | three acknowledge bits, `xfer_done` | one clock edge | core's native port, AXI ports |
| `picorv32` core | pc, registers, decoder, memory FSM, CPU FSM, irq | one clock edge | adapter, `pcpi_mul`, `pcpi_div` |
| `pcpi_mul`, `pcpi_div` | shift registers and counters | one clock edge | the core |
| `MemoryPool` (pod_pointer_like) | `pools_`: a block size, arrays, a free list for each size class | `Malloc`, `Free`, lazy growth | `pointer_like` |
| `pointer_like<T>` | `storage_` of each variable | construct, destroy, two moves | `MemoryPool`, heap |
| `bit.h` | none | `popcount`, `digits`, `has_single_bit` | `SizeToIndex` |
| `Module<T>`, `ModuleBase` | names, parents, children, indices, build stack, module list | declare, name, construct, end construction, destroy | constructors of user modules |
| `vint` | the words `v[]` | assignment, arithmetic, bitwise, bits, reductions | `vint_detail`, GMP |
| `ParseStringAsU64` | none | string to words | GMP |
| `venum` | a static map | value to name | - |
| `namedtuple`, dtype traits, `operation/*` | none at run time | macros and traits | - |

**How they interact.** The simulation is one thread. `main` calls, in each
iteration, `IrqDriver::Main`, `AxiMemory::HandleInputAndExec`, `Vpicorv32Wrap::Pre`,
`AxiMemory::HandleOutput` and `Vpicorv32Wrap::Post`, and the last one evaluates one
clock edge of the Verilog. `AxiMemory` and the wrapper share five `optional`s, one
per AXI channel, and nothing else: a full optional is a beat that waits. The
device's ports are a second kind of shared state, which *keeps its value* between two
calls. There is no lock and no message loss; what is hard is order:

- valid and payload of a channel are sampled at different times (before and after the
  clock edge), and a response stays on a port after the optional that held it is
  reset;
- write address and write data travel on separate channels and may run ahead of each
  other by as much as the queues hold;
- a full response queue must hold up its own direction and not the other;
- the adapter's acknowledge bits must be cleared between two transfers, even when
  `mem_valid` never falls (the second word of a compressed fetch);
- the reset clears only one of the adapter's four registers, and five edges are clocked before it
  (main.cpp:85-86), in which everything runs from zeroed registers;
- accesses beyond `memory_space` are undefined behaviour.

Inside the core several state machines run on the same edge:

- the next instruction is prefetched while one executes, into the registers of the decoder
  that the one executing still uses; a 32-bit instruction may span two words, half of it kept in
  a buffer from the last fetch, and jumps and interrupts throw any of this away;
- an interrupt is entered over three edges, in which registers are written and
  further interrupts arrive;
- a co-processor may wait, not answer (a timeout, then an interrupt or a trap), or
  answer in the cycle in which the core gives up.

Outside the simulation: the memory pool (blocks lost, shared or duplicated by moves and
throwing constructors), the module tree (user constructors run in the middle of the
tree's own bookkeeping, may throw out of it, and its raw pointers outlive what they
point to) and arithmetic at word boundaries.

**What makes each correct.** `AxiMemory`: a memory that serves each request once, in
order, with reads after every write already acknowledged. Wrapper and adapter: each
native transfer is exactly one AXI transfer and gets its own answer, in bounded time.
Core: the instructions launched are those of the program, in its order;
no interrupt is lost; it never stops by itself. Co-processors: the results RISC-V
defines, after a fixed number of edges, for the instruction that is asked. Pool and pointers: a variable behaves as if it had a `T` of its own; every block is
free, in use or lost, and only one of these. Tree: siblings that share a base name are told apart, nothing stays
unconstructed, a module becomes a child only of the one under construction, and a
program that keeps a few rules meets no module that is gone. `vint`: integers modulo
2^num_bit. The bit tricks and size classes: their mathematical definitions. `venum`:
the string tells the value.

## 2. Modules

| Module | Models | How it corresponds |
|---|---|---|
| `AxiTypes` | `ar_s`, `aw_s`, `w_s`, `r_s`, `b_s` | words as functions from lanes to bytes |
| `AxiMemory` | `AxiMemory`, `OptionalToQueue`, `QueueToOptional` | an `optional` is a sequence of length at most one; one operator per member function |
| `AxiLoop` | the loop of `main` around `AxiMemory` | the CPU replaced by *any* AXI master: several reads and writes in flight, address and data apart, slow to take answers. Histories record what was sent, executed and received |
| `AxiSlave` | abstract | an AXI memory: requests in, one memory, answers out |
| `CorePort` | abstract | the core's native port: what the adapter may rely on, a request that stays until it is answered, the second word of a fetch without `mem_valid` falling, an address that may be there an edge before its request |
| `PicoAxi` | `picorv32_axi_adapter` | the adapter edge by edge; the core as any `CorePort` |
| `PicoMem` | the memory FSM of `picorv32` | `mem_state`, prefetch, alignment of compressed code, `mem_16bit_buffer`; words are named by the halfword they hold |
| `Coprocessor` | the port of `pcpi_mul` and `pcpi_div` | `wait`, `busy` and `ready`; when a unit is done is open |
| `PcpiPort` | the instructions of the two units | and what RISC-V says they compute |
| `PcpiMul`, `PcpiDiv` | `pcpi_mul`, `pcpi_div` | the registers of a unit are a record; an operator for the next value of each |
| `Pcpi` | both units on the interface, and `cpu_state_ld_rs1`'s side of it | every action is a clock edge: power-up, reset, rest, ask, hold, take, give up |
| `PicoCore` | the rest of `picorv32` | one action per case of `cpu_state` (`cpu_state_fetch` and `cpu_state_ld_rs1` are several), each a whole clock edge with decoder, co-processors, interrupts and memory FSM. Firmware says which halfwords start 32-bit instructions and which kinds occur; what data decides (branches, targets, amounts, alignment) is open |
| `PicoTestbench` | the whole of `main.cpp` with that device | composes `AxiMemory` and `PicoAxi`; one action per call, thirteen boot edges with the reset in the middle |
| `NativeMemory` | abstract | the memory as the core sees it: one request, acted on at one instant, one answer |
| `PoolBlocks`, `MemoryPool` | `IndexToBlockInfo`; `MemoryPool` | a block is `<<pool, array, place>>`; operators on `pools_` |
| `PointerLike` | the pool and heap storages of `pointer_like` | variables of fixed type; the program is any sequence of operations |
| `Box` | abstract | each variable has a value of its own |
| `Bits`, `PoolIndex` | `bit.h`, `BitMaskToByteMask`, `SizeToIndex` | operators, step by step as in the code |
| `Venum` | `ConstructValueToNameMap`, `GetEnumStringRepresentation` | operators on the lists of values and names |
| `UtilReference` | reference definitions for these | one state for each number, and one for each list of enumerators, tried |
| `ModuleTree` | `ModuleBase`, `Module<T>` | `calls` is the C++ stack: user code runs inside `NamedConstruct` and inside the loop of `EndInitModule`; see below |
| `Vint` | `vint` and `vint_detail.h` | words, carries and masks as in the code; the type is chosen in `Init` |
| `Binary` | the `&`, `\|` and `^` of C++ | bit by bit, on numbers of any length; recursion is in functions, so that one can prove about it |
| `Residue` | abstract | integers modulo 2^num_bit |
| `ParseString` | `ParseStringAsU64`, and the `assign` of a string to a `vint` | extends `Vint` by its call and the array; GMP by its documentation; `ptr[1..num_u64]` is the caller's, what follows is not |
| `AxiLoop_proofs`, `PicoTestbench_proofs`, `PicoCore_proofs`, `Pcpi_proofs`, `PointerLike_proofs`, `ModuleTree_proofs`, `Vint_proofs`, `Numbers_proofs` | | theorems, section 5; the last has the lemmas on numbers and bits the others share |
| `MC...` | | instances for TLC |

**`ModuleTree`** lets user code do what C++ lets it do. A module is declared, named,
constructed (again, too) and destroyed by main or by the constructor of any `T`; one of `Members` is a
member of the `T` whose constructor declares it, lives in that `T`'s storage and ends with
it. A constructor may throw: its members are destroyed, the exception leaves every `NamedConstruct` and
loop of `EndInitModule` down to the next user code, and `build_stack_`
is not popped (Module.h:96-100). `~Module` calls `~T` whatever is in the storage and removes no
pointer (Module.h:109-112). Touching a module that is gone (`TouchGone`), or destroying a `T` that was
not constructed, is undefined: `faults` records it and nothing follows, which is why deadlock is not checked
there. The loop of `EndInitModule` calls `DefaultConstructIfPossible` of a child at most once and then counts
the child whatever came of it (Module.cpp:63-68); `returned` says that the call has been made. Names are
strings: `WithIndex` puts an index in brackets after one (Module.cpp:105-113), so that a base name may be what
another name and an index make. `complained` is a call of `SPDLOG_CRITICAL`, `broken` the rules the program has broken, and
the properties say what holds up to these: what *every* program gets (`StackIsCalls`: the calls under way are on the stack in their order, and with them
one leftover for each call an exception ended), what one
whose constructors do not throw gets (`NoLateAdoption`, `AllConstructed` unless something was
reported), and which rules are enough to stay clear of undefined behaviour (`RulesSuffice`).
Memory in which a module stood alone is not used for another one; `module_list_`, which
nothing reads, is left out.

**`Pcpi`** has registers of `W` bits for 32, and the counter of the multiplier counts to
`4 W` for 128, its upper half being negative as bit 6 says in the code. The operands and the result matter only
while `pcpi_valid` and `pcpi_ready` hold, and are 0 otherwise. At power-up the registers are zero, as Verilator leaves them, and
the testbench clocks `OnEdges` edges with `resetn` high before it resets the core (`PowerUp`; main.cpp:85-86). The core asks nothing in
them, but a multiplier whose `mul_waiting` is zero is at work: its counter runs out, and it answers, unasked, at the third edge.
`age` counts these edges until the reset.

Definitions named `Bug...` are wrong on purpose. Each stands just before the definition
it is a slip of; putting it in that definition's place makes a run fail
(`mutants` in `PROJECT.json`), so that every property is known to notice something.

## 3. Runs

| Run | Asks | Bounds |
|---|---|---|
| `AxiLoop` | are effects and reads those of the requests replayed in order, is the exit last, does the loop implement `AxiSlave`? | 1 read and 2 writes over a word, the console, the exit and a stray address |
| `AxiStreams` | are both streams kept, are reads ordered after acknowledged writes, is everything answered? | 3 reads, 3 writes, queues of length 1 (which show no reordering inside a queue: `StreamsPreserved` is for every bound) |
| `PicoTestbench` | one beat for each transfer, the right answer, bounded wait, irq schedule, does the bench implement `NativeMemory`? | a word, a stray word and the exit; `IrqPeriod` 2, `IrqWrap` 4 |
| `PicoCore` | are instructions launched in program order and kept until executed, are the assertions of the Verilog true, is no interrupt lost and each return address right, does it go on for ever, does it implement `CorePort`? | 2 words of code, one of them the handler, 1 external interrupt; `MaxTimeout` 15 as in the code |
| `Pointers` | are blocks accounted for and never shared, do the T's die with their variables, do variables behave as `Box`? | 3 pool and 2 heap variables, 1 throw, arrays of at most 2 blocks |
| `PoolMove` | the same owner property with move construction of a pool variable (violated) | same |
| `Pcpi` | is each product, quotient and remainder what RISC-V says, of the unit and for the instruction asked, on time, do the loops keep their relations (`SumsToProduct`, `LeavesRemainder`), do both units implement `Coprocessor`? | five edges before the reset, as in main.cpp; every instruction on every pair of 3-bit operands, in any sequence; carry chains of 2 bits |
| `UtilReference` | do the bit tricks, the size classes and the strings of enumerators agree with their definitions? | all numbers up to 4200 (every size up to the heap threshold) and patterns up to 31 bits; every assignment of 3 values to up to 5 enumerators |
| `ModuleTree` | names, completeness, the build stack, adoption, which rules suffice | 4 modules, two of them members and one renamed, the names "a", "b" and "a[0]", which is also the first with an index, one not default constructible; one constructor that throws or second construction |
| `Vint` | words against integers modulo 2^num_bit | 3 to 5 bits in words of 2, 3 and 4 bits, signed and unsigned: several words with and without unused bits, one word with and without |
| `ParseString` | is the array, and a `vint` assigned the string, the integer; what is left in them by a string that is no number; is nothing else written? | strings of at most 6 characters, base 2, an array of words of two bits; any vint of 1, 2 and 3 bits, so one word shorter than the array's, one as long, and two, with an unused bit |
| `ParseTruncated` | what the comment promises (violated) | 3 bits |

Why these bounds are enough. The code treats `ReqCap` and `RspCap` only through
`size() < max`, so 1 shows a queue empty, with room and full. With queues of one, three
transfers of a direction make its response optional, its response queue and
its request queue full at once and hold up the executor. (The stream and order
properties are also proved for every bound.) Data matters only by equality and by lane, for which
two lanes and two byte values do. The pool code distinguishes an array boundary, an empty
and a non-empty free list, and two size classes: the bounds meet each. Four modules
allow a grandchild with siblings and a tree inside a tree, two members of one `T` or
a member of a member; a throw and a second construction are each enough by themselves to reach
what they can break, and what follows from both is promised nothing. In three
bits there are the negative number without a positive counterpart, division by zero and overflow, signs that agree
and differ, and in chains of two bits carries from chain to chain and out of the top. Carries need one word to
come from, one to pass through and one to end in: three words. The counters of
`IrqDriver` are scaled by the ratio the code uses them at; `IrqWrap` a multiple of
`IrqPeriod` is what 65536 and 4096 are. Four halfwords hold every arrangement of compressed and 32-bit instructions (all 16 are in
`Plain`), aligned, across a word boundary and after a jump into either half; a jump may go to any of them. The other
instructions, which only meet the prefetch where it is, run in workloads of their own (`MCPicoCore`): loads, stores and shifts in three arrangements; interrupts taken in any cycle on an external line with
`maskirq`, `waitirq` and `retirq`; `waitirq` before an instruction that lies across two words; taken branches under interrupts; the timer; co-processors with their timeouts.
Shift amounts and timer values only count down to zero, for which 0 and 1, and 0, 1 and 2 do.
Iteration limits (1000000) are abstracted to a
loop that may stop at any iteration.

Deadlock is checked except in `ParseString` and its violation run, where a behaviour
ends with its one call, and in `ModuleTree`, where it may end with undefined behaviour. Programs that stop (`done`, `killed`) have an explicit stuttering step.

**Fairness.** `FairSpec` of `AxiLoop` has weak fairness of the four calls of the loop body: it is
one single-threaded loop, and a call that is next is made. Nothing is assumed about the
master in the specification: `BothAreAnswered` says what follows *if* the
master, infinitely often able to take an answer of that direction, takes it (`SF` in the
property), and that the other direction may be held up for ever without harm.
`FairSpec` of `PicoCore`: the clock runs, which is the loop of `main`; the reset comes and goes
(the constructor of the wrapper); a request that is made is answered, which is what `BoundedWait` of
`PicoTestbench` says of the memory behind the port; a unit that is busy answers, which is what
`AnswersOnTime` of `Pcpi` says of both units, and `ImplementsCoprocessor` that they are the units of `PicoCore`. Waiting for an interrupt and the trap are allowed to last.
`PicoTestbench` needs no fairness: its promptness is the safety property `BoundedWait`.

## 4. What the violation runs show

- `PoolMove`: the move constructor of the pool storage (pod_pointer_like.h:172)
  copies `storage_` and then swaps two equal pointers; both variables own the block,
  and both destructors free it. All other pool properties are checked for programs that do
  not move-construct pool variables.
- `ParseTruncated`: `ParseStringAsU64` (vint_detail.cpp:53-58) truncates into a variable and
  exports the other one, past the end of the array when the number is large enough.

Divergences without a run:

- The sign of a string is read from its first character (vint_detail.cpp:46) and the digits from what
  is left of it when separators are removed: " -5" becomes 5, although the comment at vint_detail.cpp:20
  and the test at vint_detail.test.cpp:16 keep the minus of "!@#-abc". `ArrayIsInteger` is for
  strings that begin with their sign or a digit.
- vint.h:58 says the unused bits of a signed `vint` are sign
  extended, but `ClearUnusedBits` zeroes them and the tests expect that; `TypeOK` of
  `Vint`, a part of `ObserversAgree`, states the code's invariant.
- main.cpp:272 calls `memory_space.resize(1<<16)` "1MB"; words have four bytes,
  so that it is 256 KB (`InRange` of `AxiMemory`).
- `SetBitFromPosition` (vint.h:74-83) sets whole words where its name speaks of bits; nothing calls it, and
  `Vint` has it as it is.
- The constants at the end of vint.h have `vTRUE` zero and `vFALSE` one; nothing uses them.

Seen while modelling, and contradicted by nothing in the repository:

- After a throw out of a child's constructor that the parent's catches, the thrower's entry stays on top of `build_stack_`
  (Module.h:96-100). The parent's `EndInitModule` takes it for its own: it marks the thrower as initialized, goes through its children, gives
  these their indices and pops it (Module.cpp:57-79). A loop that had called the parent's `DefaultConstructIfPossible` counts
  the parent all the same, though nothing has marked it. `StackIsCalls` is exact for programs without throws and says
  for the others what is still true of the stack; `AllConstructed` and `SiblingNames` are for those without.
- Indices are given to siblings with the same base name, and only base names are compared. A child that user code names "a[0]", beside two
  called "a", has the name of the first of these, and `HierarchicalName` tells the two apart no more; nothing is
  reported. `SiblingNames` says that this is the only way to a clash.
- A string that is no number is not parsed, but if it starts with a minus sign, as "-" does, the words that were in the array are
  negated all the same (vint_detail.cpp:63-66); for a vint of one word these are the uninitialised `tmp` (vint.h:134).
  `OnlyTheArray` says what becomes of both kinds of strings.
- `&=` with one machine word clears nothing above that word: the operand `Residue` gets is the word
  extended by ones, which is what the code does; whether that is meant, nothing says, and no property does.
- The multiplier answers at the third edge before the reset, when nothing has been asked. The core is in no state to notice:
  `AnswersOnTime` has that one answer, and `Coprocessor` allows it.
- When an interrupt follows a taken branch, `latched_compr` may be that of the instruction prefetched and
  thrown away, so the low bit of q0 does not tell the size of the branch. It does for the instructions a handler
  must find, the refused and the misaligned ones, which is what `ReturnAddress` states.

## 5. Proofs

Everything below holds for every value of the constants that satisfies the named assumptions of
the module. In each case one inductive invariant, a conjunction of named parts, carries the
module's theorems: the properties say too little of a state to be kept by a step alone.

**`AxiLoop_proofs`**, on lemmas about what each member function of `AxiMemory` does to
channels and queues (`PicoTestbench_proofs` has what it needs of them, the types): every memory size, queue limit, firmware, byte and address set, payload and
number of requests.

| Theorem | Property | Argument |
|---|---|---|
| `TypeCorrect` | `TypeOK` | inductive as it stands |
| `StreamsPreserved` | `Streams` | inductive relative to `TypeOK`: each transfer moves a beat from the head of one sequence to the end of the next and leaves their concatenation alone |
| `ReadsSeeAckedWrites` | `ReadAfterAck` | strengthened by `OrderInv`, which relates what the master had been told when it sent a read still waiting to the writes executed so far |
| `ActsAsIfOneByOne` | `ActsAsReplay` | `ReplayInv`: a write done is the next of those sent (`Streams`), so the replay of the writes done does not change with what is sent later (`ReplayStays`); by induction over the writes there is one replay (`ReplayExists`, `ReplaysAgree`), and each `Input` goes on with it, the read before the write |
| `ExitEndsTheRun` | `ExitIsLast` | the loop condition is read before every execution, so that no write follows the one to the exit |
| `Refinement` | `ImplementsSlave` | each call maps to one action of `AxiSlave` (`Input` to serving a read, a write, both or none, `Pre` to taking answers, `Post` to new requests) or to a stutter (`Output` moves answers along `r \o r_q`, which the mapping does not see) |

**`PicoTestbench_proofs`**: every memory, period and wrap of the interrupt driver. `BenchInv` is `TypeOK`
with `Handshake` (which of the adapter's acknowledge bits can be up, given what the core asks) and
`Beat` (where the one beat of a transfer is, as a function of those bits and of the call `main` is at);
`IrqInv` and `BootInv` add the counters.

| Theorem | Property | Argument |
|---|---|---|
| `TransfersDoNotMix` | `OneBeatPerTransfer` | part of `Beat`: all five channels and queues hold one beat between them, of the transfer in progress |
| `AnsweredInTime` | `BoundedWait` | the place of the beat bounds the edges left |
| `InterruptsOnTime` | `IrqOnSchedule` | `IrqInv`: the line is a function of the two counters, and wrapping keeps their phase |
| `OneMemory` | `ImplementsNative` | the memory acts in the `Input` that serves the beat; every other call is an `Ask`, a `Take` or a stutter |

**`PointerLike_proofs`**: every number of variables, pools and blocks in an array (`PointerLikeAssumption`:
an array has a block, and no value is one of the two marks for no value). `PointerInv` says that the free lists
hold each free block once (`PoolsSound`), that a variable's storage is a block in use (`StorageSound`), that no block has two
owners (`OneOwner`), what is in it (`ContentSound`), and that a block in use has a variable (`UseSound`).

| Theorem | Property | Argument |
|---|---|---|
| `ObjectsAreOwned` | `ObjectsMatchOwners` | a T lives in exactly the blocks that `ContentSound` gives to variables |
| `NoBlockAstray` | `EveryBlockAccounted` | free, or in use by one variable: `PoolsSound` and `UseSound` |
| `PoolsStaySmall` | `Footprint` | `PeakSound`: an array is added only when every block is in use |
| `BoxesOfTheirOwn` | `ImplementsBox` | with `OneOwner`, writing one variable's block changes no other's value |

**`ModuleTree_proofs`**: every finite set of modules, names and members, and any way of writing an index after
a name from which both can be read again (`ModuleTreeAssumption`). `ModuleTreeInv` has `StackInv`
(where on the build stack each of the `calls` is) for every program, and `OrderlyInv` for those whose constructors
do not throw: what is on the stack is a chain of parents, what is not constructed yet waits in a loop of
`EndInitModule` still running, and, as long as no rule is broken, no module that is gone can be reached.

| Theorem | Property | Argument |
|---|---|---|
| `StackInStep` | `StackIsCalls` | `StackInv`: a call begun goes on top, one that ends takes what is on top, which is its own entry or, after a throw, one above those of the other calls (`Places`) |
| `NothingLeftOut` | `AllConstructed` | when the stack is empty no loop is left for an unconstructed child to wait in |
| `KeepingRulesIsSafe` | `RulesSuffice` | `RulesInv` and `FaultsInv` are kept while `broken` is empty |
| `ChildrenInTime` | `NoLateAdoption` | who adopts is on the stack, hence before the end of its loop |
| `SiblingsToldApart` | `SiblingNames` | `NamesInv`, and counting: an index is the number of siblings of that base name before, so that these differ; two whole names that agree, of different base names, have one an index and the other none (`WithIndex` is injective) |

**`PicoCore_proofs`**: code of any size, any firmware (which halfwords start 32-bit instructions, which kinds
occur, which lines and masks), any answers of the memory and any timing, any bounds of shifts and timers, any `MaxTimeout` above two.
`CoreAssumption` has two facts of the build: `PROGADDR_RESET` and `PROGADDR_IRQ` are aligned to words, and no line from outside is one of the two interrupts the core raises itself (`IrqDriver` drives 4 and 5, main.cpp:224-226).
Most properties speak of one register and depend on many, so that they share one invariant, `AllInv`:

- `ControlInv`: what each state of the main state machine asks of the memory interface and what it holds
  (`RequestInv`, `TriggerInv`, `LaunchInv`, `BranchInv`, `EntryInv`), that the second step of the decoder follows the first
  (`DecoderInv`), and the states before and in reset (`PowerInv`).
- `MemoryInv`: the access under way is the one asked for (`AccessInv`), and what is fetched, buffered,
  prefetched or decoded is what lies at `reg_next_pc` (`FetchInv`, `BufferInv`, `PrefetchInv`, `DecodedInv`, `BegunInv`), except after
  a taken branch and on the way into the handler. This part is what makes the prefetch right: both state machines run on their own,
  and only these relations between them say that what one gets is what the other expects.
- `HistoryInv`: where the main state machine goes is where the program goes (`OrderInv`), to whom the write back
  belongs, what a handler finds (`SavedInv`), and when interrupts are held off (`IrqInv`).
- `PcpiInv`: a unit works only for the instruction that waits for it, and the counter has run down by at most two by then.

| Theorem | Property | Argument |
|---|---|---|
| `AssertionsHold` | `Asserts` | `RequestInv` and `AccessInv`: requests exclude each other and the access is the one asked for |
| `LaunchedInOrder` | `InProgramOrder` | at a launch what is decoded lies at `reg_next_pc` (`DecodedInv`), which is what follows in the program (`OrderInv`) |
| `InstructionIsKept` | `KeepsInstruction` | `DecoderInv` and `LaunchInv` while it is executed, `WriteInv` after it |
| `HandlerCanReturn` | `ReturnAddress` | `SavedInv`: a refused or misaligned instruction goes straight to the handler, so that q0 is of it and not of a later one |
| `AnswersInTime` | `UnitsAnswerInTime` | `UnitInv` and `TimeoutInv` |
| `InterruptsAreKept` | `NoIrqLost` | by cases on the edges that write `irq_pending`, and `IrqInv` for the entry |
| `ProgramGoesOn` | `ProgressBetweenIrqs` | `irq_delay` is up from the return until the next launch (`IrqInv`) |
| `CoreImplementsPort` | `ImplementsPort` | each edge is, seen from the port, one action of `CorePort` or a stutter; `PortInv` adds the write that has just begun |

The proof of `CoreImplementsPort` found `CorePort` too strict: when `waitirq` ends and the first half of the next instruction is prefetched
already, the address of the second word is set one edge before `mem_valid`. `Idle` allows it, the adapter and the
bench are checked and proved with that, and the run has firmware that does it (`Woken` in `MCPicoCore`).

**`Pcpi_proofs`**: words of any width above one, carry chains of any length that divides the registers, any sequence of instructions. `PcpiInv` says
that a unit with no instruction of its own rests (`MulRests`, `DivRests`), and gives the state of one with an
instruction as a function of its `age`, the edges since it was asked (`MulAt`, `DivAt`). For the divider that includes `Tried`: what is left of
the dividend and the quotient so far, when the bits down to a weight have been tried. Dividing by zero every bit is set, which is how the code
comes to RISC-V's all ones. For the multiplier it is `ProductInv`, on top of `WidthInv` (every register within its width):
after `s` steps `MulSum` has `rd + rdx + rs1 * rs2` congruent to the product modulo the width of the registers, `rs1` below two to the power
of the steps left, and `s` zeros at the end of `rs2` and `rdx`. The zeros are what the answer needs: they push the carries still kept apart out of the half that is read.
The accumulator keeps the sum only because a register of carries is `Sparse`: it has one bit at most in each chain, the lowest, so that
three digits and no more than one carry come together. `Sparse` is in `WidthInv` since it holds from power-up on, whatever the multiplier was at.

| Theorem | Property | Argument |
|---|---|---|
| `UnitsAnswerOnTime` | `AnswersOnTime` | `MulAt` and `DivAt`: the counter, past zero to its sign, and the moving bit of the quotient count the same edges for all operands; before the reset, `MulBoots` for any number of edges |
| `Divisions` | `QuotientsAreRight` | `Trial`: one bit more keeps `Divides`, hence `LeavesRemainder`; after the last bit `Tried` is what defines quotient and remainder (`AllTried`), and `SignedDivision` brings the signs back |
| `Products` | `ProductsAreRight` | `ThreeDigits` for a chain, by induction over the chains `KeepsSum`, hence `AccumulatorStep`: an edge keeps the sum modulo the width, and `CarriesShift`: it adds a zero at the end of the carries; after the last step `SumEnds` reads the product off |
| `UnitsAreCoprocessors` | `ImplementsCoprocessor` | `MulEdge` and `DivEdge` say what an edge does to what the core sees; the multiplier's `finish` and `waiting` go together, before the reset by `MulBoots` |

**`Vint_proofs`**: vints of any width and sign, words of any size above zero bits, any sequence of operations. `TypeOK` is inductive: a vint is
`num_word` words whose number `Val` is below 2^num_bit. Words and number are tied together twice. By sums, `Part` word by word, for what
carries and borrows do: `PlusIs` and `MinusIs` say that the words of a sum or difference count for it but for the last carry or borrow, times
the weight of all the words. By bits, `ValBits`: bit `i` of the number is bit `i % bit_per_word` of word `i \div bit_per_word`, so that what is done
to the bits of the words (`WordwiseIs`) is done to those of the number, and a number is known by its bits (`SameBits`).
`ClearMod` closes every operation: clearing the unused bits of words congruent to a result modulo the weight of all the words leaves that result modulo 2^num_bit,
because num_bit bits are never more than the words have.

| Theorem | Property | Argument |
|---|---|---|
| `Residues` | `ImplementsResidue` | one lemma per operation (`Is`: the words left and the number they make), then one step per action: each computes what `Residue` does with the recorded operand |
| `Observers` | `ObserversAgree` | `ToBool` and `ReduceAnd` compare words, which are those of 0 or of all ones; `ReduceXor` counts the ones of a single word, which by induction over the words have the parity of all (`XorParity`, and `TotalSplit` for the sum of the words' ones) |
| `StringIsInteger` | `ArrayIsInteger` | see below |
| `OnlyTheArrayWritten` | `OnlyTheArray` | `ParsesIs`: GMP takes what is left of a string exactly when the string is a number; `ParseWrites`: the words it exports after the array are those a number too large has. What is no number leaves the old words, negated by `TwosComplementIs` after a minus sign, and `AssignStringIs` takes them into the vint |

The last two are of `ParseSpec`, for any base, alphabet, string and vint (`ParseAssumption`: the words of the array are those of a vint of several words, and hold a vint of one).
Sanitizing, the conversion and the sum a string denotes are functions defined by recursion along the string. `PrefixesAre` reads off the first that each digit, and
nothing else, is added to the magnitude; `AbsValueDenoted` is then Horner's rule by induction: the digits so far, times the base to the number of digits left, are
the first terms of what the string denotes. An array is the number of a vint of several words (`ArrayIs`), so that `ExportIs` and
`TwosComplementIs` rest on `ValWords`, `Complement` and `PlusIs`, and `AssignStringIs` on `ClearMod`.
`ParseTypeOK`, which `ParseTypeCorrect` proves, has the type of the vint before and after.

**`Numbers_proofs`** has what these modules share. The name of a module is found along a chain of parents, the replay of the
writes is a function defined by recursion, the sum of a register is taken chain by chain, and the bits of a number are summed one by one: all of these need induction. The prover
cannot apply an induction theorem to an operator, so induction is used in the first-order form that `LeastNat`
proves from the well-foundedness of `<` on the naturals: a set of numbers that is not empty has a least element. `Induct`
is its contraposition, and the lemmas on chains, replays and cardinalities are about sets. The other lemmas are on quotients and
remainders, powers of two and congruence modulo them, and, for the operators of `Binary`, on sums and bits: functions defined by recursion exist
(`Recursion`), two numbers with the same bits are equal (`SameBits`), and the bits of `Bitwise` are those of its operands, combined (`BitwiseIs`).

Only model-checked:

- liveness (`BothAreAnswered`, `LaunchesForever` and the like), beyond this prover;
- `BitTricks` and `SizeClasses` of `UtilReference`: `Bits` and `PoolIndex` take `&`, `|`, `~` and shifts from the community modules,
  where they are recursive operators, which modules with theorems cannot reach; `StringTellsValue` is stated in the same module.

## 6. Plan

The runs and the theorems planned are there. What remains model-checked could be proved with other means: the bit tricks with
a prover that has induction over recursive definitions, and liveness with one for it.

The core and the bench are not composed into one state space: the bench runs with any `CorePort`,
`PicoCore` implements `CorePort` with interrupt lines that change at any edge (the schedule of `IrqDriver`
is one of these), and `Pcpi` stands for the units in the same way.

## 7. Not modelled, and why

- In picorv32: which bits make which instruction, arithmetic, the values of registers other
  than q0 (`setq` to q0 among them), the counters and the trace port: data path, of no
  consequence for the state machines.
- In the co-processors: `STEPS_AT_ONCE` other than 1 and `CARRY_CHAIN` 0, which the build does not use.
- `picorv32_wb`, `pcpi_fast_mul`, RVFI and formal blocks: not instantiated with the build's
  parameters.
- `namedtuple`, dtype traits, `vstruct`, `vunion`: no run-time behaviour.
- `operation/*`: included by nothing that is built (verilog/dtype.h:11-14 has it commented out), and
  it cannot be: it includes `verilog/dtype_base.h`, and packing and unpacking call `WriteSliceUnsafe`, `concat`
  and `Slice`, none of which exists.
- vint.h:411-715: compiled out.
- The undefined overflow of `uint16_t` products (vint.h:281) is taken as the
  builds compute it;
  the uninitialised `tmp` of `assign(s, base)` (vint.h:134) is some word of which nothing is said.
- `ReadBin`, VCD tracing and messages: input and output only; firmware is a constant.
- Threads: the repository has none, and `MemoryPool` takes no lock.
