# A TLA+ model of the triggered-instruction infrastructure

The repository holds a spatial architecture of *triggered instructions*: the
hardware (`hardware/src`, SystemVerilog), an assembler and a functional
simulator (`tools`), and the host's drivers (`drivers`).  A processing element
has no program counter.  Every cycle it looks at its predicates and at the
status and tags of its channels, and fires the highest-priority instruction
whose trigger holds.  Nine pipelines implement that one promise.

This directory models the promise, the pipelines, the channels and memories
between elements, the simulator's event loop, the way a program takes from its
source to the instruction memory, and the host's run over the bus.  It checks
them with TLC on small instances and proves with TLAPS, for every instance, all
of what is checked but liveness and the comparison of three given systems.  Paths
are relative to `src/`, and those of `.sv` files without a directory to
`src/hardware/src/`.

## 1. Inventory

| component | state | operations | interacts through |
|---|---|---|---|
| channel buffers (`interconnect/*_channel_buffer.sv`) | ring, head, tail, count at each end | enqueue, transfer over the link, dequeue, peek, look-ahead | `link_if` req/ack within a cycle; full, empty, count and packet seen by the core |
| control units (`control/`) | execute bit, `internal_enable`, `halted`, predicates, predictors, open prediction | trigger, override, predict, resolve, halt | everything in the core, combinationally |
| integer core (`core/integer_core.sv`) | registers, scratchpad, T\|DX1 and DX1\|X2 registers | one clock edge | control units, channel buffers, host |
| eight MICRO cores (`core/t*_core.sv`) | the same with zero to three pipeline registers | one clock edge | the same |
| datapath units (`datapath/`) | multiplier and scratchpad output registers | execute one instruction | core |
| instruction memory | program | read by index, write by host | core, host |
| simulator core (`tools/simulator/core.py`) | registers, predicates, halt | `iterate` | buffers |
| simulator system (`system.py`, `router.py`, `interconnect.py`, `memory.py`, `instances.py`) | per buffer: contents and what is staged; memory: pending read; the wiring | build, `iterate` of core, router and memory, `commit` of buffers, halt | buffers staged in a cycle, committed at its end |
| memory ports (`memory/`) | request state machine, RAM | read, write | channels; host accesses go first |
| elements, quartets, blocks, test systems | registered control, halt and quiescence signals | none of their own | wiring |
| host bus (`mmio/`) | AXI handshakes, FIFO of posted writes, read handshake | read, write, map, split | host, every element |
| system control registers and drivers (`drivers/userspace`) | reset, enable, execute, halted; where the program is | reset, program, load, begin, poll, retrieve, interrupt | host bus |
| assembler (`tools/assembly`) | none | parse, check, encode, write | produces the program |
| parameters (`tools/parameters`, `*.svh`) | none | read, validate, derive widths, on both sides | assembler, simulator, hardware |
| routers, switches, link buffers | at most one packet | pass on | the software router is wires; the rest is instantiated nowhere |
| performance counters, monitor | counters | count | core |

**What is hard.** Between clocked units the danger is *staleness*: the trigger
stage decides with the channel status and predicates of now about effects one
to three cycles later.  Every core has hardware to close that gap — status
updaters, tag look-ahead, forwarding, hazard and collision detectors, predicate
prediction with roll-back — and each combination of instructions in flight
exercises a different path.  The rings move two packets in a cycle at every fill
level.  A halt stops different parts in different cycles.  In the simulator
every agent stages its effects, two routers stage the same move, and a commit
makes them happen.  On the host bus writes are posted, the control signals take
cycles to arrive where data take others, and nothing but the order of the
driver's calls keeps host and elements apart in the memory.  In the tool chain
one layout is computed three times, in Python, in SystemVerilog and in C, with
sums and logarithms of their own.

**What makes each correct.** A channel is a FIFO.  A core is the sequential
machine: what the instructions in flight on the right path will have done is a
state of that machine, whatever has been predicted, forwarded or annulled.
Channels are never dequeued empty or filled beyond their depth.  A prediction is
reversible until it is resolved.  A ready program goes on.  A memory port
answers each request once, in order, with the word of one definite moment.  The
simulator is wired as the hardware is, its staging amounts to FIFO channels, and
it stops when no packet is left in a buffer.  What the assembler packs the
hardware unpacks, and what a slot holds on the device is what the simulator
runs.  When an element executes, all that was written for it has landed; what
the host reads after it has seen the element halted is what the program has
computed; and the host program ends.

`PROJECT.json` lists every hazard found at its line, with the property that
covers it or why there is none.

## 2. Modules

| module | models | notes |
|---|---|---|
| `PacketFifo` | what a channel promises | abstract |
| `ChannelBuffers` | both buffers and the link | refines `PacketFifo` |
| `TiaIsa` | instructions, triggers, operands, results, write-back | operators only |
| `TiaMachine` | `Core.iterate` of the simulator | abstract: one instruction, all effects at once |
| `CoreUnits` | control units and queues, as a core connects them | parameterised by hazard-free and retiring instruction |
| `IntegerCore` | `integer_core.sv` | refines `TiaMachine` |
| `MicroCore` | the other eight cores | refines `TiaMachine` |
| `MemoryService` | what a memory promises | abstract |
| `MemoryPorts` | `read_port.sv`, `write_port.sv`, the memories that join them and `dual_port_ram.sv` | refines `MemoryService` |
| `Topology` | the simulator's `build_*_system` functions call by call, and the nets of the hardware's element, quartet, block and test systems | operators only |
| `SimSystem` | `System.iterate`: elements, software routers, memory, commit, on a system `Topology` has built | refines `PacketFifo` per link and `MemoryService` |
| `CoreParameters` | reading and validating parameters; the widths both sides derive | operators only |
| `BitStrings` | numbers as sets of bit positions | operators only |
| `MachineCode` | the encoding of each field, packing, words; the hardware's packed structure and unpacking | operators only |
| `Assembler` | from tokens to programs, with every refusal | operators only |
| `Operations` | the table of operations, in the simulator and in the ALU and multiplier | operators only |
| `InstructionMemory` | a host's word into the memory; the extended immediate | operators only |
| `Toolchain` | a source file goes through assembler, file, host program and device; an instruction runs in both worlds | composes the six above |
| `HostBus` | the driver's sequences of accesses, the bridge, the mappers, the buffers, the control registers | operators only |
| `HostRun` | the host program, the bus, the elements, their channels, ports and memory, clock by clock | extends `HostBus` |
| `MCPrograms`, `MC*` | small programs, packets, systems and source files for TLC | |
| `*_proofs` | theorems | eight modules |

`TiaIsa` is used by `TiaMachine` and by `CoreUnits`; both cores extend
`CoreUnits` and instantiate `TiaMachine` under a refinement mapping.
`ChannelBuffers` shows that queues may stand for the rings, which is what
`CoreUnits` does with `inq` and `outq` (`InputChannelAfter` and
`OutputChannelAfter` keep the behaviour of the rings at their limits, the
dropped arrival included).

**Cores.** A `Clock` action is one positive edge of one core: every `always_ff`
of the core and its units at once, from the combinational values that operators
of the signals' names compute (`Override` is `trigger_override`, `Miss` is
`predicate_prediction_miss`, `UpdatedFull` the updated full status, and so on).
`Edge` adds that in each cycle any neighbour may offer a packet and take one.
`BeginExecution` is the driver's `begin_execution`.

An instruction is a record; sets of predicates stand for the bit masks; the bits
`vi`, `icd`, `oci` keep their meaning (a bubble is the all-zero instruction).
In the core modules one or two operations of each kind of datapath are kept:
single cycle (`nop`, `mov`, `add`, `sub`, `eq`, `ult`, `halt`), multiplier
(`lmul`), three operands (`mac`), scratchpad (`lsw`, `ssw`); `Operations` has the
whole table.  Words are `WordWidth` bits wide and wrap.  `WellFormed` says what
the core modules assume of a program: one destination, a mask that does not
touch the predicate the same instruction writes, and no dequeue or read of a
channel the trigger does not check.  The assembler builds instructions with one
destination and enforces neither of the other two.  What an unchecked dequeue
does to a channel is the run `EmptyDequeue`; a mask on the predicate the
instruction itself writes is an open hazard: a comment at
`control/speculative_predicate_unit.sv:113` relies on the assembler for it, and
no function of the assembler looks.

In `MicroCore` a core is a record: the number of stages, the stage that fetches
and dequeues, whether there is forwarding, a data hazard detector, a functional
unit with a result register, a scratchpad, a third operand.  `pipe` maps stages
to pipeline registers, and the definitions read like one of the eight files with
the record filled in.

**The refinement mapping of the cores.** `Flushed` (integer core) and `Drained`
(the others) let the instructions in flight finish, oldest first, and stop
behind a halt or a mispredicted writer.  What results is the architectural state
of `TiaMachine`.  An instruction therefore fires, abstractly, when it leaves the
trigger stage on the right path; annulled instructions never fire; retirement is
a stutter.  `TiaMachine` has two parameters for behaviour in which the cores
really differ from the simulator:

* `StrictPriority`.  With pessimistic channel status a core may pass over an
  instruction that only seems to be blocked, and fire one of lower priority.
  With full information priority is strict.
* `HaltShadow`.  A `halt` masks dequeues and enqueues once it has retired, but
  `internal_enable` falls a cycle later and the register file and scratchpad are
  not gated by `halted`.  So instructions behind a halt may still change
  registers, predicates and scratchpad, and in the deeper cores dequeue.  They
  never send.

**Memory.** A `Clock` of `MemoryPorts` is one edge of all ports: a request is
answered, abstractly, at the edge from `STATE_0` to `STATE_1`, at which the RAM
registers the word; a port in `STATE_1` has taken its request and given its
answer already, as far as `MemoryService` is concerned.  The memory is always
enabled, as it is wired.  The host is silent here; `HostRun` has both.  An index
is cut to `$clog2(DEPTH)` bits, that is, taken modulo `Reach`, the power of two not
below the number of words.  Where that number is none, as with the shipped 32786
words, some indices lie beyond the array: a write there is lost and a read finds
any word (an array access out of bounds in SystemVerilog).  `MemoryService`
promises no more; the simulator raises an exception instead and never gets there.
`HostRun` cuts its addresses in the same way.

**Simulator.** `Topology` executes the calls of `build_pets_system`,
`build_qts_system` and `build_bts_system` on sets of links — who connects whom in
which direction, the router that stages the move — and defines `Hardware`, the
nets of the SystemVerilog modules with the same names for buffers.  `SimSystem`
has one action per agent of the event loop.  `turn` is the order in which
`System.iterate` calls them: the elements (each core, then its router), the
memory, the commit of all buffers.  Every agent stages.  `Pending(b)` is what
buffer `b` will hold after the commit as far as the cycle has gone; the channels
and the memory are refined at the moment of staging, and `Commit` is a stutter.
What a core computes is `TiaMachine`'s matter: here its program is a set of
what it may do to buffers in a cycle.

**Tool chain.** `Toolchain` has one action per step a program takes: read and
check the parameters, parse, check that there is a program for each element,
write the file, load it word by word as `program_processing_element` does, run
an instruction.  A statement is a record of tokens; a field is a set of bit
positions, so that packing is a shift and a union and an overlap shows.  The
encoding uses the widths of `core_parameters.py`, the decoding those of
`derived_parameters.svh`.  `Unpack` cuts the fields from the word in the order of
the packed structure.  `Clog2` is what both sides compute, by its property: the
least exponent whose power of two is not below the number.  `Matching` says when
a platform fits the device at all: the device has the word of the simulator
(`WordWidth`), the words of an instruction are a power of two, and there is one
program for each element, not longer than its instruction memory.

**Host.** `HostBus` writes each driver function as the sequence of accesses it
makes (`reset_system`, `program_processing_element`, …) and has the next-state
functions of the bridge, the buffers and the mappers.  In `HostRun` a `Clock` is
one edge of everything; `IssueAddress` and `IssueData` are the host putting the
next access on the bus between edges, address or data first; `Interrupt` is the
SIGINT handler the programs install.  A device starts off, or still executing
because an earlier host program was killed.  `CountersAnswer` says whether the
cores have the performance counters the host program reads: `integer_core` has, the
other eight have not (section 4).  `Owner(n)` is the element whose channel the
wiring of the system takes to channel `n` of the memory.  `core` keeps of an element its
registers, its instructions and what it exchanges with the memory.  What a program
is to leave in the memory is written down without clocks and channels: `Paper(p)`
carries out one operation after the other on a memory that answers at once, and
`Outcome` is its memory after the last one.  `WellFormed` says which programs have
an outcome: they ask for input data only and leave these as they are, give every
index its data before the next index, forward an answer only after they have asked
for one, give every result a value, and end with their only halt.

## 3. Runs

| run | instance | what it shows |
|---|---|---|
| `ChannelBuffers` | depth 4, two packets | the rings are consistent and are one FIFO of twice the depth; the look-ahead packet is the next head |
| `EmptyDequeue` | depth 2, unguarded dequeues | violation, see findings |
| `IntegerCore` | both knobs on | refinement, channels, speculation, single retirement, progress |
| `StallingCore` | both knobs off | refinement, channels, progress |
| `PredictingCores` | seven cores, both knobs on | refinement, channels, speculation, progress |
| `StallingCores` | eight cores, both knobs off | refinement, progress |
| `UndrivenOperand` | the two cores with the fault | violation, see findings |
| `MemoryPorts` | one read port, the write port, two words | each request is answered once, in order, with the word of the moment; every request is served |
| `SimSystem` | the three systems in four scenarios | wiring as in the hardware; staging and double routing are FIFO channels, pending reads a memory; the end of a simulation |
| `Toolchain` | two elements, source files and platforms, good and bad | fields read back, programs arrive, predicate patterns and results agree |
| `HostRun` | one element, three memory programs at three paces, interruption, a device left executing | programs and data have landed, results are the program's, the host program ends |
| `QuartetMap` | four elements | violation, see findings |

**Bounds.**  The core runs use two-bit words, two registers, two predicates, one
input and one output channel of depth two, two tags, two scratchpad words and
three packets.  Depth two makes a channel full with the packets of two
instructions in flight; two tags make look-ahead matter; two predicates are
needed for a second writer to meet an open prediction of another one; words of
two bits make products wrap.  The programs are all ordered pairs of 15
instructions for the integer core, and triples chosen so that in each stage of
each core a writer, a dependent, a sender, a store and a halt meet (a pipeline
of three registers holds at most three instructions besides the one triggered,
and programs loop).  The only unbounded structures, the queues, are bounded by
the depth.  Symmetry is not used: liveness is checked.

`MemoryPorts` has one read port because ports share nothing but the RAM, which
reads do not change.  Its two packets differ in tag and in word, and the larger
word is an index that is cut to the width of the RAM.

`SimSystem` has buffers of depth one in the elements (full after one packet) and
two at the ports, where a second request has to be able to wait behind one that
is pending; one word of memory and two packets.  Its scenarios are: `single`, one
element that reads and writes in every way its three channels allow; `pair`, two
elements that send to each other; `apart`, address and word of a write from two
elements; `across`, a link between quartets of a block.  The elements around
them halt at once, so that four and sixteen elements take their turns without
multiplying states.  `WiredLikeHardware` compares all links of all three systems,
used or not.  The run does not check for deadlock: a simulation stops.

`Toolchain` lets every statement differ from a plain one in one or two
respects: 0 to 2 colons, patterns with wrong symbols and lengths, up to three
channel conditions for two places, every kind of destination and operand with
indices inside, at and beyond the limit, every operation with 0 to 5 operands,
files with too many or too few programs, and platforms whose widths are too
narrow, do not divide or are missing.  Words are four bits wide and six operands
include both ends and the sign bit.  It does not check for deadlock: a program
is assembled and run once, or refused.

`HostRun` has one word of registers and two of instructions, a memory of four
words for two inputs and two outputs, and channels of depth two.  The programs
copy an input, store two words, and swap; each also with pauses of one and three
cycles, so that one of two channels runs ahead of the other.  One element is
enough: elements share nothing on the bus but the splitter, and that has its run
in `QuartetMap`.

Three configurations are kept beside the runs for what these do not reach:

* `OddMemory.cfg` (`MCMemoryPorts`): `ImplementsMemory` for three words and indices
  of two bits, so that one index lies beyond the array.  TLC finds no error; the
  theorem `PortsImplementMemory` covers every depth.
* `QuartetRun.cfg` (`MCHostRun`): `ReadsShowMemory` and `DriverFinishes` on four
  elements.  TLC finds no error in 47066 states.  The two south elements, which the
  wiring takes to the write port, send index and data of two results, at three paces
  each, up to twelve pauses apart, so that either is first or they are together; the
  north elements halt.  `halted` of a quartet does not wait for channels and ports
  (`quartet_test_system.sv:201` has a TODO).  The write port takes a pair in every
  cycle, so the last packet is a few edges from the RAM when its element halts;
  `halted` passes registers on its way to the host, and the read of a result is
  another access behind the one that finds `halted`.  What keeps the results right
  is a margin of latencies and no handshake.  The programs use five words of
  instructions, of which the mapper cuts off the last of element 3 (finding 3); its
  program leaves that one unused.
* `SilentCounters.cfg` (`MCHostRun`): `CountersAreReported` for an element without
  counters.  TLC finds it violated, as section 4 says.

Nothing else is bounded.  Every property has a mutant of the code's definition
in `PROJECT.json` which breaks it: an arrival hidden by a dequeue, forgotten
forwarding, an annulment of the youngest stage only, a prediction that is never
closed, two swapped links, a field packed one bit too low, a read that does not
wait for posted writes, and so on.

**Properties.**

* `TypeOK` — one per component with state; for rings and queues it includes the limits.
* `RingConsistent` — head, tail and count of both rings agree.
* `ImplementsPacketFifo` — the channel is a FIFO.
* `LookaheadIsNextHead` — what is shown behind the head is the head after a dequeue.
* `SpeculationTracksWriter` — a prediction is open exactly while its writer is in flight, and no second writer is.
* `SpeculationIsReversible` — behind an open prediction nothing has dequeued or stored.
* `SingleRetirement` — a two-cycle and a one-cycle instruction never retire together.
* `ChannelsRespected` — no dequeue of an empty and no enqueue into a full queue.
* `ImplementsMachine` — refinement of `TiaMachine`.
* `ReadyIsServed` — if an instruction is triggered on the right path, an instruction retires or the core has halted.
* `AnswerFits` — what a read port looked at in `STATE_0` still holds in `STATE_1`, where it is used without a second look.
* `ImplementsMemory` — refinement of `MemoryService`, by the hardware and by the simulator.
* `RequestsServed` — a request is answered if there is room for answers again and again.
* `WiredLikeHardware` — the simulator's links are the hardware's nets, and no buffer is the end of two.
* `ImplementsChannels` — each link of the simulator, with the buffers at its ends, is one FIFO.
* `StopsAtRest` — a simulation stops only when every core has halted and no packet is in a buffer or staged.  A read that is pending in a port is in no buffer: the answer may be dropped, and the property does not claim otherwise.
* `HaltedSystemSettles` — once all cores have halted the loop ends, unless a packet is left that no one can consume.
* `FieldsReadBack` — the hardware takes from each word the fields the assembler has put into it.
* `LoadedIsFaithful` — a loaded device holds, slot by slot and register by register, what the simulator runs.
* `SetReachesPattern` — the masks of `set`, which leave out what the trigger establishes, reach the pattern from every predicate state the trigger admits.
* `ResultsAgree` — an instruction gives the same result in the simulator and on the device, from the operands its sources name on each.
* `LandedBeforeExecution` — when an element executes, its program is in its registers and instructions, and the input data are in the memory before it does anything.
* `ReadsShowMemory` — the host finds its input data in place, and a result it has retrieved is what the memory holds from then on: no read overtakes a write, and halted is not seen before the last packet has arrived.
* `ResultsAreRead` — what the host retrieves is what the program computes from the input data.
* `DriverFinishes` — the host program comes to its end, interrupted or not.
* `CountersAreReported` — a host program that has come to the counters of its elements ends (`SilentCounters.cfg` only).

`LoadedIsFaithful` and `ResultsAgree` are about instructions that stay within
the architecture (`WithinArchitecture`), which no one checks:
`Instruction.validate` is a TODO, and `FieldsReadBack` shows only that each field
is packed and read alike.  `ResultsAgree` leaves out, by `Comparable`, where
simulator and hardware really differ: bit operations with an index not below the
word width, `clz` and `ctz` of zero, and operations the device lacks.

**Fairness.**  `FairSpec` of the cores and the ports asks that the clock ticks as
long as a tick can change something inside, and that the host begins execution.
A clock is the most that hardware promises, and the subscript leaves the queues
out so that fairness never makes a neighbour send or take.  `ReadyIsServed` is
therefore conditional on an instruction being ready, and `RequestsServed` asks
for room.  In `SimSystem` it is that the event loop goes on; no core is made to
fire.  In `HostRun` the clock ticks and the host program, a sequential process,
makes its next access; an element executes because the clock ticks, and its
programs end by themselves.  `Interrupt` is not fair.

## 4. Findings

1. `EmptyDequeue`: `interconnect/input_channel_buffer.sv:3` says that a dequeue
   of an empty channel is ignored.  The branch for `dequeue` does nothing when
   `count` is zero, but the link acknowledges the packet that arrives in that
   cycle; it is lost.  A hand-written program can reach it: nothing makes the
   channels an instruction dequeues part of its trigger.
2. `UndrivenOperand`: `t_dx1_x2_core.sv` and `t_d_x1_x2_core.sv` do not connect
   the third operand to the functional unit, so `mac`, which tests use, computes
   with an undriven signal there.
3. `QuartetMap`: the mapper of the quartet test system
   (`mmio/quartet_test_system_mapper.sv:31`) adds up the parts of an element
   without its register file and router settings; the splitter of the quartet and
   the host programs count them.  Input data land four register files above
   where the elements read them, although `qte.c:255` loads them "into physical
   memory".  The host reads its own writes back through the same map and does
   not notice.  `block_test_system_mapper.sv:28` has the same sum.  The other end
   of the array is wrong as well: what the host writes into the last words of the
   instruction memory of the last element goes to the data memory.

Other places met on the way, which no run is about:

* The performance counters of the eight MICRO cores are not there.
  `knob_parameters.svh:147` enables counters with `TIA_HAS_CORE_PERFORMANCE_COUNTERS`,
  and the host programs with `has_performance_counters` in `parameters.yaml:40`.
  `integer_core.sv:166` tests the former; the other cores (`tdx_core.sv:142` and its
  like) test `TIA_HAS_PE_PERFORMANCE_COUNTERS`, which nothing defines, and connect an
  `unused_host_interface` there.  The mapper still leads the reads to it, it never
  acknowledges them, and the host program waits for ever for the first counter
  (`SilentCounters.cfg`), although `README.md:177` of the repository promises for the
  tests on these cores, "if performance counters are enabled, report pipeline behavior
  back to the user".  `DriverFinishes` therefore holds for systems of `integer_core`,
  which is the one the parameters choose; that is what `CountersAnswer = TRUE` says in
  the run `HostRun`.  The theorems on `HostRun` are for both values.  The monitor has
  the same slip (`TIA_HAS_PE_MONITOR`), but no host program waits for it.
* `tdx_core.sv` and `t_dx_core.sv` instantiate `load_scratchpad_word_stall_unit`,
  which is not there, when the scratchpad is configured, and `t_d_x1_x2_core.sv`
  connects a port `scratchpad_memory` does not have.  These combinations do not
  elaborate; `RunsOn` excludes them.
* With immediates narrower than a word, `instruction_memory.sv:72` extends with
  a bit that does not exist and the port at `source_fetching_unit.sv:10` is cut
  to the narrow width: negative ones lose their sign, against the "Sign
  extended." of `instruction.svh:100`.  All shipped parameter sets have 32 bits.
* An index of a source, of a checked channel or a tag beyond its limit is not
  refused; if the field has room for it, it is encoded and names something else
  on the device.  Output and dequeue channels beyond the limit are dropped
  silently.  Of two different immediates the last one wins.
* The width check of a destination type compares with the width of the
  destination *index*: where that is one bit, valid destinations are refused.
* An instruction of a number of words that is no power of two is written to the
  wrong places by the instruction memory.
* `Core.reset` of the simulator (`core.py:262`) says all state but the
  instructions and leaves the scratchpad.
* A write to an address nobody maps stays at the front of its buffer and blocks
  the third write after it; a read of one waits for ever.  The host programs make
  no such access.

## 5. Proofs

All theorems are of the form *for every value of the constants that satisfies
the named assumptions*: any program of well-formed instructions, any widths,
depths and numbers of channels, all four settings of the knobs.

* `ChannelBuffers_proofs!BufferSafety`.  `TypeOK /\ RingConsistent` is inductive
  as it stands: the tail is the slot `count` behind the head.
* `ChannelBuffers_proofs!ChannelIsFifo`.  With guarded dequeues the two rings
  implement `PacketFifo`.  The lemmas `Pop`, `Push` and `PushPop` say what an edge
  does to the sequence a ring holds; `OutputContents` and `InputContents` apply
  them to each buffer, `Handover` joins both.
* `ChannelBuffers_proofs!LookaheadSafety`: `Spec => LookaheadIsNextHead`, from the
  same invariant: with two packets or more the slot behind the head is never the one
  the link writes on that edge.
* `IntegerCore_proofs!SpeculationSafety`.  The invariant `ControlInv` adds to the
  three control properties the shape of the pipeline registers
  (`PipelineShape`): X2 holds a bubble or a two-cycle instruction, and both are
  bubbles until the core is enabled.  The properties are inductive only
  together: that a prediction is open exactly while its writer flies needs that
  the writer is not dropped (`SingleRetirement`), and that no second writer
  passes the override.
* `IntegerCore_proofs!CoreSafety`.  The invariant `DataInv` adds to the types
  that instructions in flight are well formed and `ChannelInv`: a packet waits
  for the dequeue in DX1, and there is a free slot for every packet on its way.
  `ChannelsRespected` follows.
* `IntegerCore_proofs!CoreImplementsMachine`: `Spec => ImplementsMachine`, with the
  mapping `Flushed` and no invariant but `ControlInv` and `DataInv`.  What two
  instructions in flight will have done is written out once
  (`FlushedRegs`, `DrainedPreds`, `FlushedSpad`, `FlushedInputs`,
  `FlushedOutputs`).  `FlushedMoves` is the heart: one edge later the instruction
  that retired is in the registers and the other one in X2, and together they come
  to the same state, except for what is issued, arrives or leaves.  `StatusShown`
  and `TriggerAgrees` say that the instruction issued is one the machine may
  choose, although the unit looks at channels and predicates of another moment;
  `PredictionBegins` that predicted or saved predicates, whatever the value turns
  out to be, are those of the machine.  After a halt only channels move
  (`HaltStep`).  `RunningEdge` puts the cases together.
* `MicroCore_proofs!SpeculationSafety` and `MicroCore_proofs!CoreSafety`.  The
  same for all eight cores at once: `core` is a variable that ranges over the
  records in `Cores`, and no step is repeated per core.  `ControlInv` is
  `PipelineShape` (what each stage of a pipe may hold, given what is connected)
  with the two speculation properties; `DataInv` adds types, `ChannelInv` and
  that the program runs on the core (`RunsOn`).  The heart is counting: what is
  on its way to an output channel after a step (`OutstandingAfter`) never
  exceeds the room left (`RoomForIssue`), for every depth of pipe;
  `PipelineAfter` says what an edge moves where.
* `MicroCore_proofs!CoresImplementMachine`: `AvoidThirdOperand /\ Spec =>
  ImplementsMachine`, for all eight cores at once.  The hypothesis leaves out the
  one thing in which two of the cores really differ from the machine (finding 2):
  `mac` where nothing drives its third operand.  `Older(s)` is what an instruction
  in stage `s` finds once those in the later stages have finished, `Drained` is
  `Older(0)`, and `Moves(s, ..)` says that an edge changes it only by what arrives
  and leaves and by what the stage that fetches operands and the one next to
  retirement do.  `MovesLast` shows it for the last stage, `MovesOn` carries it one
  stage towards the trigger (`Carried`: operands or a result that have been latched
  are those the instruction would fetch or compute now), `DrainedMoves` adds up the
  one to three stages.  Besides `ControlInv` and `DataInv` this needs `PathInv`:
  an instruction in flight is one of the program, and where two stages lie between
  operand fetch and retirement it reads no register the one in front of it writes;
  only then is forwarding from the last stage enough (`OperandsFetched`).  An edge
  is then one of five: after the halt, in the core without pipeline registers, the
  halt itself, a refuted prediction (`NothingBehindMiss`: what is annulled has
  neither dequeued nor stored, however deep the pipeline) and all others
  (`RunningEdge`).
* `MemoryPorts_proofs!PortSafety` and `MemoryPorts_proofs!PortsImplementMemory`,
  for any number of read ports, size and depth.  `PortInv` is `TypeOK` with
  `AnswerFits`: only the port itself takes requests and gives answers, so what it
  has seen in `STATE_0` can only improve.  `ReadStep` shows that a port that
  serves, one that answers and one that does neither take a step of the abstract
  port; `WritePortStep` does the same for the write port.  `MemoryAssumption`
  asks that any tag can go with any word and that `Reach` is a power of two
  between the number of words and its double.
* `SimSystem_proofs!SimulationSafety`, for any built system and any programs
  that touch buffers of that system (`ScenarioAssumption`).  `SimInv` is: what is
  in a buffer fits and may be there (`Contained`), what is staged can be committed
  (`Committable`), types (`Registered`) and `StopsAtRest`.  The work is in the
  middle one: two agents may stage on one buffer, and each has looked at the
  buffer as it was at the start of the cycle.
* `SimSystem_proofs!StagingIsFifo`: `Spec /\ []WiredLikeHardware` implies
  `ImplementsChannels`, for any depths and packets.  Besides `SimInv` it needs
  `Staged`: a wire's dequeue is staged exactly when the enqueue at its other end
  is, with the same packet; a core that has not had its turn has staged nothing on
  its outputs; the memory has staged nothing before its turn.  `Staged` holds only
  where no buffer is the end of two wires, which the wiring of the hardware gives
  (`WiredIsExclusive`), and only since routers move from senders to receivers
  (`WiringAssumption`).  `TrafficIs` then writes the wire as what is left at one
  end, the contents of the other, and what is coming, with the moves of the
  routers gone; `WireStep` turns a step into an edge of `PacketFifo`.
* `SimSystem_proofs!StagingIsMemory`: `Spec /\ []WiredLikeHardware` implies
  `ImplementsMemory`, for any number of read ports, size and depth, with the same
  two invariants.  `BufferGrows` and `BufferShrinks` say what staging does to what a
  buffer will hold, `ElementAddsToPort` and `ElementTakesAnswer` apply them to an
  element's turn, `MemoryOnPorts` and `MemoryAnswers` to that of the memory (a
  pending answer that leaves, one that comes, or both), `ServiceStep` puts the
  ports together.
* `Toolchain_proofs!EncodingReadsBack`, for any parameters and any instruction
  that the assembler accepts: `Unpack` with the hardware's widths gives the
  fields.  The hypotheses are `Valid` (parameters passed the checks), `Parsed`
  (what a parsed instruction consists of) and `Encodable` (no refusal).
  `ConcatRead` and `PackRead` say what packing keeps, `SameWidths` that the two
  derivations of the widths agree, `Clog2Monotone` among other things that a type
  checked against the wrong width fits all the same (`DestinationTypeFits`).
* `Toolchain_proofs!AssemblyReadsBack`: `Spec => []FieldsReadBack`, for any platform
  and source files.  The hypotheses of the theorem above are now discharged by the
  tool itself: the invariant `ToolInv` says that a platform that is read is valid
  and complete (`PlatformAccepted`), that the programs are what `FromSource` makes
  of the statements the parser accepted (`ProgramsParsed`), and that once there is
  a binary no instruction has been refused (`ProgramsEncoded`); `StatementParsed`
  gives `Parsed` from the statement.  `CodeFits` shows that an instruction is no
  longer than its words, `InstructionWords` where they are, and `WordsJoin` that
  cutting and joining them loses nothing, for any number of words.
  `InputsAssumption` asks of the inputs that parameters are numbers or null and that
  statements, conditions and patterns come in sequences.
* `Toolchain_proofs!UpdatesReachPattern`: `Spec => []SetReachesPattern`, from the same
  invariant.  `MaskRead` gives the two halves of a mask back because the build
  functions have checked both (`PredicatesFit`); that there is one "set" part only
  and that no character of its pattern is a one and a zero makes the order of
  setting and clearing immaterial (`UpdateReaches`).
* `HostRun_proofs!ProgramsLandFirst`: `System = "element" => (Spec =>
  []LandedBeforeExecution)`, for any program, input data, number of words in the
  register file, the instruction memory and the data memory.  The hypothesis is
  needed: the run `QuartetMap` shows the property violated on the quartet, whose
  mapper gives the elements too few words (finding 3).  The difficulty is that the
  response to a write means only that the first buffer has taken it.  `RunInv`
  therefore says where the last answered write is and, with it, how far the bridge
  can be with the next access (`Progress`): the write is in the second buffer
  (`Crossing`) and no address has been accepted (`Fresh0`); it is in the element's
  buffer or in the control registers (`Entering`, `Switching`) and there is no
  request (`Fresh1`); it is a reset about to clear the core (`Clearing`) and there is
  no response (`Fresh2`); or it has landed (`Done`).  `Landed(n)` says what the first
  n accesses have left in the control registers, at the core, in its registers and
  instructions and, as long as the element has done nothing (`Waiting`), in the
  memory.  `Turns` ties bridge and host together: one access at a time, address and
  data going ahead together.  Each way a write takes is a chain of lemmas, one per
  edge: `DoneCrosses`, then `InputCrosses`, or `WordCrosses` and `WordEnters`, or
  `SignalCrosses`, `SignalEnters` and for a reset `ResetClears`.  `WholeProgram`
  numbers the accesses of the host program, and `WritesAreMapped` shows that the
  hardware's mapper sends each write where the driver means it to go.  The proof uses
  that enable precedes the words and the end of reset precedes enable: a core takes
  words only while it is enabled, and its buffer is emptied by reset a cycle before
  the core is.  TLC checked `RunInv` on the instance of the run `HostRun` before it
  was proved.
* `HostRun_proofs!ResultsAreFinal`: `System = "element" => (Spec =>
  []ReadsShowMemory)`, with the same generality.  `ReadInv` adds five parts to
  `RunInv`.  `Pathed` says where a read is: each buffer on its way has the index
  until the next one has answered, so a read is in one place and its answer in one
  place.  `Answers` says that every answer on its way back is true (`Truthful`): an
  input word is what was written, a one for halted means that the run is over
  (`Final`), a result is what the memory holds.  `Quieting` is about the four
  registers between the channels and the host: halted and quiescent of the core,
  their copies in the element, and the quiescence of the memory are each of another
  cycle, and together they still say that no packet is left for the write port,
  because a core that has halted sends nothing and a channel seen empty behind it
  stays empty.  `Cleared` says that halted is of this run: reset has cleared the core
  before its response lets the host go on, though an earlier run may have left
  halted set.  `Results` says what the host has kept.  `ReadsAreSettled` is where the
  two invariants meet: a read on the bus finds every write landed.  TLC checked
  `ReadInv` too before it was proved.

* `HostRun_proofs!ResultsAreOutcome`: `System = "element" /\ (\A p \in Programs[0] :
  WellFormed(p)) => (Spec => []ResultsAreRead)`, for any number of inputs and results,
  channels of any depth, any pauses of the element and any pace of the host.  The
  programs of the run satisfy the hypothesis: `MCHostRun` assumes it, so TLC evaluates
  it.  While the element executes (`Behaved`), the memory differs from the paper by
  the words that have been sent and have not arrived, over two channels, two port
  buffers and a pending answer.  `Writes`: index and data sent agree in number, up to
  an index whose data are still to come, and of several words on their way to one
  address the last one counts (`Agree`).  `Reads`: the answers on the paper are those
  on their way back followed by those to the questions on their way there; the memory
  may answer late because no well-formed program writes to the inputs.
  `OperationCarried` takes an operation of the core to one on paper, `WritesTaken` and
  `QuestionAnswered` show that an edge of the memory changes nothing on paper, and
  `BehavedKept` puts both into one edge.  It starts from `RunInv` (`BehavedFirst`: the
  inputs have landed and nothing is on its way) and ends with `ReadInv`
  (`BehavedToTheEnd`, `OutcomeReached`: halted at the host means `Final`, no words are
  on their way, so the memory is as on paper).  TLC checked `DataInv` before it was
  proved.
* `Toolchain_proofs!DeviceIsFaithful`: `Spec => []LoadedIsFaithful`, for any
  parameters, programs, number of elements and width of the word.  `LoadInv` adds to
  `ToolInv` that the device is empty before it is written (`NothingWritten`), that the
  binary is that of the programs (`BinaryWritten`), and how far the host has come
  (`WordsWritten`: of each register and each part of a slot, it has arrived if and
  only if its address is below the number of words written).  `Joining` and
  `SpreadAt` give the place of an element's words in the binary, `AddressIs` and
  `Before` the order of the addresses, `RegisterArrives` and `WordArrives` the effect
  of one write, with `OneMorePart` for a slot of which some words have come.
  `SlotLoaded` then finds the code of the instruction in a full slot, `SlotReads` what
  the hardware reads in it, and `MeaningRead` that this means what the simulator does:
  conditions, sources, tags and an immediate, which is one even when negative
  (`ImmediateRead`).
* `Toolchain_proofs!SimulatorAndDeviceAgree`: `Spec => []ResultsAgree`, with the same
  generality.  `TrialInv` says that what has been run is an instruction of the program
  on operands its sources name; `SameOperands` uses the theorem above for those.
  `UnitsAgree` goes through the operations in groups (`ArithmeticAgrees`,
  `ComparisonsAgree`, `LogicAgrees`, `BitFieldsAgree`, `ProductsAgree`,
  `PositionIs`, shifts): the simulator computes with Python's integers and masks the
  result, the hardware with words, signs and sets of bits.

These two need what numbers and sets of bits have to do with each other, for every
width.  The first part of `Toolchain_proofs` is a small library of it: powers and
logarithms; division by powers; `BitsOfNumber` and `NumberOfBits`, which make `Bits`
and `Number` inverse to each other; and what shifting, complementing and joining do to
the number of a set (`NumberShift`, `NumberComplement`, `ShiftArithmetic`).

`CoreUnits_proofs` holds the lemmas on the instruction set and on the shared units,
for use by every core.

**Assumptions.**  Each constant has a named assumption in the module that declares
it, which TLC evaluates in every run.  Those of the tool chain are: words have at
least one bit (`WordWidthAssumption`), operands are words (`OperandsAssumption`),
and of the inputs (`InputsAssumption`) that parameters are numbers or null, that
statements and their parts come in sequences, and that indices and tags are written
without a sign while an immediate may have one.  `int()` in `instruction.py` would
take a signed index, too; no program has one, and nothing is claimed of it.  Those
of `HostRun` are that the data fit the memory and `Reach` is as above
(`RunAssumption`), and that a program uses the channels its element has
(`OwnerAssumption`).

**Induction.**  The library's induction theorems take a predicate as a parameter,
which the provers cannot instantiate.  `Induction` states the principle for a set
(0 is in it, and with a number the next one) and is proved from the pigeonhole
theorem on finite sets: the least number left out would have a predecessor that is
left out as well.  `Least` follows.  Recursive functions and folds are reasoned about
with it: first that a function with the equations exists (`SumsExist`,
`PaperStates`), then that it is unique (`SumsAgree`) or has the property wanted
(`PaperOK`).

**What the solver is trusted with.**  tlapm 1.4.5 hands the SMT solver axioms on
`Len` and `DOMAIN` that speak of all values and not only of sequences, which is more
than TLA+ says: taken together they admit a contradiction.  The leaves in question,
about two thousand, were therefore given to Z3 once more with axioms restricted to
sequences.  All but 23 are proved (three in `CoreUnits_proofs`, three in
`IntegerCore_proofs`, one in `MicroCore_proofs`, five in `Toolchain_proofs`, eleven in
`HostRun_proofs`); on these Z3 runs out of time, and it also does when it is to find a
contradiction in their hypotheses without the goal.  There is thus no sign of a leaf
that rests on the contradiction, but for these 23 no independent proof either.

**Only model-checked.**  Liveness (`ReadyIsServed`, `RequestsServed`,
`HaltedSystemSettles`, `DriverFinishes`), which is out of the prover's reach, and
`WiredLikeHardware`, which compares three given systems and is evaluated completely;
the theorems about the simulator's channels and memory have it as a hypothesis.
Every other property of the passing runs is stated by a theorem.  `HostRun`'s are
about the test system of one element, for which the run checks them too; the
quartet's violation of the first is finding 3.

## 6. Not modelled, and why

* Reset and pausing of a core that has started, with its pipeline: `HostRun`
  resets an executing element but keeps no pipeline.  Pausing masks dequeues and
  enqueues whose instruction goes on; no host program pauses.
* In `HostRun`: more than one outstanding access (the host programs wait for each
  response), the second read port, the values of the counters, host access to
  scratchpad, monitor and router settings, and the block test system, whose
  mapper repeats the quartet's.
* What performance counters count, and the debug monitor: nothing depends on them.
* Link switches, link buffers and n-way combiners: instantiated nowhere.
* In the tool chain: splitting lines into tokens, macros and messages, header
  files and the parameters of interconnect and memory, floating point (not
  implemented in hardware).
* `build_ats_system`: it calls a class whose `register` method the system does
  not find, and fails.
* Interactive use, interruption and statistics of the simulator.
* The test manager (ssh and files), Linux driver, images, scripts and test
  benches: files and commands around the system, no state of their own.

## 7. Plan

1. Pausing and reset as actions of both cores.
2. The block test system in `HostRun`, and a second read port.
