------------------------------ MODULE HostRun ------------------------------
(***************************************************************************)
(* One run of a host program (pete, qte) on its test system: the accesses  *)
(* the program makes one after the other, the AXI bridge that posts them,   *)
(* the buffers they cross, the control registers and how they reach the    *)
(* elements, the data memory, and the halted signals on their way back.    *)
(*                                                                         *)
(* The clock is one action in which every register takes its next value;   *)
(* the host puts its accesses on the bus between two edges, whenever it     *)
(* likes.  Of an element only what it exchanges with the memory is kept,    *)
(* and one read port of the two.                                           *)
(***************************************************************************)
EXTENDS HostBus, SequencesExt

CONSTANTS
    Programs,   \* element -> the programs it may be given, sequences of operations
    Inputs,     \* the words of the input file
    NumOutputs, \* the number of words of the expected output file
    Depth,      \* TIA_CHANNEL_BUFFER_FIFO_DEPTH
    Reach,      \* 2^$clog2(Size): the indices the address bits of the RAM tell apart
    CountersAnswer \* do the cores have their performance counters

ASSUME RunAssumption ==
    /\ Inputs \in Seq(Nat) /\ NumOutputs \in Nat
    /\ Len(Inputs) + NumOutputs <= Size
    /\ Depth \in Nat \ {0} /\ CountersAnswer \in BOOLEAN
    /\ Reach \in Nat /\ Size <= Reach /\ Reach < 2 * Size /\ \E n \in 0 .. Size : Reach = 2 ^ n

\* The element a channel of the memory is wired to.
Owner(n) ==
    IF System = "element" THEN 0
    ELSE CASE n \in {"readIndex", "readData"} -> 0 [] n = "writeIndex" -> 2 [] n = "writeData" -> 3

\* A program uses the channels of its element.
ASSUME OwnerAssumption ==
    \A e \in Elements : \A p \in Programs[e] : \A k \in DOMAIN p :
        /\ p[k].op \in {"send", "forward"} => Owner(p[k].to) = e
        /\ p[k].op = "forward" => Owner("readData") = e

VARIABLES
    program,  \* what each element is given to run
    driver,   \* the host program: where it is and what it has read
    axi,      \* the bridge, with the valid signals of the host
    buffer,   \* the MMIO buffers
    control,  \* the system control registers
    stage,    \* reset, enable and execute on their way to the cores
    core,     \* the cores
    raised,   \* halted and channels_quiescent on their way from the cores
    channel,  \* the channels to and from the memory, on the side of the elements
    port,     \* the channels of the memory's ports
    memory    \* the memory

hardware == << axi, buffer, control, stage, core, raised, channel, port, memory >>
vars == << program, driver, hardware >>

-----------------------------------------------------------------------------
(* The host program.                                                       *)

Write(index, data) == [kind |-> "write", index |-> index, data |-> data]
Check(index, data) == [kind |-> "check", index |-> index, data |-> data]
Poll(index)        == [kind |-> "poll", index |-> index, data |-> 0]
Read(index)        == [kind |-> "read", index |-> index, data |-> 0]
Count(index)       == [kind |-> "count", index |-> index, data |-> 0]

Each(n, Op(_)) == [i \in 1 .. n |-> Op(i - 1)]

reset_system    == << Write(ResetReg, 1), Write(ResetReg, 0) >>
enable_system   == << Write(EnableReg, 1) >>
begin_execution == << Write(ExecuteReg, 1) >>
system_halted   == << Poll(HaltedReg) >>

\* The words of the programs: no two are equal and none is 0.
Word(e, i) == 1 + e * (RegisterWords + InstructionWords) + i

initialize_registers(e) ==
    Each(RegisterWords,
         LAMBDA i : Write(ElementBase(e) + CounterWords + i, Word(e, i)))
write_to_processing_element_instructions(e) ==
    Each(InstructionWords,
         LAMBDA i : Write(ElementBase(e) + CounterWords + RegisterWords + i,
                          Word(e, RegisterWords + i)))
write_processing_element_program(e) ==
    initialize_registers(e) \o write_to_processing_element_instructions(e)

write_input_data ==
    Each(Len(Inputs), LAMBDA i : Write(DataBase + i, Inputs[i + 1]))
        \o Each(Len(Inputs), LAMBDA i : Check(DataBase + i, Inputs[i + 1]))

retrieve_output_data == Each(NumOutputs, LAMBDA i : Read(DataBase + Len(Inputs) + i))

build_processing_element_results(e) ==
    Each(CounterWords, LAMBDA i : Count(ElementBase(e) + i))

ForEachElement(Op(_)) ==
    FlattenSeq([k \in 1 .. (IF System = "element" THEN 1 ELSE 4) |-> Op(k - 1)])

\* Mutant of Main: the device is enabled once it has been programmed.
MainEnablingLate ==
    reset_system \o ForEachElement(write_processing_element_program) \o enable_system
        \o write_input_data \o begin_execution \o system_halted \o retrieve_output_data
        \o ForEachElement(build_processing_element_results)

Main ==
    reset_system \o enable_system \o ForEachElement(write_processing_element_program)
        \o write_input_data \o begin_execution \o system_halted \o retrieve_output_data
        \o ForEachElement(build_processing_element_results)

\* The first access after the handler of keyboard interrupts is installed.
HandlerInstalled == SelectInSeq(Main, LAMBDA a : a = Write(ExecuteReg, 1))

Access  == Main[driver.at]
Running == driver.status = "running"

\* Mutant of Advance: halted is read, not waited for.
AdvanceWithoutWaiting(value) ==
    [driver EXCEPT !.at = @ + 1, !.address = FALSE, !.data = FALSE,
                   !.status = IF Access.kind = "check" /\ value # Access.data THEN "failed"
                              ELSE IF driver.at = Len(Main) THEN "done" ELSE @,
                   !.output = IF Access.kind = "read" THEN Append(@, value) ELSE @]

\* The answer to the access in progress has come.
Advance(value) ==
    LET next == [driver EXCEPT !.at = @ + 1, !.address = FALSE, !.data = FALSE,
                               !.status = IF driver.at = Len(Main) THEN "done" ELSE @]
    IN  CASE Access.kind \in {"write", "count"} -> next
          [] Access.kind = "check" ->
                IF value = Access.data THEN next ELSE [next EXCEPT !.status = "failed"]
          [] Access.kind = "poll" ->
                IF value # 0 \/ driver.interrupted THEN next
                ELSE [driver EXCEPT !.address = FALSE, !.data = FALSE]
          [] Access.kind = "read" -> [next EXCEPT !.output = Append(@, value)]

-----------------------------------------------------------------------------
(* Who sees which request.                                                 *)

\* The write offered to a buffer or a device, if any, and the index asked of it.
Offered(d) ==
    IF d = Host
    THEN IF axi.write_req THEN {[index |-> axi.write_address, data |-> axi.write_data]} ELSE {}
    ELSE LET writes == buffer[Upstream(d)].writes
         IN  IF writes = << >> THEN {}
             ELSE LET to == Forward(Upstream(d), Head(writes).index)
                  IN  IF to.to = d THEN {[index |-> to.index, data |-> Head(writes).data]} ELSE {}
Asked(d) ==
    IF d = Host THEN IF axi.read_req THEN {axi.read_address} ELSE {}
    ELSE LET up == buffer[Upstream(d)]
             to == Forward(Upstream(d), up.index)
         IN  IF up.reading /\ to.to = d THEN {to.index} ELSE {}

\* The device behind a buffer acknowledges its oldest write.  Registers and memories
\* always do, an index that is not mapped never is.
Popped(b) ==
    /\ buffer[b].writes # << >>
    /\ LET to == Forward(b, Head(buffer[b].writes).index).to
       IN  CASE to \in Buffers -> HasRoom(buffer[to])
             [] to = Nobody    -> FALSE
             [] OTHER          -> TRUE

\* The pseudo-register that tells the host to go on.
SystemHalted ==
    IF System = "element" THEN raised.halted /\ raised.quiescent /\ memory.quiescent
    ELSE raised.halted

Bit(b) == IF b THEN 1 ELSE 0
ControlWord(index) ==
    CASE index = ResetReg -> Bit(control.reset)     [] index = EnableReg -> Bit(control.enable)
      [] index = ExecuteReg -> Bit(control.execute) [] index = HaltedReg -> Bit(SystemHalted)

\* The data a device gives in this cycle, if it acknowledges.  What the counters
\* hold is left open; the register file and the instruction memory read as 0.  Without
\* them a core terminates their interface, and a read of it is never acknowledged.
Answered(b) ==
    IF ~buffer[b].reading THEN {}
    ELSE LET to == Forward(b, buffer[b].index)
         IN  CASE to.to \in Buffers -> IF buffer[to.to].ack THEN {buffer[to.to].data} ELSE {}
               [] to.to = Registers -> {ControlWord(to.index)}
               [] to.to = Ram       -> IF memory.ack THEN {memory.out} ELSE {}
               [] to.to = Nobody    -> {}
               [] OTHER             -> IF to.index < CounterWords /\ ~CountersAnswer THEN {} ELSE {0}

-----------------------------------------------------------------------------
(* The bridge.  Its address and data channels are ready together.  The host  *)
(* takes every response in the cycle it is offered.                         *)

WriteAck == axi.write_req /\ HasRoom(buffer[Host])
ReadAck  == axi.read_req /\ buffer[Host].ack

ClockBridge ==
    LET both == axi.awvalid /\ axi.wvalid
    IN  axi' = [
      awvalid       |-> axi.awvalid /\ ~axi.wready,
      wvalid        |-> axi.wvalid /\ ~axi.wready,
      wready        |-> both /\ ~axi.wready,
      write_address |-> IF both /\ ~axi.wready THEN Access.index ELSE axi.write_address,
      write_data    |-> IF axi.wready /\ axi.wvalid THEN Access.data ELSE axi.write_data,
      write_req     |-> (axi.wready /\ both) \/ (axi.write_req /\ ~WriteAck),
      bvalid        |-> WriteAck /\ ~axi.bvalid,
      arvalid       |-> axi.arvalid /\ ~axi.arready,
      arready       |-> IF axi.arready THEN ~ReadAck ELSE axi.arvalid,
      read_address  |-> IF axi.arvalid /\ ~axi.arready THEN Access.index ELSE axi.read_address,
      read_req      |-> (axi.arready /\ axi.arvalid /\ ~axi.rvalid) \/ (axi.read_req /\ ~ReadAck),
      rvalid        |-> ReadAck /\ ~axi.rvalid,
      rdata         |-> IF ReadAck THEN buffer[Host].data ELSE axi.rdata]

ClockDriver ==
    driver' = IF axi.bvalid THEN Advance(0)
              ELSE IF axi.rvalid THEN Advance(axi.rdata)
              ELSE driver

-----------------------------------------------------------------------------
(* Control: the registers, and the registers of the quartet and of the      *)
(* element that each delay the signals by a cycle.                          *)

LastStage == Len(stage)
AtCore    == stage[LastStage]
\* What the last stage takes next: it resets the buffer of the element.
AtElement == IF LastStage = 1 THEN control ELSE stage[LastStage - 1]

ClockControl ==
    LET offered == Offered(Registers)
    IN  control' =
          IF offered = {}
          THEN IF control.reset THEN [control EXCEPT !.enable = FALSE, !.execute = FALSE]
               ELSE control
          ELSE LET w == CHOOSE w \in offered : TRUE
               IN  [reset   |-> IF w.index = ResetReg THEN w.data % 2 = 1 ELSE control.reset,
                    enable  |-> IF w.index = EnableReg THEN w.data % 2 = 1 ELSE control.enable,
                    execute |-> IF w.index = ExecuteReg THEN w.data % 2 = 1 ELSE control.execute]

ClockStages == stage' = [k \in DOMAIN stage |-> IF k = 1 THEN control ELSE stage[k - 1]]

\* Which reset reaches a buffer.  Those of the test system have that of the bus.
ResetOf(b) ==
    CASE b = Quartet -> control.reset
      [] b \in {PE(e) : e \in Elements} -> AtElement.reset
      [] OTHER -> FALSE

ClockBuffers ==
    buffer' = [b \in Buffers |->
                  BufferStep(buffer[b], ResetOf(b), Offered(b), Popped(b), Asked(b), Answered(b))]

-----------------------------------------------------------------------------
(* The cores.  An operation asks the memory for a word, sends on one of the  *)
(* channels to the write port, or halts.                                    *)

Ask(a)        == [op |-> "send", to |-> "readIndex", value |-> a]
SendIndex(a)  == [op |-> "send", to |-> "writeIndex", value |-> a]
SendData(v)   == [op |-> "send", to |-> "writeData", value |-> v]
Forwarding    == [op |-> "forward", to |-> "writeData", value |-> 0]
Idle          == [op |-> "nop"]
Halt          == [op |-> "halt"]

Outgoing == {"readIndex", "writeIndex", "writeData"}

Operation(e) == program[e][core[e].step]

\* A core that is enabled and has not halted triggers its next instruction when the
\* channels allow it.
Triggers(e) ==
    /\ AtCore.enable /\ AtCore.execute /\ core[e].enabled /\ ~core[e].halted
    /\ Operation(e).op = "forward" => channel["readData"] # << >>
    /\ Operation(e).op \in {"send", "forward"} => Len(channel[Operation(e).to]) < Depth

Channels == DOMAIN channel

\* The host's words reach a core that is enabled; then the host has priority.
Loaded(e, words, base) ==
    [i \in DOMAIN words |->
        IF AtCore.enable /\ \E w \in Offered(Core(e)) : w.index = base + i
        THEN (CHOOSE w \in Offered(Core(e)) : TRUE).data ELSE words[i]]

ClockCores ==
    core' = [e \in Elements |->
      [registers    |-> Loaded(e, core[e].registers, CounterWords),
       instructions |-> Loaded(e, core[e].instructions, CounterWords + RegisterWords),
       enabled      |-> AtCore.enable /\ AtCore.execute /\ ~core[e].halted,
       step         |-> IF AtCore.reset THEN 1
                        ELSE IF Triggers(e) /\ Operation(e).op # "halt" THEN core[e].step + 1
                        ELSE core[e].step,
       halted       |-> ~AtCore.reset /\ (core[e].halted \/ (Triggers(e) /\ Operation(e).op = "halt")),
       quiescent    |-> IF AtCore.reset THEN FALSE
                        ELSE IF ~AtCore.enable THEN core[e].quiescent
                        ELSE \A n \in Channels : Owner(n) = e => channel[n] = << >>]]

\* halted and channels_quiescent are registered by the element and by the quartet.
ClockRaised ==
    LET halted(e)    == core[e].halted
        quiescent(e) == core[e].quiescent
    IN  raised' = IF System = "element"
                  THEN [halted |-> halted(0), quiescent |-> quiescent(0), elements |-> {}]
                  ELSE [halted    |-> raised.elements = Elements,
                        quiescent |-> FALSE,
                        elements  |-> {e \in Elements : halted(e)}]

-----------------------------------------------------------------------------
(* The channels between the elements and the memory, and the memory.        *)

IsFull(q)        == Len(q) = Depth
Rest(q, popped) == IF popped /\ q # << >> THEN Tail(q) ELSE q
If(condition, q) == IF condition THEN q ELSE << >>

ClockChannels ==
    channel' = [n \in Channels |->
      IF AtCore.reset THEN << >>
      ELSE IF ~AtCore.enable THEN channel[n]
      ELSE IF n \in Outgoing
      THEN Rest(channel[n], ~IsFull(port[n]))
             \o LET e == Owner(n)
                IN  If(Triggers(e) /\ Operation(e).op \in {"send", "forward"} /\ Operation(e).to = n,
                       << IF Operation(e).op = "forward" THEN Head(channel["readData"])
                          ELSE Operation(e).value >>)
      ELSE Rest(channel[n], Triggers(Owner(n)) /\ Operation(Owner(n)).op = "forward")
             \o If(port[n] # << >> /\ ~IsFull(channel[n]), << Head(port[n]) >>)]

Writing == port["writeIndex"] # << >> /\ port["writeData"] # << >>

ClockPorts ==
    port' = [n \in Channels |->
      IF control.reset THEN << >>
      ELSE IF n = "readData"
      THEN Rest(port[n], ~IsFull(channel[n])) \o If(memory.answering, << memory.out >>)
      ELSE Rest(port[n], IF n = "readIndex" THEN memory.answering ELSE Writing)
             \o If(channel[n] # << >> /\ ~IsFull(port[n]), << Head(channel[n]) >>)]

\* The host's index goes before the port's, and its write before that of the port.
\* A word the RAM puts out for nobody is left out.  What is written where there is no
\* word is lost, what is read there is left open.
ClockMemory ==
    LET offered == Offered(Ram)
        asked   == Asked(Ram)
    IN  memory' = [
          ram       |-> IF offered # {}
                        THEN LET w == CHOOSE w \in offered : TRUE
                             IN  [memory.ram EXCEPT ![w.index] = w.data]
                        ELSE IF Writing
                        THEN [memory.ram EXCEPT ![Head(port["writeIndex"]) % Reach] =
                                 Head(port["writeData"])]
                        ELSE memory.ram,
          out       |-> IF asked # {} THEN memory.ram[CHOOSE i \in asked : TRUE]
                        ELSE IF port["readIndex"] = << >> THEN 0
                        ELSE memory.ram[Head(port["readIndex"]) % Reach],
          ack       |-> ~control.reset /\ (IF asked = {} THEN memory.ack ELSE ~memory.ack),
          answering |-> /\ ~control.reset /\ ~memory.answering
                        /\ port["readIndex"] # << >> /\ ~IsFull(port["readData"]),
          quiescent |-> ~control.reset /\ \A n \in Channels : port[n] = << >>]

-----------------------------------------------------------------------------
Off == [reset |-> FALSE, enable |-> FALSE, execute |-> FALSE]
On  == [reset |-> FALSE, enable |-> TRUE, execute |-> TRUE]

\* The device is as the bus's reset has left it, or still at work: an earlier host
\* program was interrupted.
Init ==
    /\ program \in {p \in [Elements -> UNION {Programs[e] : e \in Elements}] :
                       \A e \in Elements : p[e] \in Programs[e]}
    /\ driver = [at |-> 1, address |-> FALSE, data |-> FALSE, output |-> << >>,
                 interrupted |-> FALSE, status |-> "running"]
    /\ axi = [awvalid |-> FALSE, wvalid |-> FALSE, wready |-> FALSE, write_address |-> 0,
              write_data |-> 0, write_req |-> FALSE, bvalid |-> FALSE, arvalid |-> FALSE,
              arready |-> FALSE, read_address |-> 0, read_req |-> FALSE, rvalid |-> FALSE,
              rdata |-> 0]
    /\ buffer = [b \in Buffers |-> EmptyBuffer]
    /\ control \in {Off, On}
    /\ stage = [k \in 1 .. (IF System = "element" THEN 1 ELSE 2) |-> control]
    /\ core = [e \in Elements |->
                  [registers |-> [i \in 0 .. RegisterWords - 1 |-> 0],
                   instructions |-> [i \in 0 .. InstructionWords - 1 |-> 0],
                   enabled |-> control.enable, step |-> 1, halted |-> FALSE,
                   quiescent |-> control.enable]]
    /\ raised = [halted |-> FALSE, quiescent |-> FALSE, elements |-> {}]
    /\ channel = [n \in Outgoing \cup {"readData"} |-> << >>]
    /\ port = [n \in Channels |-> << >>]
    /\ memory = [ram |-> [i \in 0 .. Size - 1 |-> 0], out |-> 0, ack |-> FALSE,
                 answering |-> FALSE, quiescent |-> TRUE]

\* The host puts the address, or the data, of its next access on the bus.
IssueAddress ==
    /\ Running /\ ~driver.address
    /\ driver' = [driver EXCEPT !.address = TRUE]
    /\ axi' = IF Access.kind = "write" THEN [axi EXCEPT !.awvalid = TRUE]
              ELSE [axi EXCEPT !.arvalid = TRUE]
    /\ UNCHANGED << program, buffer, control, stage, core, raised, channel, port, memory >>

IssueData ==
    /\ Running /\ ~driver.data /\ Access.kind = "write"
    /\ driver' = [driver EXCEPT !.data = TRUE]
    /\ axi' = [axi EXCEPT !.wvalid = TRUE]
    /\ UNCHANGED << program, buffer, control, stage, core, raised, channel, port, memory >>

\* keyboard_interrupt_handler
Interrupt ==
    /\ Running /\ driver.at >= HandlerInstalled /\ ~driver.interrupted
    /\ driver' = [driver EXCEPT !.interrupted = TRUE]
    /\ UNCHANGED << program, hardware >>

Clock ==
    /\ ClockBridge /\ ClockDriver /\ ClockControl /\ ClockStages /\ ClockBuffers
    /\ ClockCores /\ ClockRaised /\ ClockChannels /\ ClockPorts /\ ClockMemory
    /\ UNCHANGED program

Next == IssueAddress \/ IssueData \/ Interrupt \/ Clock

\* The clock ticks, and the host program goes on.
Fairness == WF_vars(Clock) /\ WF_vars(IssueAddress) /\ WF_vars(IssueData)

Spec == Init /\ [][Next]_vars /\ Fairness

-----------------------------------------------------------------------------
(* Properties.                                                             *)

Executing == AtCore.enable /\ AtCore.execute

HasProgram(e) ==
    /\ \A i \in DOMAIN core[e].registers : core[e].registers[i] = Word(e, i)
    /\ \A i \in DOMAIN core[e].instructions :
           core[e].instructions[i] = Word(e, RegisterWords + i)
HasInputs == \A i \in 1 .. Len(Inputs) : memory.ram[i - 1] = Inputs[i]

\* Once the host program has reset the device, an element that executes has the
\* words of its program in its registers and instructions, and before it has done
\* anything the memory has the input data: no write was lost to reset or enable on
\* their way, none is late, none went elsewhere.
LandedBeforeExecution ==
    driver.at > Len(reset_system) =>
        \A e \in Elements :
            Executing => HasProgram(e) /\ (core[e].step = 1 => HasInputs)

\* What the program of element 0 leaves in the memory, on paper: the words that are
\* known, the answers not yet forwarded, and the index that waits for its data.
Blank == [ram |-> [i \in 0 .. Len(Inputs) - 1 |-> Inputs[i + 1]],
          answers |-> << >>, index |-> 0, open |-> FALSE]

Stored(ram, a, v) == [i \in DOMAIN ram \cup {a} |-> IF i = a THEN v ELSE ram[i]]

Effect(state, operation) ==
    CASE operation.op \in {"nop", "halt"} -> state
      [] operation.op = "send" /\ operation.to = "readIndex" ->
            [state EXCEPT !.answers = Append(@, state.ram[operation.value])]
      [] operation.op = "send" /\ operation.to = "writeIndex" ->
            [state EXCEPT !.index = operation.value, !.open = TRUE]
      [] operation.op = "send" /\ operation.to = "writeData" ->
            [state EXCEPT !.ram = Stored(@, state.index, operation.value), !.open = FALSE]
      [] operation.op = "forward" ->
            [state EXCEPT !.ram = Stored(@, state.index, Head(state.answers)),
                          !.answers = Tail(@), !.open = FALSE]

\* After the first k operations.
Paper(p) ==
    LET state[k \in 0 .. Len(p)] == IF k = 0 THEN Blank ELSE Effect(state[k - 1], p[k])
    IN  state

Outcome == Paper(program[0])[Len(program[0])].ram

\* The programs that have an outcome: they ask for input data, which they leave as they
\* are, give every index its data before the next one, and every result a value.
Orderly(state, operation) ==
    \/ operation = Idle
    \/ operation \in [op : {"send"}, to : {"readIndex"}, value : 0 .. Len(Inputs) - 1]
    \/ ~state.open /\ operation \in
          [op : {"send"}, to : {"writeIndex"}, value : Len(Inputs) .. Size - 1]
    \/ state.open /\ operation \in [op : {"send"}, to : {"writeData"}, value : Nat]
    \/ state.open /\ state.answers # << >> /\ operation = Forwarding
WellFormed(p) ==
    /\ Len(p) \in Nat \ {0} /\ DOMAIN p = 1 .. Len(p)
    /\ p[Len(p)] = Halt
    /\ \A k \in 1 .. Len(p) - 1 : Orderly(Paper(p)[k - 1], p[k])
    /\ \A j \in 1 .. NumOutputs : Len(Inputs) + j - 1 \in DOMAIN Paper(p)[Len(p)].ram

\* The word of the memory the host program takes for word k of the data.
Place(k) == SystemMapper(DataBase + k).index

\* What the host program reads is so: the input data are in place, and unless it was
\* interrupted every result it has retrieved is what the memory holds from then on.
\* No read overtakes a posted write, and halted is not seen before the last packet has
\* arrived.
ReadsShowMemory ==
    /\ driver.status # "failed"
    /\ ~driver.interrupted =>
          \A j \in 1 .. Len(driver.output) :
              driver.output[j] = memory.ram[Place(Len(Inputs) + j - 1)]

\* Unless it was interrupted, the host program retrieves what the program computes from
\* the input data.
ResultsAreRead ==
    ~driver.interrupted =>
        \A j \in 1 .. Len(driver.output) : driver.output[j] = Outcome[Len(Inputs) + j - 1]

\* The host program comes to its end: every access is acknowledged, and halted is
\* seen after every element has halted.
DriverFinishes == <>(driver.status = "done")

\* "If performance counters are enabled, report pipeline behavior back to the user": a
\* host program that has come to the counters of its elements reports all of them.
CountersAreReported == (Running /\ Access.kind = "count") ~> driver.status = "done"
=============================================================================
