------------------------------ MODULE HostBus ------------------------------
(***************************************************************************)
(* The bus between the host and a test system: the memory map as the host  *)
(* programs compute it and as the hardware decodes it, and the tree of     *)
(* MMIO buffers an access goes through on its way to a register or a word. *)
(***************************************************************************)
EXTENDS Integers, Sequences

CONSTANTS
    System,           \* the test system: "element" or "quartet"
    CounterWords,     \* debug monitor and performance counters of an element
    RegisterWords,    \* words of its register file
    InstructionWords, \* words of its instruction memory
    Size              \* TIA_NUM_DATA_MEMORY_WORDS

ASSUME BusAssumption ==
    /\ System \in {"element", "quartet"}
    /\ {CounterWords, RegisterWords, InstructionWords, Size} \subseteq Nat \ {0}

Elements == IF System = "element" THEN {0} ELSE 0 .. 3

\* The system control registers, from index 0 up.
ResetReg   == 0
EnableReg  == 1
ExecuteReg == 2
HaltedReg  == 3
NumControlRegisters == 4

\* The address space of one element, as its own mappers and the splitter of a
\* quartet divide it, and as the host programs count it.
ElementWords == CounterWords + RegisterWords + InstructionWords

-----------------------------------------------------------------------------
(* The map of the host programs: indices from the base of the control       *)
(* registers.                                                              *)

ElementBase(e) == NumControlRegisters + e * ElementWords
DataBase == ElementBase(IF System = "element" THEN 1 ELSE 4)

-----------------------------------------------------------------------------
(* The map of the hardware.  Buffers and devices, with a number where there *)
(* are several.                                                            *)

Host     == <<"host buffer", 0>>
Control  == <<"control buffer", 0>>
Array    == <<"array buffer", 0>>      \* peimb, or qimb
Quartet  == <<"quartet buffer", 0>>
Memory   == <<"memory buffer", 0>>
PE(e)    == <<"element buffer", e>>
Buffers  == {Host, Control, Array, Memory} \cup {PE(e) : e \in Elements}
                \cup (IF System = "element" THEN {} ELSE {Quartet})

Registers == <<"control registers", 0>>
Ram       == <<"ram", 0>>
Core(e)   == <<"core", e>>
Nobody    == <<"nobody", 0>>

\* Mutant of ArrayBound: the quartet's sum for one element.
ArrayBoundWithoutRegisters ==
    NumControlRegisters + (IF System = "element" THEN 1 ELSE 4) * (CounterWords + InstructionWords)

\* What the mapper of the test system gives the elements: for a quartet it adds up
\* the parts of four elements and leaves out the register files.
ArrayBound ==
    IF System = "element" THEN NumControlRegisters + ElementWords
    ELSE NumControlRegisters + 4 * (CounterWords + InstructionWords)

Mapped(to, index) == [to |-> to, index |-> index]

\* The mapper of the test system.
SystemMapper(index) ==
    CASE index < NumControlRegisters -> Mapped(Control, index)
      [] index \in NumControlRegisters .. ArrayBound - 1 ->
            Mapped(Array, index - NumControlRegisters)
      [] index \in ArrayBound .. ArrayBound + Size - 1 -> Mapped(Memory, index - ArrayBound)
      [] OTHER -> Mapped(Nobody, index)

\* four_way_address_space_splitter.
Splitter(index) ==
    IF index < 4 * ElementWords THEN Mapped(PE(index \div ElementWords), index % ElementWords)
    ELSE Mapped(Nobody, index)

\* What an access leaving a buffer reaches, and under which index.
Forward(b, index) ==
    CASE b = Host    -> SystemMapper(index)
      [] b = Control -> Mapped(Registers, index)
      [] b = Memory  -> Mapped(Ram, index)
      [] b = Array   -> Mapped(IF System = "element" THEN PE(0) ELSE Quartet, index)
      [] b = Quartet -> Splitter(index)
      [] OTHER       -> IF index < ElementWords THEN Mapped(Core(b[2]), index)
                        ELSE Mapped(Nobody, index)

\* The buffer whose device side a buffer or device is on.
Upstream(d) ==
    CASE d \in {Control, Array, Memory} -> Host
      [] d = Registers -> Control
      [] d = Ram       -> Memory
      [] d = Quartet   -> Array
      [] d \in {Core(e) : e \in Elements} -> PE(d[2])
      [] OTHER         -> IF System = "element" THEN Array ELSE Quartet

-----------------------------------------------------------------------------
(* mmio_buffer: a queue of two posted writes, and one read at a time.       *)

WriteFifoDepth == 2

EmptyBuffer == [writes |-> << >>, reading |-> FALSE, index |-> 0, ack |-> FALSE, data |-> 0]

HasRoom(buffer) == Len(buffer.writes) # WriteFifoDepth

\* The write channel: what is offered is a set of at most one write, popped says
\* that the device has acknowledged the oldest one.
WriteChannel(buffer, offered, popped) ==
    LET rest == IF popped THEN Tail(buffer.writes) ELSE buffer.writes
    IN  IF offered = {} \/ ~HasRoom(buffer) THEN rest
        ELSE Append(rest, CHOOSE w \in offered : TRUE)

\* Mutant of ReadChannel: a read is acknowledged as it is passed on.
ReadChannelWithoutWaiting(buffer, asked, answer) ==
    IF asked = {} THEN buffer
    ELSE IF buffer.ack THEN [buffer EXCEPT !.ack = FALSE]
    ELSE IF ~buffer.reading
    THEN [buffer EXCEPT !.reading = TRUE, !.index = CHOOSE i \in asked : TRUE]
    ELSE [buffer EXCEPT !.reading = FALSE, !.ack = TRUE,
                        !.data = IF answer = {} THEN @ ELSE CHOOSE d \in answer : TRUE]

\* The read channel: asked is a set of at most one index, answer the data of a
\* device that acknowledges, as a set of at most one.
ReadChannel(buffer, asked, answer) ==
    IF asked = {} THEN buffer
    ELSE IF buffer.ack THEN [buffer EXCEPT !.ack = FALSE]
    ELSE IF ~buffer.reading
    THEN [buffer EXCEPT !.reading = TRUE, !.index = CHOOSE i \in asked : TRUE]
    ELSE IF answer = {} THEN buffer
    ELSE [buffer EXCEPT !.reading = FALSE, !.ack = TRUE, !.data = CHOOSE d \in answer : TRUE]

\* One edge.
BufferStep(buffer, reset, offered, popped, asked, answer) ==
    IF reset THEN EmptyBuffer
    ELSE [ReadChannel(buffer, asked, answer) EXCEPT
             !.writes = WriteChannel(buffer, offered, popped)]
=============================================================================
