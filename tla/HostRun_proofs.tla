-------------------------- MODULE HostRun_proofs --------------------------
(***************************************************************************)
(* Proofs about HostRun, for one element with any program, any input data,  *)
(* any number of words in its register file, its instruction memory and     *)
(* its data memory: what the host has written has landed before the element *)
(* executes, although a write is posted and nobody waits for it to arrive;  *)
(* and what the host reads is what the memory holds and goes on to hold.    *)
(*                                                                         *)
(* The argument is about time.  The host waits for the response to a write, *)
(* which comes when the first buffer has taken it.  Behind that buffer the  *)
(* write needs at most three more cycles to take effect, and the next       *)
(* access at least four to come as far, so there is at most one write       *)
(* behind the first buffer, and none when the next one gets there.          *)
(*                                                                         *)
(* The reads come later and need no time: a read on the bus finds every      *)
(* write landed, one access is on the bus at a time, and halted reaches the  *)
(* host over registers that between them have seen every channel empty.     *)
(*                                                                         *)
(* What the element computes is last.  Its program is also run on paper, an *)
(* operation at a time; the memory and the paper differ by the words on     *)
(* their way, which arrive in the order they were sent, and by nothing once *)
(* the element has halted and its channels are empty.                      *)
(***************************************************************************)
EXTENDS HostRun, SequenceTheorems, FiniteSetTheorems, TLAPS

-----------------------------------------------------------------------------
(* The invariant.                                                          *)

Names == Outgoing \cup {"readData"}

\* The position in Main of the write that starts the element.
Begin == 4 + RegisterWords + InstructionWords + 2 * Len(Inputs)

IsWrite(n) == n \in 1 .. Len(Main) /\ Main[n].kind = "write"

\* Write n as it is in the first buffer, the buffer it goes to next, and as it is there.
Posted(n)    == [index |-> Main[n].index, data |-> Main[n].data]
FirstStop(n) == Forward(Host, Main[n].index).to
Passed(n)    == [index |-> Forward(Host, Main[n].index).index, data |-> Main[n].data]

Shaped ==
    /\ DOMAIN driver = {"at", "address", "data", "output", "interrupted", "status"}
    /\ DOMAIN axi = {"awvalid", "wvalid", "wready", "write_address", "write_data", "write_req",
                     "bvalid", "arvalid", "arready", "read_address", "read_req", "rvalid",
                     "rdata"}
    /\ DOMAIN buffer = Buffers
    /\ \A b \in Buffers : DOMAIN buffer[b] = DOMAIN EmptyBuffer
    /\ DOMAIN control = {"reset", "enable", "execute"}
    /\ stage = << stage[1] >>
    /\ DOMAIN core[0].registers = 0 .. RegisterWords - 1
    /\ DOMAIN core[0].instructions = 0 .. InstructionWords - 1
    /\ core[0].step \in Nat \ {0}
    /\ DOMAIN channel = Names
    /\ DOMAIN port = Names
    /\ DOMAIN memory.ram = 0 .. Size - 1

\* The host program, and the access it has on the bus: a write whose address and data
\* go ahead together and become a request, or a read.
HostTurn ==
    /\ driver.at \in 1 .. Len(Main) + 1
    /\ Running => driver.at <= Len(Main)
    /\ driver.address => Running
    /\ driver.data => Running /\ Access.kind = "write"
WriteTurn ==
    /\ axi.awvalid => driver.address /\ Access.kind = "write"
    /\ axi.wvalid => driver.data
    /\ axi.wready => axi.awvalid /\ axi.wvalid /\ axi.write_address = Access.index
    /\ axi.write_req =>
          /\ driver.address /\ driver.data
          /\ ~axi.awvalid /\ ~axi.wvalid /\ ~axi.bvalid
          /\ axi.write_address = Access.index /\ axi.write_data = Access.data
    /\ axi.bvalid => driver.address /\ driver.data /\ ~axi.awvalid /\ ~axi.wvalid
ReadTurn ==
    /\ axi.arvalid \/ axi.arready \/ axi.read_req \/ axi.rvalid =>
          driver.address /\ Access.kind # "write"
    /\ axi.read_req => axi.arready /\ ~axi.arvalid
    /\ axi.rvalid => ~axi.read_req /\ ~axi.arready /\ ~axi.arvalid
    /\ axi.arvalid /\ axi.arready => ~axi.rvalid
HostQueue ==
    buffer[Host].writes = IF axi.bvalid THEN << Posted(driver.at) >> ELSE << >>

Turns == HostTurn /\ WriteTurn /\ ReadTurn /\ HostQueue

\* How far the bridge can be with the next access so many cycles after a response.
Fresh0 == ~axi.wready /\ ~axi.write_req /\ ~axi.bvalid /\ ~axi.arready /\ ~axi.read_req /\ ~axi.rvalid
Fresh1 == ~axi.write_req /\ ~axi.bvalid /\ ~axi.read_req /\ ~axi.rvalid
Fresh2 == ~axi.bvalid /\ ~axi.rvalid

\* Nothing is on its way between the element and the memory.
AtRest ==
    /\ \A n \in Names : channel[n] = << >> /\ port[n] = << >>
    /\ ~memory.answering
\* The element has not done anything before the signals say so.
Waiting ==
    /\ core[0].step = 1 => AtRest
    /\ ~AtCore.execute => core[0].step = 1

\* The signals are those the first n accesses ask for.
Gives(signals, n) ==
    (signals.reset <=> n = 1) /\ (signals.enable <=> n >= 3) /\ (signals.execute <=> n >= Begin)

\* Everything else that is written by the first n accesses.
Words(n) ==
    /\ \A i \in 0 .. RegisterWords - 1 :
           4 + i <= n => core[0].registers[i] = Word(0, i)
    /\ \A i \in 0 .. InstructionWords - 1 :
           4 + RegisterWords + i <= n => core[0].instructions[i] = Word(0, RegisterWords + i)
    /\ core[0].step = 1 =>
          \A i \in 1 .. Len(Inputs) :
              3 + RegisterWords + InstructionWords + i <= n => memory.ram[i - 1] = Inputs[i]
Signals(n) ==
    IF n = 0 THEN ~control.reset
    ELSE Gives(control, n) /\ Gives(AtCore, n) /\ Waiting
Landed(n) == Words(n) /\ Signals(n)

\* The writes behind the first buffer.
Behind == {Control, Array, Memory, PE(0)}
Nothing == \A b \in Behind : buffer[b].writes = << >>
Only(there, w) ==
    /\ buffer[there].writes = << w >>
    /\ \A b \in Behind \ {there} : buffer[b].writes = << >>

\* All of the n accesses have landed; or the last one is in the second buffer; in that
\* of the element; in the control registers; or, a reset, about to clear the element.
Done(n)      == Nothing /\ Landed(n)
Crossing(n)  == IsWrite(n) /\ Only(FirstStop(n), Passed(n)) /\ Landed(n - 1)
Entering(n)  == IsWrite(n) /\ FirstStop(n) = Array /\ Only(PE(0), Passed(n)) /\ Landed(n - 1)
Switching(n) == /\ IsWrite(n) /\ FirstStop(n) = Control /\ Nothing
                /\ IF n = 1 THEN control.reset
                   ELSE /\ Gives(control, n) /\ Gives(AtCore, n - 1)
                        /\ Waiting /\ Words(n - 1)
Clearing(n)  == n = 1 /\ Nothing /\ Gives(control, 1) /\ AtCore.reset

Progress ==
    \/ Done(driver.at - 1)
    \/ Fresh0 /\ Crossing(driver.at - 1)
    \/ Fresh1 /\ (Entering(driver.at - 1) \/ Switching(driver.at - 1))
    \/ Fresh2 /\ Clearing(driver.at - 1)

RunInv == Shaped /\ Turns /\ Progress

-----------------------------------------------------------------------------
(* The invariant of the reads.                                             *)

\* Nothing more comes to the write port; and nothing will, ever.
Drained == channel["writeIndex"] = << >> /\ channel["writeData"] = << >>
Emptied == port["writeIndex"] = << >> /\ port["writeData"] = << >>
Final   == core[0].halted /\ Drained /\ Emptied

\* What the registers between the channels and the host say is so when it arrives.
Quieting ==
    /\ core[0].halted /\ core[0].quiescent => Drained
    /\ raised.halted /\ raised.quiescent => Drained
    /\ raised.halted /\ raised.quiescent /\ memory.quiescent => Emptied

\* The reset has cleared halted by the time of its response, and halted means this run.
Cleared ==
    /\ driver.at = 2 =>
          \/ Done(1) /\ ~core[0].halted
          \/ Fresh0 /\ Crossing(1)
          \/ Fresh1 /\ Switching(1)
          \/ Fresh2 /\ Clearing(1)
    /\ driver.at >= 3 =>
          /\ AtCore.reset => ~core[0].halted
          /\ raised.halted => core[0].halted

\* A read on its way: each buffer asks the next one until that has answered.
Stop   == Forward(Host, Access.index)
Pathed ==
    /\ axi.arready => axi.read_address = Access.index
    /\ buffer[Host].reading \/ buffer[Host].ack => axi.read_req
    /\ buffer[Host].reading => ~buffer[Host].ack /\ buffer[Host].index = Access.index
    /\ \A b \in {Control, Memory} :
          /\ buffer[b].reading \/ buffer[b].ack => buffer[Host].reading /\ Stop.to = b
          /\ buffer[b].reading => ~buffer[b].ack /\ buffer[b].index = Stop.index
    /\ memory.ack => buffer[Memory].reading

\* The answer to the access in progress.
Truthful(value) ==
    /\ Access.kind = "check" => value = Access.data
    /\ Access.kind = "poll" => value = 0 \/ Final
    /\ Access.kind = "read" /\ ~driver.interrupted => value = memory.ram[Stop.index]
Answers ==
    /\ memory.ack => Truthful(memory.out)
    /\ \A b \in {Host, Control, Memory} : buffer[b].ack => Truthful(buffer[b].data)
    /\ axi.rvalid => Truthful(axi.rdata)

\* The number of results retrieved before access n.
Retrieved(n) ==
    IF n <= Begin + 2 THEN 0
    ELSE IF n <= Begin + 2 + NumOutputs THEN n - (Begin + 2) ELSE NumOutputs

Results ==
    /\ driver.status # "failed"
    /\ driver.output \in Seq({driver.output[j] : j \in DOMAIN driver.output})
    /\ Len(driver.output) = Retrieved(driver.at)
    /\ ~driver.interrupted /\ driver.at > Begin + 1 => Final
    /\ ~driver.interrupted =>
          \A j \in 1 .. Retrieved(driver.at) : driver.output[j] = memory.ram[Len(Inputs) + j - 1]

ReadInv == Quieting /\ Cleared /\ Pathed /\ Answers /\ Results

-----------------------------------------------------------------------------
(* The tree of buffers.                                                    *)

\* The buffers of one element are five, and no two of them or of the devices are one.
LEMMA BuffersDiffer ==
    ASSUME System = "element"
    PROVE  /\ Elements = {0}
           /\ Buffers = {Host} \cup Behind
           /\ Host \notin Behind /\ Control # Array /\ Control # Memory /\ Array # Memory
           /\ PE(0) \notin {Control, Array, Memory}
           /\ {Registers, Ram, Core(0), Nobody} \cap Buffers = {}
           /\ Registers # Ram /\ Registers # Core(0) /\ Registers # Nobody
           /\ Ram # Core(0) /\ Ram # Nobody /\ Core(0) # Nobody
           /\ Quartet \notin Buffers \cup {Registers, Ram, Core(0), Nobody}
<1>1. /\ Host[1] = "host buffer" /\ Control[1] = "control buffer" /\ Array[1] = "array buffer"
      /\ Quartet[1] = "quartet buffer" /\ Memory[1] = "memory buffer"
      /\ PE(0)[1] = "element buffer" /\ Registers[1] = "control registers"
      /\ Ram[1] = "ram" /\ Core(0)[1] = "core" /\ Nobody[1] = "nobody"
  BY DEF Host, Control, Array, Quartet, Memory, PE, Registers, Ram, Core, Nobody
<1>2. Elements = {0}
  BY DEF Elements
<1>3. Buffers = {Host} \cup Behind
  BY <1>2 DEF Buffers, Behind
<1>4. /\ Host \notin Behind /\ Control # Array /\ Control # Memory /\ Array # Memory
      /\ PE(0) \notin {Control, Array, Memory}
      /\ Registers # Ram /\ Registers # Core(0) /\ Registers # Nobody
      /\ Ram # Core(0) /\ Ram # Nobody /\ Core(0) # Nobody
  BY <1>1 DEF Behind
<1>5. \A d \in {Registers, Ram, Core(0), Nobody, Quartet} : d \notin Buffers
  BY <1>1, <1>3 DEF Behind
<1>6. Quartet \notin {Registers, Ram, Core(0), Nobody}
  BY <1>1
<1> QED
  BY <1>2, <1>3, <1>4, <1>5, <1>6

\* Who is behind whom.
LEMMA TreeOfBuffers ==
    ASSUME System = "element"
    PROVE  /\ Upstream(Control) = Host /\ Upstream(Array) = Host /\ Upstream(Memory) = Host
           /\ Upstream(PE(0)) = Array
           /\ Upstream(Registers) = Control /\ Upstream(Ram) = Memory
           /\ Upstream(Core(0)) = PE(0)
           /\ \A i : Forward(Control, i) = Mapped(Registers, i)
           /\ \A i : Forward(Memory, i) = Mapped(Ram, i)
           /\ \A i : Forward(Array, i) = Mapped(PE(0), i)
           /\ \A i : Forward(Host, i) = SystemMapper(i)
           /\ \A i : Forward(PE(0), i) = IF i < ElementWords THEN Mapped(Core(0), i)
                                         ELSE Mapped(Nobody, i)
<1>1. Core(0)[2] = 0 /\ PE(0)[2] = 0
  BY DEF Core, PE
<1>2. /\ Elements = {0}
      /\ \A d \in {Host, Control, Array, Memory, PE(0), Registers, Ram, Core(0)} : d # Quartet
      /\ Core(0) \notin {Control, Array, Memory, Registers, Ram}
      /\ PE(0) \notin {Control, Array, Memory, Registers, Ram, Core(0)}
      /\ Host \notin {Control, Array, Memory, PE(0)}
      /\ Control # Array /\ Control # Memory /\ Array # Memory
      /\ Registers \notin {Control, Array, Memory, Ram} /\ Ram \notin {Control, Array, Memory}
  BY BuffersDiffer DEF Buffers, Behind
<1>3. /\ {Core(e) : e \in Elements} = {Core(0)}
  BY <1>2
<1>4. /\ Upstream(Control) = Host /\ Upstream(Array) = Host /\ Upstream(Memory) = Host
  <2>1. \A d \in {Control, Array, Memory} : d \notin {Registers, Ram, Quartet, Core(0)}
    BY <1>2
  <2>2. \A d \in {Control, Array, Memory} : Upstream(d) = Host
    BY <1>3, <2>1 DEF Upstream
  <2> QED
    BY <2>2
<1>5. Upstream(Registers) = Control /\ Upstream(Ram) = Memory
  BY <1>2 DEF Upstream
<1>6. Upstream(Core(0)) = PE(0)
  BY <1>1, <1>2, <1>3 DEF Upstream
<1>7. Upstream(PE(0)) = Array
  BY <1>1, <1>2, <1>3 DEF Upstream
<1>8. /\ \A i : Forward(Control, i) = Mapped(Registers, i)
      /\ \A i : Forward(Memory, i) = Mapped(Ram, i)
      /\ \A i : Forward(Array, i) = Mapped(PE(0), i)
      /\ \A i : Forward(Host, i) = SystemMapper(i)
  <2> SUFFICES ASSUME NEW i
               PROVE  /\ Forward(Control, i) = Mapped(Registers, i)
                      /\ Forward(Memory, i) = Mapped(Ram, i)
                      /\ Forward(Array, i) = Mapped(PE(0), i)
                      /\ Forward(Host, i) = SystemMapper(i)
    OBVIOUS
  <2>1. Forward(Control, i) = Mapped(Registers, i)
    BY <1>2 DEF Forward
  <2>2. Forward(Memory, i) = Mapped(Ram, i)
    BY <1>2 DEF Forward
  <2>3. Forward(Array, i) = Mapped(PE(0), i)
    BY <1>2 DEF Forward
  <2>4. Forward(Host, i) = SystemMapper(i)
    BY <1>2 DEF Forward
  <2> QED
    BY <2>1, <2>2, <2>3, <2>4
<1>9. \A i : Forward(PE(0), i) = IF i < ElementWords THEN Mapped(Core(0), i)
                                 ELSE Mapped(Nobody, i)
  BY <1>1, <1>2 DEF Forward
<1> QED
  BY <1>4, <1>5, <1>6, <1>7, <1>8, <1>9

\* All channels to and from the memory are those of the only element.
LEMMA OneOwner == ASSUME System = "element" PROVE \A n : Owner(n) = 0
  BY DEF Owner

-----------------------------------------------------------------------------
(* The host program.                                                       *)

\* An access of a host program.
Accesses == [kind : {"write", "check", "poll", "read", "count"}, index : Int, data : Int]

LEMMA Amounts ==
    /\ CounterWords \in Nat /\ RegisterWords \in Nat /\ InstructionWords \in Nat
    /\ CounterWords > 0 /\ RegisterWords > 0 /\ InstructionWords > 0
    /\ Size \in Nat /\ Size > 0 /\ NumOutputs \in Nat /\ Len(Inputs) \in Nat
    /\ Len(Inputs) <= Size /\ Len(Inputs) + NumOutputs <= Size
    /\ Reach \in Nat /\ Size <= Reach
    /\ \A i \in 1 .. Len(Inputs) : Inputs[i] \in Nat
<1>1. Inputs \in Seq(Nat) /\ NumOutputs \in Nat /\ Len(Inputs) + NumOutputs <= Size
  BY RunAssumption, Zenon
<1>2. Len(Inputs) \in Nat /\ \A i \in 1 .. Len(Inputs) : Inputs[i] \in Nat
  BY <1>1, LenProperties, ElementOfSeq
<1>3. Reach \in Nat /\ Size <= Reach
  BY RunAssumption, Zenon
<1> QED
  BY <1>1, <1>2, <1>3, BusAssumption

\* Doing something for each element is doing it for the only one.
LEMMA ForTheElement ==
    ASSUME System = "element"
    PROVE  /\ ForEachElement(write_processing_element_program) = write_processing_element_program(0)
           /\ ForEachElement(build_processing_element_results) = build_processing_element_results(0)
<1>1. ASSUME NEW s PROVE FlattenSeq([k \in 1 .. 1 |-> s]) = s
  <2> DEFINE one == [k \in 1 .. 1 |-> s]
             flatten == CHOOSE f : f = [i \in 1 .. Len(one) |->
                           IF i = 1 THEN one[i] ELSE f[i - 1] \o one[i]]
  <2>1. Len(one) = 1 /\ one[1] = s
    OBVIOUS
  <2>2. \E f : f = [i \in 1 .. Len(one) |-> IF i = 1 THEN one[i] ELSE f[i - 1] \o one[i]]
    <3> WITNESS one
    <3> QED
      BY <2>1
  <2>3. flatten = [i \in 1 .. Len(one) |-> IF i = 1 THEN one[i] ELSE flatten[i - 1] \o one[i]]
    BY <2>2
  <2>4. flatten[1] = s
    BY <2>1, <2>3
  <2> QED
    BY <2>1, <2>4 DEF FlattenSeq
<1>2. (IF System = "element" THEN 1 ELSE 4) = 1
  OBVIOUS
<1>3. ForEachElement(write_processing_element_program)
         = FlattenSeq([k \in 1 .. 1 |-> write_processing_element_program(0)])
  BY <1>2 DEF ForEachElement
<1> QED
  BY <1>1 DEF ForEachElement

\* One sequence of accesses is another followed by a third.
Joined(s, t, u) ==
    /\ s \in Seq(Accesses) /\ t \in Seq(Accesses) /\ u \in Seq(Accesses)
    /\ Len(s) \in Nat /\ Len(t) \in Nat
    /\ Len(u) = Len(s) + Len(t)
    /\ \A i \in 1 .. Len(s) : u[i] = s[i]
    /\ \A i \in 1 .. Len(t) : u[Len(s) + i] = t[i]

LEMMA ConcatJoins ==
    ASSUME NEW s \in Seq(Accesses), NEW t \in Seq(Accesses)
    PROVE  Joined(s, t, s \o t)
<1>1. Len(s) \in Nat /\ Len(t) \in Nat
  BY LenProperties
<1>2. /\ s \o t \in Seq(Accesses) /\ Len(s \o t) = Len(s) + Len(t)
      /\ \A i \in 1 .. Len(s) + Len(t) :
            (s \o t)[i] = IF i <= Len(s) THEN s[i] ELSE t[i - Len(s)]
  BY ConcatProperties
<1>3. ASSUME NEW i \in 1 .. Len(t) PROVE (s \o t)[Len(s) + i] = t[i]
  BY <1>1, <1>2
<1> QED
  BY <1>1, <1>2, <1>3 DEF Joined

LEMMA JoinedIsSeq ==
    ASSUME NEW s, NEW t, NEW u, Joined(s, t, u)
    PROVE  u \in Seq(Accesses)
  BY DEF Joined

\* The accesses of the host program of an element, in their order.
LEMMA WholeProgram ==
    ASSUME System = "element"
    PROVE  /\ Main \in Seq(Accesses)
           /\ Len(Main) = 5 + RegisterWords + InstructionWords + 2 * Len(Inputs) + NumOutputs
                            + CounterWords
           /\ Main[1] = Write(ResetReg, 1) /\ Main[2] = Write(ResetReg, 0)
           /\ Main[3] = Write(EnableReg, 1)
           /\ \A i \in 0 .. RegisterWords - 1 :
                 Main[4 + i] = Write(ElementBase(0) + CounterWords + i, Word(0, i))
           /\ \A i \in 0 .. InstructionWords - 1 :
                 Main[4 + RegisterWords + i] =
                    Write(ElementBase(0) + CounterWords + RegisterWords + i,
                          Word(0, RegisterWords + i))
           /\ \A i \in 1 .. Len(Inputs) :
                 Main[3 + RegisterWords + InstructionWords + i] = Write(DataBase + i - 1, Inputs[i])
           /\ \A i \in 1 .. Len(Inputs) :
                 Main[3 + RegisterWords + InstructionWords + Len(Inputs) + i] =
                    Check(DataBase + i - 1, Inputs[i])
           /\ Main[4 + RegisterWords + InstructionWords + 2 * Len(Inputs)] = Write(ExecuteReg, 1)
           /\ Main[5 + RegisterWords + InstructionWords + 2 * Len(Inputs)] = Poll(HaltedReg)
           /\ \A i \in 1 .. NumOutputs :
                 Main[5 + RegisterWords + InstructionWords + 2 * Len(Inputs) + i] =
                    Read(DataBase + Len(Inputs) + i - 1)
           /\ \A i \in 1 .. CounterWords :
                 Main[5 + RegisterWords + InstructionWords + 2 * Len(Inputs) + NumOutputs + i] =
                    Count(ElementBase(0) + i - 1)
<1>x. PICK R : R = RegisterWords
  OBVIOUS
<1>y. PICK I : I = InstructionWords
  OBVIOUS
<1>w. PICK N : N = Len(Inputs)
  OBVIOUS
<1>0. /\ R \in Nat /\ I \in Nat /\ N \in Nat /\ R > 0 /\ I > 0
      /\ CounterWords \in Nat /\ NumOutputs \in Nat /\ \A i \in 1 .. N : Inputs[i] \in Nat
  BY Amounts, <1>x, <1>y, <1>w
<1>z. R \in Nat /\ I \in Nat /\ N \in Nat /\ CounterWords \in Nat /\ NumOutputs \in Nat
  BY <1>0
<1> DEFINE A1 == reset_system
           A2 == enable_system
           B1 == initialize_registers(0)
           B2 == write_to_processing_element_instructions(0)
           C1 == Each(N, LAMBDA i : Write(DataBase + i, Inputs[i + 1]))
           C2 == Each(N, LAMBDA i : Check(DataBase + i, Inputs[i + 1]))
           D1 == begin_execution
           D2 == system_halted
           E1 == retrieve_output_data
           E2 == build_processing_element_results(0)
<1>a. /\ \A i \in Int, d \in Int : Write(i, d) \in Accesses /\ Check(i, d) \in Accesses
      /\ \A i \in Int : Poll(i) \in Accesses /\ Read(i) \in Accesses /\ Count(i) \in Accesses
      /\ \A i \in Int : Poll(i).kind = "poll" /\ Read(i).kind = "read" /\ Count(i).kind = "count"
  BY DEF Write, Check, Poll, Read, Count, Accesses
<1>b. /\ ElementBase(0) \in Int /\ DataBase \in Int
      /\ \A i \in Int : Word(0, i) \in Int
      /\ ResetReg \in Int /\ EnableReg \in Int /\ ExecuteReg \in Int /\ HaltedReg \in Int
  BY Amounts, <1>x, <1>y, <1>w DEF ElementBase, DataBase, NumControlRegisters, ElementWords, Word, ResetReg, EnableReg,
         ExecuteReg, HaltedReg
<1>1. /\ A1 \in Seq(Accesses) /\ Len(A1) = 2 /\ A1[1] = Write(ResetReg, 1) /\ A1[2] = Write(ResetReg, 0)
  <2>1. Write(ResetReg, 1) \in Accesses /\ Write(ResetReg, 0) \in Accesses
    BY <1>a, <1>b
  <2> QED
    BY <2>1 DEF reset_system
<1>2. A2 \in Seq(Accesses) /\ Len(A2) = 1 /\ A2[1] = Write(EnableReg, 1)
  BY <1>a, <1>b DEF enable_system
<1>3. D1 \in Seq(Accesses) /\ Len(D1) = 1 /\ D1[1] = Write(ExecuteReg, 1)
  BY <1>a, <1>b DEF begin_execution
<1>4. D2 \in Seq(Accesses) /\ Len(D2) = 1 /\ D2[1] = Poll(HaltedReg)
  BY <1>a, <1>b DEF system_halted
<1>5. /\ B1 \in Seq(Accesses) /\ Len(B1) = R
      /\ \A i \in 1 .. R : B1[i] = Write(ElementBase(0) + CounterWords + (i - 1), Word(0, i - 1))
  BY <1>0, <1>a, <1>b, <1>x, <1>y, <1>w DEF initialize_registers, Each
<1>6. /\ B2 \in Seq(Accesses) /\ Len(B2) = I
      /\ \A i \in 1 .. I : B2[i] = Write(ElementBase(0) + CounterWords + R + (i - 1), Word(0, R + (i - 1)))
  BY <1>0, <1>a, <1>b, <1>x, <1>y, <1>w DEF write_to_processing_element_instructions, Each
<1>7. /\ C1 \in Seq(Accesses) /\ Len(C1) = N
      /\ \A i \in 1 .. N : C1[i] = Write(DataBase + (i - 1), Inputs[i])
  BY <1>0, <1>a, <1>b, <1>x, <1>y, <1>w DEF Each
<1>8. /\ C2 \in Seq(Accesses) /\ Len(C2) = N
      /\ \A i \in 1 .. N : C2[i] = Check(DataBase + (i - 1), Inputs[i])
  BY <1>0, <1>a, <1>b, <1>x, <1>y, <1>w DEF Each
<1>9. /\ E1 \in Seq(Accesses) /\ Len(E1) = NumOutputs
      /\ \A i \in 1 .. NumOutputs : E1[i] = Read(DataBase + N + (i - 1))
  <2>1. E1 = [i \in 1 .. NumOutputs |-> Read(DataBase + N + (i - 1))]
    BY <1>w DEF retrieve_output_data, Each
  <2>2. \A i \in 1 .. NumOutputs : DataBase + N + (i - 1) \in Int
    BY <1>b, <1>z
  <2> QED
    BY <2>1, <2>2, <1>a, <1>z
<1>10. /\ E2 \in Seq(Accesses) /\ Len(E2) = CounterWords
       /\ \A i \in 1 .. CounterWords : E2[i] = Count(ElementBase(0) + (i - 1))
  <2>1. E2 = [i \in 1 .. CounterWords |-> Count(ElementBase(0) + (i - 1))]
    BY DEF build_processing_element_results, Each
  <2>2. \A i \in 1 .. CounterWords : ElementBase(0) + (i - 1) \in Int
    BY <1>b, <1>z
  <2> QED
    BY <2>1, <2>2, <1>a, <1>z
<1>11. Main = (((((((A1 \o A2) \o (B1 \o B2)) \o (C1 \o C2)) \o D1) \o D2) \o E1) \o E2)
  BY <1>w, ForTheElement DEF Main, write_processing_element_program, write_input_data
<1> HIDE DEF A1, A2, B1, B2, C1, C2, D1, D2, E1, E2
<1>12. PICK BB : BB = B1 \o B2
  OBVIOUS
<1>13. PICK CC : CC = C1 \o C2
  OBVIOUS
<1>14. PICK P1 : P1 = A1 \o A2
  OBVIOUS
<1>15. PICK P2 : P2 = P1 \o BB
  OBVIOUS
<1>16. PICK P3 : P3 = P2 \o CC
  OBVIOUS
<1>17. PICK P4 : P4 = P3 \o D1
  OBVIOUS
<1>p. PICK P5 : P5 = P4 \o D2
  OBVIOUS
<1>q. PICK P6 : P6 = P5 \o E1
  OBVIOUS
<1>r. PICK P7 : P7 = P6 \o E2
  OBVIOUS
<1>j. /\ Joined(B1, B2, BB) /\ Joined(C1, C2, CC) /\ Joined(A1, A2, P1) /\ Joined(P1, BB, P2)
      /\ Joined(P2, CC, P3) /\ Joined(P3, D1, P4) /\ Joined(P4, D2, P5) /\ Joined(P5, E1, P6)
      /\ Joined(P6, E2, P7)
  <2>1. Joined(B1, B2, BB) /\ BB \in Seq(Accesses)
    BY <1>5, <1>6, <1>12, ConcatJoins, JoinedIsSeq
  <2>2. Joined(C1, C2, CC) /\ CC \in Seq(Accesses)
    BY <1>7, <1>8, <1>13, ConcatJoins, JoinedIsSeq
  <2>3. Joined(A1, A2, P1) /\ P1 \in Seq(Accesses)
    BY <1>1, <1>2, <1>14, ConcatJoins, JoinedIsSeq
  <2>4. Joined(P1, BB, P2) /\ P2 \in Seq(Accesses)
    BY <2>1, <2>3, <1>15, ConcatJoins, JoinedIsSeq
  <2>5. Joined(P2, CC, P3) /\ P3 \in Seq(Accesses)
    BY <2>2, <2>4, <1>16, ConcatJoins, JoinedIsSeq
  <2>6. Joined(P3, D1, P4) /\ P4 \in Seq(Accesses)
    BY <2>5, <1>3, <1>17, ConcatJoins, JoinedIsSeq
  <2>7. Joined(P4, D2, P5) /\ P5 \in Seq(Accesses)
    BY <2>6, <1>4, <1>p, ConcatJoins, JoinedIsSeq
  <2>8. Joined(P5, E1, P6) /\ P6 \in Seq(Accesses)
    BY <2>7, <1>9, <1>q, ConcatJoins, JoinedIsSeq
  <2>9. Joined(P6, E2, P7)
    BY <2>8, <1>10, <1>r, ConcatJoins
  <2> QED
    BY <2>1, <2>2, <2>3, <2>4, <2>5, <2>6, <2>7, <2>8, <2>9
<1>m. Main = P7
  BY <1>11, <1>12, <1>13, <1>14, <1>15, <1>16, <1>17, <1>p, <1>q, <1>r
<1>n. /\ Len(P1) = 3 /\ P1[1] = Write(ResetReg, 1) /\ P1[2] = Write(ResetReg, 0)
      /\ P1[3] = Write(EnableReg, 1)
  BY <1>j, <1>1, <1>2 DEF Joined
<1> DEFINE M == 4 + (R + I) + (N + N)
<1>l. /\ Len(BB) = R + I /\ Len(CC) = N + N /\ Len(P2) = 3 + (R + I)
      /\ Len(P3) = M - 1 /\ Len(P4) = M /\ Len(P5) = M + 1
      /\ Len(P6) = M + 1 + NumOutputs /\ Len(P7) = M + 1 + NumOutputs + CounterWords
  <2>1. Len(BB) = R + I /\ Len(CC) = N + N
    BY <1>j, <1>5, <1>6, <1>7, <1>8 DEF Joined
  <2>2. Len(P2) = Len(P1) + Len(BB) /\ Len(P3) = Len(P2) + Len(CC) /\ Len(P4) = Len(P3) + Len(D1)
    BY <1>j DEF Joined
  <2>3. Len(P5) = Len(P4) + Len(D2) /\ Len(P6) = Len(P5) + Len(E1) /\ Len(P7) = Len(P6) + Len(E2)
    BY <1>j DEF Joined
  <2>4. Len(P1) = 3 /\ Len(D1) = 1 /\ Len(D2) = 1 /\ Len(E1) = NumOutputs /\ Len(E2) = CounterWords
    BY <1>n, <1>3, <1>4, <1>9, <1>10
  <2> QED
    BY <1>z, <2>1, <2>2, <2>3, <2>4
<1> USE <1>z
<1>18. \A i \in 1 .. M : P7[i] = P4[i]
  <2>1. \A i \in 1 .. Len(P6) : P7[i] = P6[i]
    BY <1>j DEF Joined
  <2>2. \A i \in 1 .. Len(P5) : P6[i] = P5[i]
    BY <1>j DEF Joined
  <2>3. \A i \in 1 .. Len(P4) : P5[i] = P4[i]
    BY <1>j DEF Joined
  <2> QED
    BY <2>1, <2>2, <2>3, <1>l
<1>19. \A i \in 1 .. M - 1 : P7[i] = P3[i]
  <2>1. \A i \in 1 .. Len(P3) : P4[i] = P3[i]
    BY <1>j DEF Joined
  <2> QED
    BY <2>1, <1>18, <1>l
<1>20. \A i \in 1 .. 3 + (R + I) : P7[i] = P2[i]
  <2>1. \A i \in 1 .. Len(P2) : P3[i] = P2[i]
    BY <1>j DEF Joined
  <2> QED
    BY <2>1, <1>19, <1>l
<1>21. /\ P7[1] = Write(ResetReg, 1) /\ P7[2] = Write(ResetReg, 0) /\ P7[3] = Write(EnableReg, 1)
  <2>1. \A i \in 1 .. Len(P1) : P2[i] = P1[i]
    BY <1>j DEF Joined
  <2> QED
    BY <2>1, <1>n, <1>20
<1>b1. \A j \in 1 .. R + I : P7[3 + j] = BB[j]
  <2>1. \A i \in 1 .. Len(BB) : P2[Len(P1) + i] = BB[i]
    BY <1>j DEF Joined
  <2> QED
    BY <2>1, <1>n, <1>l, <1>20
<1>b2. \A j \in 1 .. R : P7[3 + j] = B1[j]
  <2>1. \A i \in 1 .. Len(B1) : BB[i] = B1[i]
    BY <1>j DEF Joined
  <2>2. \A j \in 1 .. R : j \in 1 .. Len(B1) /\ j \in 1 .. R + I
    BY <1>5
  <2> QED
    BY <2>1, <2>2, <1>b1
<1>b3. \A j \in 1 .. I : P7[3 + (R + j)] = B2[j]
  <2>1. \A i \in 1 .. Len(B2) : BB[Len(B1) + i] = B2[i]
    BY <1>j DEF Joined
  <2>2. \A j \in 1 .. I : j \in 1 .. Len(B2) /\ R + j \in 1 .. R + I /\ R = Len(B1)
    BY <1>5, <1>6
  <2> QED
    BY <2>1, <2>2, <1>b1
<1>c1. \A j \in 1 .. N + N : P7[3 + (R + I) + j] = CC[j]
  <2>1. \A i \in 1 .. Len(CC) : P3[Len(P2) + i] = CC[i]
    BY <1>j DEF Joined
  <2>2. \A j \in 1 .. N + N : /\ j \in 1 .. Len(CC) /\ 3 + (R + I) = Len(P2)
                              /\ 3 + (R + I) + j \in 1 .. M - 1
    BY <1>l
  <2> QED
    BY <2>1, <2>2, <1>19
<1>c2. \A j \in 1 .. N : P7[3 + (R + I) + j] = C1[j]
  <2>1. \A i \in 1 .. Len(C1) : CC[i] = C1[i]
    BY <1>j DEF Joined
  <2>2. \A j \in 1 .. N : j \in 1 .. Len(C1) /\ j \in 1 .. N + N
    BY <1>7
  <2> QED
    BY <2>1, <2>2, <1>c1
<1>c3. \A j \in 1 .. N : P7[3 + (R + I) + (N + j)] = C2[j]
  <2>1. \A i \in 1 .. Len(C2) : CC[Len(C1) + i] = C2[i]
    BY <1>j DEF Joined
  <2>2. \A j \in 1 .. N : j \in 1 .. Len(C2) /\ N + j \in 1 .. N + N /\ N = Len(C1)
    BY <1>7, <1>8
  <2> QED
    BY <2>1, <2>2, <1>c1
<1>22. ASSUME NEW i \in 0 .. R - 1
       PROVE  P7[4 + i] = Write(ElementBase(0) + CounterWords + i, Word(0, i))
  <2>1. PICK j \in 1 .. R : j = i + 1
    OBVIOUS
  <2>2. 4 + i = 3 + j /\ j - 1 = i
    BY <2>1
  <2> QED
    BY <2>2, <1>b2, <1>5
<1>23. ASSUME NEW i \in 0 .. I - 1
       PROVE  P7[4 + R + i] = Write(ElementBase(0) + CounterWords + R + i, Word(0, R + i))
  <2>1. PICK j \in 1 .. I : j = i + 1
    OBVIOUS
  <2>2. 4 + R + i = 3 + (R + j) /\ j - 1 = i
    BY <2>1
  <2> QED
    BY <2>2, <1>b3, <1>6
<1>24. ASSUME NEW i \in 1 .. N
       PROVE  P7[3 + R + I + i] = Write(DataBase + i - 1, Inputs[i])
  <2>1. DataBase + (i - 1) = DataBase + i - 1 /\ 3 + (R + I) + i = 3 + R + I + i
    BY <1>b
  <2> QED
    BY <2>1, <1>c2, <1>7
<1>25. ASSUME NEW i \in 1 .. N
       PROVE  P7[3 + R + I + N + i] = Check(DataBase + i - 1, Inputs[i])
  <2>1. DataBase + (i - 1) = DataBase + i - 1 /\ 3 + (R + I) + (N + i) = 3 + R + I + N + i
    BY <1>b
  <2> QED
    BY <2>1, <1>c3, <1>8
<1>26. P7[4 + R + I + 2 * N] = Write(ExecuteReg, 1)
  <2>1. M = 4 + R + I + 2 * N /\ M \in 1 .. M /\ M = M - 1 + 1
    OBVIOUS
  <2>2. P4[Len(P3) + 1] = D1[1]
    BY <1>j, <1>3 DEF Joined
  <2> QED
    BY <2>1, <2>2, <1>3, <1>l, <1>18
<1>27. Len(P7) = 5 + R + I + 2 * N + NumOutputs + CounterWords
  BY <1>l
<1>28. PICK K \in Nat : K = M + 1 /\ K = 5 + R + I + 2 * N
  OBVIOUS
<1>k. /\ P7[K] = Poll(HaltedReg)
      /\ \A i \in 1 .. NumOutputs : P7[K + i] = Read(DataBase + N + i - 1)
      /\ \A i \in 1 .. CounterWords : P7[K + NumOutputs + i] = Count(ElementBase(0) + i - 1)
  <2>1. Len(P4) + 1 = K /\ Len(P5) = K /\ Len(P6) = K + NumOutputs /\ K > 0
    BY <1>28, <1>l
  <2> HIDE DEF M
  <2>2. /\ \A i \in 1 .. K + NumOutputs : P7[i] = P6[i]
        /\ \A i \in 1 .. K : P6[i] = P5[i]
        /\ P5[K] = D2[1]
        /\ \A i \in 1 .. NumOutputs : P6[K + i] = E1[i]
        /\ \A i \in 1 .. CounterWords : P7[K + NumOutputs + i] = E2[i]
    BY <2>1, <1>j, <1>4, <1>9, <1>10 DEF Joined
  <2>3. P7[K] = Poll(HaltedReg)
    BY <2>1, <2>2, <1>4
  <2>4. ASSUME NEW i \in 1 .. NumOutputs PROVE P7[K + i] = Read(DataBase + N + i - 1)
    <3>1. K + i \in 1 .. K + NumOutputs
      OBVIOUS
    <3>2. DataBase + N + (i - 1) = DataBase + N + i - 1
      BY <1>b
    <3> QED
      BY <2>2, <3>1, <3>2, <1>9
  <2>5. ASSUME NEW i \in 1 .. CounterWords
        PROVE  P7[K + NumOutputs + i] = Count(ElementBase(0) + i - 1)
    <3>1. ElementBase(0) + (i - 1) = ElementBase(0) + i - 1
      BY <1>b
    <3> QED
      BY <2>2, <3>1, <1>10
  <2> QED
    BY <2>3, <2>4, <2>5
<1>29. /\ Main \in Seq(Accesses)
       /\ Len(Main) = 5 + R + I + 2 * N + NumOutputs + CounterWords
       /\ Main[1] = Write(ResetReg, 1) /\ Main[2] = Write(ResetReg, 0)
       /\ Main[3] = Write(EnableReg, 1)
       /\ \A i \in 0 .. R - 1 : Main[4 + i] = Write(ElementBase(0) + CounterWords + i, Word(0, i))
       /\ \A i \in 0 .. I - 1 :
             Main[4 + R + i] = Write(ElementBase(0) + CounterWords + R + i, Word(0, R + i))
       /\ \A i \in 1 .. N : Main[3 + R + I + i] = Write(DataBase + i - 1, Inputs[i])
       /\ \A i \in 1 .. N : Main[3 + R + I + N + i] = Check(DataBase + i - 1, Inputs[i])
       /\ Main[4 + R + I + 2 * N] = Write(ExecuteReg, 1)
       /\ Main[5 + R + I + 2 * N] = Poll(HaltedReg)
       /\ \A i \in 1 .. NumOutputs :
             Main[5 + R + I + 2 * N + i] = Read(DataBase + N + i - 1)
       /\ \A i \in 1 .. CounterWords :
             Main[5 + R + I + 2 * N + NumOutputs + i] = Count(ElementBase(0) + i - 1)
  BY <1>m, <1>j, <1>21, <1>22, <1>23, <1>24, <1>25, <1>26, <1>27, <1>28, <1>k, JoinedIsSeq
<1> HIDE <1>z
<1> QED
  BY <1>29, <1>x, <1>y, <1>w, Zenon

\* The accesses after the write that starts the element: the poll, the results, the
\* counters.
LEMMA AccessesAfterBegin ==
    ASSUME System = "element", NEW n \in Begin + 1 .. Len(Main)
    PROVE  \/ n = Begin + 1 /\ Main[n] = Poll(HaltedReg)
           \/ \E i \in 1 .. NumOutputs :
                 n = Begin + 1 + i /\ Main[n] = Read(DataBase + Len(Inputs) + i - 1)
           \/ n > Begin + 1 + NumOutputs /\ Main[n].kind = "count"
<1>1. PICK K \in Nat : K = Begin + 1 /\ K = 5 + RegisterWords + InstructionWords + 2 * Len(Inputs)
  BY Amounts DEF Begin
<1>2. /\ NumOutputs \in Nat /\ CounterWords \in Nat
      /\ Len(Main) = K + NumOutputs + CounterWords
      /\ n \in Int /\ n >= K /\ n <= Len(Main)
  BY <1>1, Amounts, WholeProgram
<1>3. CASE n = K
  BY <1>1, <1>3, WholeProgram
<1>4. CASE n > K /\ n <= K + NumOutputs
  <2>1. PICK i \in 1 .. NumOutputs : n = K + i
    <3>1. n - K \in 1 .. NumOutputs /\ n = K + (n - K)
      BY <1>2, <1>4
    <3> QED
      BY <3>1
  <2> QED
    BY <1>1, <2>1, WholeProgram
<1>5. CASE n > K + NumOutputs
  <2>1. PICK i \in 1 .. CounterWords : n = K + NumOutputs + i
    <3>1. PICK Q \in Int : Q = K + NumOutputs
      BY <1>2
    <3>2. n - Q \in 1 .. CounterWords /\ n = Q + (n - Q)
      BY <1>2, <1>5, <3>1
    <3> QED
      BY <3>1, <3>2
  <2>2. Main[n] = Count(ElementBase(0) + i - 1)
    BY <1>1, <2>1, WholeProgram
  <2> QED
    BY <1>1, <1>5, <2>2 DEF Count
<1> QED
  BY <1>2, <1>3, <1>4, <1>5

\* What a write of a host program is for: a signal, a register, an instruction or an
\* input word.
SignalOf(n) == [index |-> IF n <= 2 THEN ResetReg ELSE IF n = 3 THEN EnableReg ELSE ExecuteReg,
                data  |-> IF n = 2 THEN 0 ELSE 1]

WritesSignal(n) == n \in {1, 2, 3, Begin} /\ FirstStop(n) = Control /\ Passed(n) = SignalOf(n)
WritesRegister(n, i) ==
    /\ n = 4 + i /\ FirstStop(n) = Array
    /\ Passed(n) = [index |-> CounterWords + i, data |-> Word(0, i)]
WritesInstruction(n, i) ==
    /\ n = 4 + RegisterWords + i /\ FirstStop(n) = Array
    /\ Passed(n) = [index |-> CounterWords + RegisterWords + i,
                    data  |-> Word(0, RegisterWords + i)]
WritesInput(n, i) ==
    /\ n = 3 + RegisterWords + InstructionWords + i /\ FirstStop(n) = Memory
    /\ Passed(n) = [index |-> i - 1, data |-> Inputs[i]]

\* The mapper of the test system sends each write to the part it is meant for.
LEMMA WritesAreMapped ==
    ASSUME System = "element", NEW n, IsWrite(n)
    PROVE  \/ WritesSignal(n)
           \/ \E i \in 0 .. RegisterWords - 1 : WritesRegister(n, i)
           \/ \E i \in 0 .. InstructionWords - 1 : WritesInstruction(n, i)
           \/ \E i \in 1 .. Len(Inputs) : WritesInput(n, i)
<1> DEFINE R == RegisterWords
           I == InstructionWords
           N == Len(Inputs)
           C == CounterWords
<1>1. /\ R \in Nat /\ I \in Nat /\ N \in Nat /\ C \in Nat /\ C > 0 /\ R > 0 /\ I > 0
      /\ Size \in Nat /\ N <= Size
  BY Amounts
<1>2. /\ n \in 1 .. Len(Main) /\ Main[n].kind = "write"
      /\ Len(Main) = 5 + R + I + 2 * N + NumOutputs + C /\ NumOutputs \in Nat
  BY WholeProgram, Amounts DEF IsWrite
<1>3. /\ ElementBase(0) = 4 /\ DataBase = 4 + (C + R + I) /\ ArrayBound = 4 + (C + R + I)
  BY <1>1 DEF ElementBase, DataBase, ArrayBound, ElementWords, NumControlRegisters
<1>4. \A k \in Int :
         /\ k < 4 => Forward(Host, k) = Mapped(Control, k)
         /\ k >= 4 /\ k < 4 + (C + R + I) => Forward(Host, k) = Mapped(Array, k - 4)
         /\ k >= 4 + (C + R + I) /\ k < 4 + (C + R + I) + Size =>
               Forward(Host, k) = Mapped(Memory, k - (4 + (C + R + I)))
  <2> SUFFICES ASSUME NEW k \in Int
               PROVE  /\ k < 4 => Forward(Host, k) = Mapped(Control, k)
                      /\ k >= 4 /\ k < 4 + (C + R + I) => Forward(Host, k) = Mapped(Array, k - 4)
                      /\ k >= 4 + (C + R + I) /\ k < 4 + (C + R + I) + Size =>
                            Forward(Host, k) = Mapped(Memory, k - (4 + (C + R + I)))
    OBVIOUS
  <2>1. Forward(Host, k) = SystemMapper(k)
    BY TreeOfBuffers
  <2>2. PICK B \in Nat : B = C + R + I
    BY <1>1
  <2> QED
    BY <1>1, <1>3, <2>1, <2>2 DEF SystemMapper, NumControlRegisters
<1>5. \A b, k : Mapped(b, k).to = b /\ Mapped(b, k).index = k
  BY DEF Mapped
<1>6. \A k, d : Write(k, d).index = k /\ Write(k, d).data = d /\ Write(k, d).kind = "write"
  BY DEF Write
<1>7. CASE n <= 3
  <2>1. Main[n] = Write(SignalOf(n).index, SignalOf(n).data) /\ SignalOf(n).index \in 0 .. 2
    BY <1>2, <1>7, WholeProgram DEF SignalOf, ResetReg, EnableReg, ExecuteReg
  <2>2. FirstStop(n) = Control /\ Passed(n) = SignalOf(n)
    BY <2>1, <1>4, <1>5, <1>6 DEF FirstStop, Passed, SignalOf
  <2> QED
    BY <1>2, <1>7, <2>2 DEF WritesSignal
<1>8. CASE n > 3 /\ n <= 3 + R
  <2>1. PICK i \in 0 .. R - 1 : n = 4 + i
    <3>1. n - 4 \in 0 .. R - 1 /\ n = 4 + (n - 4)
      BY <1>1, <1>2, <1>8
    <3> QED
      BY <3>1
  <2>2. Main[n] = Write(4 + C + i, Word(0, i))
    BY <2>1, <1>3, WholeProgram
  <2>3. 4 + C + i \in Int /\ 4 + C + i >= 4 /\ 4 + C + i < 4 + (C + R + I) /\ 4 + C + i - 4 = C + i
    BY <1>1, <2>1
  <2>4. FirstStop(n) = Array /\ Passed(n) = [index |-> C + i, data |-> Word(0, i)]
    <3>1. PICK k \in Int : k = 4 + C + i
      BY <2>3
    <3>2. Main[n].index = k /\ Main[n].data = Word(0, i)
      BY <2>2, <3>1, <1>6
    <3>3. Forward(Host, k) = Mapped(Array, C + i)
      BY <2>1, <2>3, <3>1, <1>1, <1>4
    <3> QED
      BY <3>2, <3>3, <1>5 DEF FirstStop, Passed
  <2> QED
    BY <2>1, <2>4 DEF WritesRegister
<1>9. CASE n > 3 + R /\ n <= 3 + R + I
  <2>1. PICK i \in 0 .. I - 1 : n = 4 + R + i
    <3>1. n \in Int /\ R \in Nat /\ I \in Nat /\ n >= 4 + R /\ n <= 3 + R + I
      BY <1>1, <1>2, <1>9
    <3>2. n - (4 + R) \in 0 .. I - 1 /\ n = 4 + R + (n - (4 + R))
      BY <3>1
    <3> QED
      BY <3>2
  <2>2. Main[n] = Write(4 + C + R + i, Word(0, R + i))
    BY <2>1, <1>3, WholeProgram
  <2>3. /\ 4 + C + R + i \in Int /\ 4 + C + R + i >= 4 /\ 4 + C + R + i < 4 + (C + R + I)
        /\ 4 + C + R + i - 4 = C + R + i
    BY <1>1, <2>1
  <2>4. FirstStop(n) = Array /\ Passed(n) = [index |-> C + R + i, data |-> Word(0, R + i)]
    <3>1. PICK k \in Int : k = 4 + C + R + i
      BY <2>3
    <3>2. Main[n].index = k /\ Main[n].data = Word(0, R + i)
      BY <2>2, <3>1, <1>6
    <3>3. Forward(Host, k) = Mapped(Array, C + R + i)
      BY <2>1, <2>3, <3>1, <1>1, <1>4
    <3> QED
      BY <3>2, <3>3, <1>5 DEF FirstStop, Passed
  <2> QED
    BY <2>1, <2>4 DEF WritesInstruction
<1>10. CASE n > 3 + R + I /\ n <= 3 + R + I + N
  <2>1. PICK i \in 1 .. N : n = 3 + R + I + i
    <3>1. n - (3 + R + I) \in 1 .. N /\ n = 3 + R + I + (n - (3 + R + I))
      BY <1>1, <1>2, <1>10
    <3> QED
      BY <3>1
  <2>2. Main[n] = Write(4 + (C + R + I) + i - 1, Inputs[i])
    BY <2>1, <1>3, WholeProgram
  <2>3. PICK B \in Nat : B = 4 + (C + R + I)
    BY <1>1
  <2>4. /\ B + i - 1 \in Int /\ B + i - 1 >= B /\ B + i - 1 < B + Size
        /\ B + i - 1 - B = i - 1
    BY <1>1, <2>1
  <2>5. FirstStop(n) = Memory /\ Passed(n) = [index |-> i - 1, data |-> Inputs[i]]
    <3>1. PICK k \in Int : k = B + i - 1 /\ k >= B /\ k < B + Size /\ k - B = i - 1
      BY <2>4
    <3>2. Main[n].index = k /\ Main[n].data = Inputs[i]
      BY <2>2, <2>3, <3>1, <1>6
    <3>3. Forward(Host, k) = Mapped(Memory, i - 1)
      <4>1. k >= B /\ k < B + Size => Forward(Host, k) = Mapped(Memory, k - B)
        <5>1. B >= 4
          BY <1>1, <2>3
        <5> QED
          BY <1>4, <2>3, <3>1, <5>1
      <4> QED
        BY <3>1, <4>1
    <3> QED
      BY <3>2, <3>3, <1>5 DEF FirstStop, Passed
  <2> QED
    BY <2>1, <2>5 DEF WritesInput
<1>11. ~(n > 3 + R + I + N /\ n <= 3 + R + I + 2 * N)
  <2> SUFFICES ASSUME n > 3 + R + I + N /\ n <= 3 + R + I + 2 * N
               PROVE  FALSE
    OBVIOUS
  <2>1. n - (3 + R + I + N) \in 1 .. N /\ n = 3 + R + I + N + (n - (3 + R + I + N))
    <3>1. PICK K \in Nat : K = 3 + R + I + N
      BY <1>1
    <3>2. n \in Int /\ n > K /\ n <= K + N
      BY <1>1, <1>2, <3>1
    <3> QED
      BY <1>1, <3>1, <3>2
  <2>2. PICK i \in 1 .. N : n = 3 + R + I + N + i
    BY <2>1
  <2>3. Main[n] = Check(DataBase + i - 1, Inputs[i])
    BY <2>2, WholeProgram
  <2> QED
    BY <2>3, <1>2 DEF Check
<1>12. CASE n = 4 + R + I + 2 * N
  <2>1. n = Begin /\ n > 3
    BY <1>1, <1>12 DEF Begin
  <2>2. Main[n] = Write(SignalOf(n).index, SignalOf(n).data) /\ SignalOf(n).index = 2
    BY <2>1, <1>1, <1>12, WholeProgram DEF SignalOf, ExecuteReg
  <2>3. FirstStop(n) = Control /\ Passed(n) = SignalOf(n)
    BY <2>2, <1>4, <1>5, <1>6 DEF FirstStop, Passed, SignalOf
  <2> QED
    BY <2>1, <2>3 DEF WritesSignal
<1>13. ~(n > 4 + R + I + 2 * N)
  <2>1. n \notin Begin + 1 .. Len(Main)
    <3>1. \A i : Poll(i).kind # "write" /\ Read(i).kind # "write"
      BY DEF Poll, Read
    <3> QED
      BY <1>2, <3>1, AccessesAfterBegin
  <2>2. /\ Begin = 4 + R + I + 2 * N /\ Begin \in Nat
        /\ n \in Int /\ Len(Main) \in Int /\ n <= Len(Main)
    BY <1>1, <1>2 DEF Begin
  <2> QED
    BY <2>1, <2>2
<1>14. \/ n <= 3
       \/ n > 3 /\ n <= 3 + R
       \/ n > 3 + R /\ n <= 3 + R + I
       \/ n > 3 + R + I /\ n <= 3 + R + I + N
       \/ n > 3 + R + I + N /\ n <= 3 + R + I + 2 * N
       \/ n = 4 + R + I + 2 * N
       \/ n > 4 + R + I + 2 * N
  <2>1. n \in Int
    BY <1>2
  <2> QED
    BY <1>1, <2>1
<1> HIDE DEF R, I, N, C
<1> QED
  BY <1>7, <1>8, <1>9, <1>10, <1>11, <1>12, <1>13, <1>14 DEF R, I, N, C

\* An access that writes nothing comes after every write but the last, and is not it.
LEMMA OtherAccesses ==
    ASSUME System = "element", NEW n \in 1 .. Len(Main), ~IsWrite(n)
    PROVE  n > 3 + RegisterWords + InstructionWords + Len(Inputs) /\ n # Begin
<1> DEFINE R == RegisterWords
           I == InstructionWords
           N == Len(Inputs)
<1>1. R \in Nat /\ I \in Nat /\ N \in Nat /\ n \in Nat /\ n >= 1
  BY Amounts, WholeProgram
<1>2. Main[n].kind # "write"
  BY DEF IsWrite
<1>3. \A k, d : Write(k, d).kind = "write"
  BY DEF Write
<1>4. n > 3
  <2>1. n \notin {1, 2, 3}
    BY <1>2, <1>3, WholeProgram
  <2> QED
    BY <1>1, <2>1
<1>5. ~(n <= 3 + R)
  <2> SUFFICES ASSUME n <= 3 + R PROVE FALSE
    OBVIOUS
  <2>1. n - 4 \in 0 .. R - 1 /\ n = 4 + (n - 4)
    BY <1>1, <1>4
  <2>2. PICK i \in 0 .. R - 1 : n = 4 + i
    BY <2>1
  <2> QED
    BY <2>2, <1>2, <1>3, WholeProgram
<1>6. ~(n <= 3 + R + I)
  <2> SUFFICES ASSUME n <= 3 + R + I PROVE FALSE
    OBVIOUS
  <2>1. n - (4 + R) \in 0 .. I - 1 /\ n = 4 + R + (n - (4 + R))
    BY <1>1, <1>5
  <2>2. PICK i \in 0 .. I - 1 : n = 4 + R + i
    BY <2>1
  <2> QED
    BY <2>2, <1>2, <1>3, WholeProgram
<1>7. ~(n <= 3 + R + I + N)
  <2> SUFFICES ASSUME n <= 3 + R + I + N PROVE FALSE
    OBVIOUS
  <2>1. n - (3 + R + I) \in 1 .. N /\ n = 3 + R + I + (n - (3 + R + I))
    BY <1>1, <1>6
  <2>2. PICK i \in 1 .. N : n = 3 + R + I + i
    BY <2>1
  <2> QED
    BY <2>2, <1>2, <1>3, WholeProgram
<1>8. n # Begin
  BY <1>2, <1>3, WholeProgram DEF Begin
<1> QED
  BY <1>1, <1>7, <1>8

\* What a read of a host program is for: to compare an input word, to wait for the
\* element, to retrieve a result, to count.
Checks(n, i) ==
    /\ n = 3 + RegisterWords + InstructionWords + Len(Inputs) + i
    /\ Main[n].kind = "check" /\ Main[n].data = Inputs[i]
    /\ Forward(Host, Main[n].index) = Mapped(Memory, i - 1)
Polls(n) ==
    /\ n = Begin + 1 /\ Main[n].kind = "poll"
    /\ Forward(Host, Main[n].index) = Mapped(Control, HaltedReg)
Retrieves(n, i) ==
    /\ n = Begin + 1 + i /\ Main[n].kind = "read"
    /\ Forward(Host, Main[n].index) = Mapped(Memory, Len(Inputs) + i - 1)
Counts(n) == n > Begin + 1 + NumOutputs /\ Main[n].kind = "count"

\* The mapper of the test system on the indices of its control registers and of its
\* memory.
LEMMA HostForwards ==
    ASSUME System = "element", NEW k \in Int
    PROVE  /\ k < NumControlRegisters => Forward(Host, k) = Mapped(Control, k)
           /\ k >= 0 /\ k < Size => Forward(Host, DataBase + k) = Mapped(Memory, k)
<1>1. PICK B \in Nat : B = CounterWords + RegisterWords + InstructionWords
  BY Amounts
<1>2. DataBase = 4 + B /\ ArrayBound = 4 + B
  BY <1>1 DEF ElementBase, DataBase, ArrayBound, ElementWords, NumControlRegisters
<1>3. \A i : Forward(Host, i) = SystemMapper(i)
  BY TreeOfBuffers
<1>4. ASSUME k < 4 PROVE Forward(Host, k) = Mapped(Control, k)
  <2>1. k \notin 4 .. 4 + B - 1 /\ k \notin 4 + B .. 4 + B + Size - 1
    BY <1>4, Amounts
  <2>2. SystemMapper(k) = Mapped(Control, k)
    BY <1>2, <1>4, <2>1 DEF SystemMapper, NumControlRegisters
  <2> QED
    BY <1>3, <2>2
<1>5. ASSUME k >= 0, k < Size PROVE Forward(Host, DataBase + k) = Mapped(Memory, k)
  <2>1. PICK i \in Int : i = DataBase + k /\ i >= 4 + B /\ i < 4 + B + Size /\ i - (4 + B) = k
    BY <1>2, <1>5, Amounts
  <2>2. ~(i < 4) /\ i \notin 4 .. 4 + B - 1 /\ i \in 4 + B .. 4 + B + Size - 1
    BY <2>1, Amounts
  <2>3. SystemMapper(i) = Mapped(Memory, k)
    BY <2>1, <2>2, <1>2 DEF SystemMapper, NumControlRegisters
  <2> QED
    BY <1>3, <2>1, <2>3
<1> QED
  BY <1>4, <1>5 DEF NumControlRegisters

\* Every access that writes nothing is one of these, and the mapper sends it where the
\* data or the signal is.
LEMMA ReadsByPlace ==
    ASSUME System = "element", NEW n \in 1 .. Len(Main), ~IsWrite(n)
    PROVE  \/ \E i \in 1 .. Len(Inputs) : Checks(n, i)
           \/ Polls(n)
           \/ \E i \in 1 .. NumOutputs : Retrieves(n, i)
           \/ Counts(n)
<1> DEFINE N == Len(Inputs)
<1>1. PICK Q \in Nat : Q = 3 + RegisterWords + InstructionWords + N
  BY Amounts
<1>2. /\ N \in Nat /\ NumOutputs \in Nat /\ Size \in Nat /\ N + NumOutputs <= Size
      /\ Begin = Q + N + 1 /\ n \in Int /\ n > Q /\ n # Begin /\ n <= Len(Main)
      /\ Len(Main) \in Nat /\ DataBase \in Int
  <2>1. DataBase \in Int
    BY Amounts DEF DataBase, ElementBase, NumControlRegisters, ElementWords
  <2>2. Len(Main) \in Nat
    BY Amounts, WholeProgram
  <2> QED
    BY <1>1, <2>1, <2>2, Amounts, RunAssumption, OtherAccesses DEF Begin
<1>3. CASE n <= Q + N
  <2>1. PICK i \in 1 .. N : n = Q + i
    <3>1. n - Q \in 1 .. N /\ n = Q + (n - Q)
      BY <1>2, <1>3
    <3> QED
      BY <3>1
  <2>2. Main[n] = Check(DataBase + i - 1, Inputs[i])
    BY <1>1, <2>1, WholeProgram
  <2>3. i - 1 \in Int /\ i - 1 >= 0 /\ i - 1 < Size /\ DataBase + (i - 1) = DataBase + i - 1
    BY <1>2
  <2>4. Forward(Host, DataBase + (i - 1)) = Mapped(Memory, i - 1)
    BY <2>3, HostForwards
  <2> QED
    BY <1>1, <2>1, <2>2, <2>3, <2>4 DEF Checks, Check
<1>4. CASE n > Q + N
  <2>1. n \in Begin + 1 .. Len(Main)
    BY <1>2, <1>4
  <2>2. CASE n = Begin + 1 /\ Main[n] = Poll(HaltedReg)
    <3>1. HaltedReg \in Int /\ HaltedReg < NumControlRegisters
      BY DEF HaltedReg, NumControlRegisters
    <3> QED
      BY <2>2, <3>1, HostForwards DEF Polls, Poll
  <2>3. ASSUME NEW i \in 1 .. NumOutputs, n = Begin + 1 + i,
               Main[n] = Read(DataBase + N + i - 1)
        PROVE  Retrieves(n, i)
    <3>0. PICK k \in Int : k = N + i - 1
      BY <1>2
    <3>1. k >= 0 /\ k < Size /\ DataBase + k = DataBase + N + i - 1
      BY <1>2, <3>0
    <3>2. Forward(Host, DataBase + k) = Mapped(Memory, k)
      BY <3>1, HostForwards
    <3> QED
      BY <2>3, <3>0, <3>1, <3>2 DEF Retrieves, Read
  <2> QED
    BY <2>1, <2>2, <2>3, AccessesAfterBegin DEF Counts
<1> QED
  BY <1>2, <1>3, <1>4

-----------------------------------------------------------------------------
(* What an edge does to the writes in the buffers.                         *)

\* Reads do not touch the write channel of a buffer, and nor do writes its other fields.
LEMMA BufferWrites ==
    ASSUME NEW b, DOMAIN b = DOMAIN EmptyBuffer, NEW reset, NEW offered, NEW popped, NEW asked,
           NEW answer, NEW s, s = BufferStep(b, reset, offered, popped, asked, answer)
    PROVE  /\ DOMAIN s = DOMAIN EmptyBuffer
           /\ s.writes = IF reset THEN << >> ELSE WriteChannel(b, offered, popped)
  BY DEF BufferStep, ReadChannel, EmptyBuffer

\* A buffer that is empty takes what it is offered; one that holds a write passes it on.
LEMMA WriteChannelMoves ==
    ASSUME NEW b, NEW popped, NEW w
    PROVE  /\ b.writes = << >> /\ ~popped => WriteChannel(b, {}, popped) = << >>
           /\ b.writes = << >> /\ ~popped => WriteChannel(b, {w}, popped) = << w >>
           /\ b.writes = << w >> /\ popped => WriteChannel(b, {}, popped) = << >>
<1>1. b.writes = << >> => HasRoom(b)
  BY DEF HasRoom, WriteFifoDepth
<1>2. /\ (CHOOSE v \in {w} : TRUE) = w /\ {w} # {}
      /\ Tail(<< w >>) = << >> /\ Append(<< >>, w) = << w >>
  OBVIOUS
<1>3. b.writes = << >> /\ ~popped => WriteChannel(b, {}, popped) = << >>
  BY DEF WriteChannel
<1>4. b.writes = << >> /\ ~popped => WriteChannel(b, {w}, popped) = << w >>
  BY <1>1, <1>2 DEF WriteChannel
<1>5. b.writes = << w >> /\ popped => WriteChannel(b, {}, popped) = << >>
  BY <1>2 DEF WriteChannel
<1> QED
  BY <1>3, <1>4, <1>5

\* What a buffer or a device is offered comes from the oldest write of the buffer before it.
LEMMA OfferedTo ==
    ASSUME System = "element",
           NEW d \in {Control, Array, Memory, PE(0), Registers, Ram, Core(0)},
           NEW to, NEW w, to = Forward(Upstream(d), w.index)
    PROVE  /\ buffer[Upstream(d)].writes = << >> => Offered(d) = {}
           /\ buffer[Upstream(d)].writes = << w >> =>
                 Offered(d) = IF to.to = d THEN {[index |-> to.index, data |-> w.data]} ELSE {}
<1>1. d # Host
  BY BuffersDiffer DEF Behind, Buffers
<1>2. Head(<< w >>) = w /\ << w >> # << >>
  OBVIOUS
<1> QED
  BY <1>1, <1>2 DEF Offered

\* A buffer that holds a write for a buffer with room or for a device gives it away.
LEMMA PoppedWhen ==
    ASSUME System = "element", NEW b, NEW w, NEW to, to = Forward(b, w.index).to
    PROVE  /\ buffer[b].writes = << >> => ~Popped(b)
           /\ buffer[b].writes = << w >> /\ to \in Buffers /\ buffer[to].writes = << >> =>
                 Popped(b)
           /\ buffer[b].writes = << w >> /\ to \notin Buffers /\ to # Nobody => Popped(b)
<1>1. Head(<< w >>) = w /\ << w >> # << >>
  OBVIOUS
<1>2. to \in Buffers /\ buffer[to].writes = << >> => HasRoom(buffer[to])
  BY DEF HasRoom, WriteFifoDepth
<1>3. Nobody \notin Buffers
  BY BuffersDiffer
<1>4. buffer[b].writes = << >> => ~Popped(b)
  BY DEF Popped
<1>5. ASSUME buffer[b].writes = << w >>, to \in Buffers, buffer[to].writes = << >>
      PROVE  Popped(b)
  BY <1>1, <1>2, <1>3, <1>5 DEF Popped
<1>6. ASSUME buffer[b].writes = << w >>, to \notin Buffers, to # Nobody
      PROVE  Popped(b)
  BY <1>1, <1>6 DEF Popped
<1> QED
  BY <1>4, <1>5, <1>6

\* One edge, as far as the writes are concerned.
WritesMove ==
    \A b \in Buffers : buffer'[b].writes =
        IF ResetOf(b) THEN << >> ELSE WriteChannel(buffer[b], Offered(b), Popped(b))

LEMMA ClockMovesWrites ==
    ASSUME Shaped, ClockBuffers
    PROVE  /\ WritesMove
           /\ DOMAIN buffer' = Buffers
           /\ \A b \in Buffers : DOMAIN buffer'[b] = DOMAIN EmptyBuffer
<1>1. ASSUME NEW b \in Buffers
      PROVE  buffer'[b] = BufferStep(buffer[b], ResetOf(b), Offered(b), Popped(b), Asked(b), Answered(b))
  BY DEF ClockBuffers
<1>2. ASSUME NEW b \in Buffers
      PROVE  /\ DOMAIN buffer'[b] = DOMAIN EmptyBuffer
             /\ buffer'[b].writes =
                   IF ResetOf(b) THEN << >> ELSE WriteChannel(buffer[b], Offered(b), Popped(b))
  <2>1. DOMAIN buffer[b] = DOMAIN EmptyBuffer
    BY DEF Shaped
  <2> QED
    BY <1>1, <2>1, BufferWrites
<1>3. DOMAIN buffer' = Buffers
  BY DEF ClockBuffers
<1> QED
  BY <1>2, <1>3 DEF WritesMove

\* Only the buffer of the element is reset with the element.
LEMMA ResetOfBuffers ==
    ASSUME System = "element", LastStage = 1
    PROVE  /\ ~ResetOf(Host) /\ ~ResetOf(Control) /\ ~ResetOf(Array) /\ ~ResetOf(Memory)
           /\ ResetOf(PE(0)) = control.reset
<1>1. /\ Elements = {0} /\ {PE(e) : e \in Elements} = {PE(0)}
      /\ PE(0) \notin {Host, Control, Array, Memory}
      /\ \A b \in {Host, Control, Array, Memory, PE(0)} : b # Quartet
  BY BuffersDiffer DEF Behind
<1>2. AtElement = control
  BY DEF AtElement
<1>3. \A b \in {Host, Control, Array, Memory} : ~ResetOf(b)
  BY <1>1 DEF ResetOf
<1> QED
  BY <1>1, <1>2, <1>3 DEF ResetOf

\* What an edge does to a buffer that is empty, and to one that holds one write.
LEMMA BufferMoves ==
    ASSUME System = "element", WritesMove, NEW b \in Buffers, NEW w
    PROVE  /\ buffer[b].writes = << >> /\ Offered(b) = {} => buffer'[b].writes = << >>
           /\ buffer[b].writes = << >> /\ Offered(b) = {w} /\ ~ResetOf(b) =>
                 buffer'[b].writes = << w >>
           /\ buffer[b].writes = << w >> /\ Offered(b) = {} /\ Popped(b) =>
                 buffer'[b].writes = << >>
<1>0. PICK popped \in BOOLEAN : popped = Popped(b)
  <2>1. Popped(b) \in BOOLEAN
    BY DEF Popped, HasRoom
  <2> QED
    BY <2>1
<1>1. buffer'[b].writes = IF ResetOf(b) THEN << >> ELSE WriteChannel(buffer[b], Offered(b), popped)
  BY <1>0 DEF WritesMove
<1>2. /\ buffer[b].writes = << >> => ~popped
      /\ popped <=> Popped(b)
  BY <1>0, PoppedWhen
<1>3. /\ buffer[b].writes = << >> /\ ~popped => WriteChannel(buffer[b], {}, popped) = << >>
      /\ buffer[b].writes = << >> /\ ~popped => WriteChannel(buffer[b], {w}, popped) = << w >>
      /\ buffer[b].writes = << w >> /\ popped => WriteChannel(buffer[b], {}, popped) = << >>
  BY WriteChannelMoves
<1> QED
  BY <1>1, <1>2, <1>3

\* With nothing in the first buffer nothing comes after it.
LEMMA NothingComes ==
    ASSUME System = "element", WritesMove, Nothing, buffer[Host].writes = << >>
    PROVE  Nothing' /\ Offered(Registers) = {} /\ Offered(Ram) = {} /\ Offered(Core(0)) = {}
<1>1. \A d \in {Control, Array, Memory, PE(0), Registers, Ram, Core(0)} :
         buffer[Upstream(d)].writes = << >>
  BY TreeOfBuffers DEF Nothing, Behind
<1>2. \A d \in {Control, Array, Memory, PE(0), Registers, Ram, Core(0)} : Offered(d) = {}
  BY <1>1, OfferedTo
<1>3. ASSUME NEW b \in Behind PROVE buffer'[b].writes = << >>
  <2>1. b \in Buffers /\ buffer[b].writes = << >> /\ Offered(b) = {}
    BY <1>2, BuffersDiffer DEF Nothing, Behind
  <2> QED
    BY <2>1, BufferMoves
<1> QED
  BY <1>2, <1>3 DEF Nothing

\* The posted write goes to the buffer the mapper of the test system chooses.
LEMMA WriteCrosses ==
    ASSUME System = "element", LastStage = 1, WritesMove, Nothing,
           NEW n, IsWrite(n), buffer[Host].writes = << Posted(n) >>
    PROVE  /\ Only(FirstStop(n), Passed(n))'
           /\ Popped(Host)
           /\ Offered(Registers) = {} /\ Offered(Ram) = {} /\ Offered(Core(0)) = {}
<1> DEFINE to == Forward(Host, Posted(n).index)
<1>1. FirstStop(n) = to.to /\ Passed(n) = [index |-> to.index, data |-> Posted(n).data]
  BY DEF FirstStop, Passed, Posted
<1>2. FirstStop(n) \in {Control, Array, Memory}
  BY WritesAreMapped DEF WritesSignal, WritesRegister, WritesInstruction, WritesInput
<1>3. \A d \in {Control, Array, Memory} :
         Offered(d) = IF FirstStop(n) = d THEN {Passed(n)} ELSE {}
  <2> SUFFICES ASSUME NEW d \in {Control, Array, Memory}
               PROVE  Offered(d) = IF FirstStop(n) = d THEN {Passed(n)} ELSE {}
    OBVIOUS
  <2>1. Upstream(d) = Host
    BY TreeOfBuffers
  <2> HIDE DEF to
  <2>2. to = Forward(Upstream(d), Posted(n).index)
    BY <2>1 DEF to
  <2> QED
    BY <1>1, <2>1, <2>2, OfferedTo
<1>4. \A d \in {PE(0), Registers, Ram, Core(0)} : Offered(d) = {}
  <2> SUFFICES ASSUME NEW d \in {PE(0), Registers, Ram, Core(0)} PROVE Offered(d) = {}
    OBVIOUS
  <2>1. buffer[Upstream(d)].writes = << >>
    BY TreeOfBuffers DEF Nothing, Behind
  <2> QED
    BY <2>1, OfferedTo
<1>5. /\ \A b \in Behind : b \in Buffers
      /\ PE(0) \notin {Control, Array, Memory}
      /\ {Control, Array, Memory} \subseteq Behind
  BY BuffersDiffer DEF Behind
<1>6. ASSUME NEW b \in Behind, b # FirstStop(n) PROVE buffer'[b].writes = << >>
  <2>1. buffer[b].writes = << >> /\ Offered(b) = {}
    BY <1>3, <1>4, <1>6 DEF Nothing, Behind
  <2> QED
    BY <1>5, <2>1, BufferMoves
<1>7. buffer'[FirstStop(n)].writes = << Passed(n) >>
  <2>1. buffer[FirstStop(n)].writes = << >> /\ Offered(FirstStop(n)) = {Passed(n)}
    BY <1>2, <1>3 DEF Nothing, Behind
  <2>2. ~ResetOf(FirstStop(n))
    BY <1>2, ResetOfBuffers
  <2> QED
    BY <1>2, <1>5, <2>1, <2>2, BufferMoves
<1>8. Popped(Host)
  <2>1. FirstStop(n) \in Buffers /\ buffer[FirstStop(n)].writes = << >>
    BY <1>2, <1>5 DEF Nothing
  <2> HIDE DEF to
  <2>2. FirstStop(n) = Forward(Host, Posted(n).index).to
    BY <1>1 DEF to
  <2> QED
    BY <2>1, <2>2, PoppedWhen
<1>9. (\A b \in Behind \ {FirstStop(n)} : buffer[b].writes = << >>)'
  BY <1>6
<1> QED
  BY <1>4, <1>7, <1>8, <1>9 DEF Only

\* A write that has crossed to the control registers or to the memory gets there, and
\* one that has crossed to the elements goes on.
LEMMA WriteArrives ==
    ASSUME System = "element", LastStage = 1, WritesMove, buffer[Host].writes = << >>,
           NEW b \in Behind, NEW i, NEW v, Only(b, [index |-> i, data |-> v])
    PROVE  /\ b = Control => /\ Offered(Registers) = {[index |-> i, data |-> v]}
                             /\ Offered(Ram) = {} /\ Offered(Core(0)) = {} /\ Nothing'
           /\ b = Memory => /\ Offered(Ram) = {[index |-> i, data |-> v]}
                            /\ Offered(Registers) = {} /\ Offered(Core(0)) = {} /\ Nothing'
           /\ b = Array /\ ~control.reset =>
                 /\ Offered(Registers) = {} /\ Offered(Ram) = {} /\ Offered(Core(0)) = {}
                 /\ Only(PE(0), [index |-> i, data |-> v])'
           /\ b = PE(0) /\ i < ElementWords =>
                 /\ Offered(Core(0)) = {[index |-> i, data |-> v]}
                 /\ Offered(Registers) = {} /\ Offered(Ram) = {} /\ Nothing'
<1> DEFINE w == [index |-> i, data |-> v]
<1>1. w.index = i /\ w = [index |-> i, data |-> w.data]
  OBVIOUS
<1>2. /\ buffer[b].writes = << w >>
      /\ \A c \in Behind \ {b} : buffer[c].writes = << >>
  BY DEF Only
<1> HIDE DEF w
<1>3. /\ \A c \in Behind : c \in Buffers
      /\ Behind = {Control, Array, Memory, PE(0)}
      /\ Control # Array /\ Control # Memory /\ Array # Memory
      /\ PE(0) \notin {Control, Array, Memory} /\ Host \notin Behind
      /\ \A d \in {Registers, Ram, Core(0), Nobody} : d \notin Buffers
      /\ Registers # Nobody /\ Ram # Nobody /\ Core(0) # Nobody
  BY BuffersDiffer DEF Behind
<1> DEFINE Devices == {Control, Array, Memory, PE(0), Registers, Ram, Core(0)}
<1>4. \A d \in Devices : Upstream(d) # b => Offered(d) = {}
  <2> SUFFICES ASSUME NEW d \in Devices, Upstream(d) # b PROVE Offered(d) = {}
    OBVIOUS
  <2>1. Upstream(d) \in {Host} \cup (Behind \ {b})
    BY <1>3, TreeOfBuffers
  <2>2. buffer[Upstream(d)].writes = << >>
    BY <1>2, <2>1
  <2> QED
    BY <2>2, OfferedTo
<1>5. ASSUME NEW c \in Behind, c # b, Upstream(c) # b PROVE buffer'[c].writes = << >>
  BY <1>2, <1>3, <1>4, <1>5, BufferMoves
<1>6. CASE b = Control
  <2>1. Forward(b, i) = Mapped(Registers, i) /\ Upstream(Registers) = b
    BY <1>6, TreeOfBuffers
  <2>2. Offered(Registers) = {w}
    BY <1>1, <1>2, <2>1, OfferedTo DEF Mapped
  <2>3. Popped(b)
    BY <1>1, <1>2, <1>3, <2>1, PoppedWhen DEF Mapped
  <2>4. Offered(b) = {} /\ Offered(Ram) = {} /\ Offered(Core(0)) = {}
    BY <1>3, <1>4, <1>6, TreeOfBuffers
  <2>5. buffer'[b].writes = << >>
    BY <1>2, <1>3, <2>3, <2>4, BufferMoves
  <2>6. \A c \in Behind : buffer'[c].writes = << >>
    BY <1>3, <1>5, <1>6, <2>5, TreeOfBuffers
  <2> QED
    BY <1>3, <1>6, <2>2, <2>4, <2>6 DEF Nothing, w
<1>7. CASE b = Memory
  <2>1. Forward(b, i) = Mapped(Ram, i) /\ Upstream(Ram) = b
    BY <1>7, TreeOfBuffers
  <2>2. Offered(Ram) = {w}
    BY <1>1, <1>2, <2>1, OfferedTo DEF Mapped
  <2>3. Popped(b)
    BY <1>1, <1>2, <1>3, <2>1, PoppedWhen DEF Mapped
  <2>4. Offered(b) = {} /\ Offered(Registers) = {} /\ Offered(Core(0)) = {}
    BY <1>3, <1>4, <1>7, TreeOfBuffers
  <2>5. buffer'[b].writes = << >>
    BY <1>2, <1>3, <2>3, <2>4, BufferMoves
  <2>6. \A c \in Behind : buffer'[c].writes = << >>
    BY <1>3, <1>5, <1>7, <2>5, TreeOfBuffers
  <2> QED
    BY <1>3, <1>7, <2>2, <2>4, <2>6 DEF Nothing, w
<1>8. CASE b = Array /\ ~control.reset
  <2>1. Forward(b, i) = Mapped(PE(0), i) /\ Upstream(PE(0)) = b
    BY <1>8, TreeOfBuffers
  <2>2. Offered(PE(0)) = {w}
    BY <1>1, <1>2, <2>1, OfferedTo DEF Mapped
  <2>3. Popped(b)
    BY <1>1, <1>2, <1>3, <1>8, <2>1, PoppedWhen DEF Mapped
  <2>4. Offered(b) = {} /\ Offered(Registers) = {} /\ Offered(Ram) = {} /\ Offered(Core(0)) = {}
    BY <1>3, <1>4, <1>8, TreeOfBuffers
  <2>5. buffer'[b].writes = << >>
    BY <1>2, <1>3, <2>3, <2>4, BufferMoves
  <2>6. buffer'[PE(0)].writes = << w >>
    BY <1>2, <1>3, <1>8, <2>2, BufferMoves, ResetOfBuffers
  <2>7. \A c \in Behind \ {PE(0)} : buffer'[c].writes = << >>
    BY <1>3, <1>5, <1>8, <2>5, TreeOfBuffers
  <2>8. (\A c \in Behind \ {PE(0)} : buffer[c].writes = << >>)'
    BY <2>7
  <2> QED
    BY <1>3, <1>8, <2>4, <2>6, <2>8 DEF Only, w
<1>9. CASE b = PE(0) /\ i < ElementWords
  <2>1. Forward(b, i) = Mapped(Core(0), i) /\ Upstream(Core(0)) = b
    BY <1>9, TreeOfBuffers
  <2>2. Offered(Core(0)) = {w}
    BY <1>1, <1>2, <2>1, OfferedTo DEF Mapped
  <2>3. Popped(b)
    BY <1>1, <1>2, <1>3, <2>1, PoppedWhen DEF Mapped
  <2>4. Offered(b) = {} /\ Offered(Registers) = {} /\ Offered(Ram) = {}
    BY <1>3, <1>4, <1>9, TreeOfBuffers
  <2>5. buffer'[b].writes = << >>
    BY <1>2, <1>3, <2>3, <2>4, BufferMoves
  <2>6. \A c \in Behind : buffer'[c].writes = << >>
    BY <1>3, <1>5, <1>9, <2>5, TreeOfBuffers
  <2> QED
    BY <1>3, <1>9, <2>2, <2>4, <2>6 DEF Nothing, w
<1> QED
  BY <1>6, <1>7, <1>8, <1>9

-----------------------------------------------------------------------------
(* What an edge does to the element and its memory.                        *)

\* The signals reach the core one cycle after the registers have them.
LEMMA OneStage ==
    ASSUME stage = << stage[1] >>
    PROVE  /\ LastStage = 1 /\ AtCore = stage[1]
           /\ ClockStages => stage' = << control >>
<1>1. LastStage = 1 /\ AtCore = stage[1]
  BY DEF LastStage, AtCore
<1>2. DOMAIN stage = {1}
  OBVIOUS
<1>3. ClockStages => stage' = [k \in {1} |-> control]
  BY <1>2 DEF ClockStages
<1>4. [k \in {1} |-> control] = << control >>
  OBVIOUS
<1> QED
  BY <1>1, <1>3, <1>4

\* What becomes of the registers, the instructions and the step of the core.
LEMMA CoreMoves ==
    ASSUME System = "element", ClockCores
    PROVE  /\ core'[0].registers = Loaded(0, core[0].registers, CounterWords)
           /\ core'[0].instructions = Loaded(0, core[0].instructions, CounterWords + RegisterWords)
           /\ core'[0].step = IF AtCore.reset THEN 1
                              ELSE IF Triggers(0) /\ Operation(0).op # "halt"
                                   THEN core[0].step + 1 ELSE core[0].step
  BY BuffersDiffer DEF ClockCores

\* The host's word goes where its index says, if the core is enabled.
Unchanged(words, S, next) == \A i \in S : next[i] = words[i]
Changed(words, S, next, base, k, v) ==
    \A i \in S : next[i] = IF k = base + i THEN v ELSE words[i]

LEMMA LoadedNothing ==
    ASSUME NEW words, NEW base, Offered(Core(0)) = {}
    PROVE  Unchanged(words, DOMAIN words, Loaded(0, words, base))
  BY DEF Loaded, Unchanged

LEMMA LoadedWord ==
    ASSUME NEW words, NEW base, AtCore.enable,
           NEW k, NEW v, Offered(Core(0)) = {[index |-> k, data |-> v]}
    PROVE  Changed(words, DOMAIN words, Loaded(0, words, base), base, k, v)
<1> SUFFICES ASSUME NEW i \in DOMAIN words
             PROVE  Loaded(0, words, base)[i] = IF k = base + i THEN v ELSE words[i]
  BY DEF Changed
<1> DEFINE w == [index |-> k, data |-> v]
<1>1. w.index = k /\ w.data = v /\ Offered(Core(0)) = {w}
  OBVIOUS
<1> HIDE DEF w
<1>2. (CHOOSE x \in {w} : TRUE) = w
  OBVIOUS
<1>3. (\E x \in Offered(Core(0)) : x.index = base + i) <=> w.index = base + i
  BY <1>1
<1> QED
  BY <1>1, <1>2, <1>3 DEF Loaded

\* The registers and the instructions after an edge.
LEMMA CoreUntouched ==
    ASSUME System = "element", Shaped, ClockCores, Offered(Core(0)) = {}
    PROVE  /\ \A i \in 0 .. RegisterWords - 1 : core'[0].registers[i] = core[0].registers[i]
           /\ \A i \in 0 .. InstructionWords - 1 :
                 core'[0].instructions[i] = core[0].instructions[i]
<1>1. /\ Unchanged(core[0].registers, DOMAIN core[0].registers, core'[0].registers)
      /\ Unchanged(core[0].instructions, DOMAIN core[0].instructions, core'[0].instructions)
  BY CoreMoves, LoadedNothing
<1> QED
  BY <1>1 DEF Unchanged, Shaped

LEMMA CoreLoaded ==
    ASSUME System = "element", Shaped, ClockCores, AtCore.enable,
           NEW k, NEW v, Offered(Core(0)) = {[index |-> k, data |-> v]}
    PROVE  /\ \A i \in 0 .. RegisterWords - 1 :
                 core'[0].registers[i] =
                    IF k = CounterWords + i THEN v ELSE core[0].registers[i]
           /\ \A i \in 0 .. InstructionWords - 1 :
                 core'[0].instructions[i] =
                    IF k = CounterWords + RegisterWords + i THEN v ELSE core[0].instructions[i]
<1>1. /\ Changed(core[0].registers, DOMAIN core[0].registers, core'[0].registers,
                 CounterWords, k, v)
      /\ Changed(core[0].instructions, DOMAIN core[0].instructions, core'[0].instructions,
                 CounterWords + RegisterWords, k, v)
  BY CoreMoves, LoadedWord
<1> QED
  BY <1>1 DEF Changed, Shaped

\* The types and domains of the core, the channels and the memory.
LEMMA ShapesKept ==
    ASSUME System = "element", Shaped,
           ClockControl, ClockStages, ClockCores, ClockChannels, ClockPorts, ClockMemory
    PROVE  /\ DOMAIN control' = {"reset", "enable", "execute"}
           /\ stage' = << stage'[1] >>
           /\ DOMAIN core'[0].registers = 0 .. RegisterWords - 1
           /\ DOMAIN core'[0].instructions = 0 .. InstructionWords - 1
           /\ core'[0].step \in Nat \ {0}
           /\ DOMAIN channel' = Names
           /\ DOMAIN port' = Names
           /\ DOMAIN memory'.ram = 0 .. Size - 1
<1>1. stage' = << stage'[1] >>
  BY OneStage DEF Shaped
<1>2. /\ DOMAIN core'[0].registers = 0 .. RegisterWords - 1
      /\ DOMAIN core'[0].instructions = 0 .. InstructionWords - 1
  BY CoreMoves DEF Loaded, Shaped
<1>3. core'[0].step \in Nat \ {0}
  BY CoreMoves DEF Shaped
<1>4. DOMAIN channel' = Names
  BY DEF ClockChannels, Channels, Shaped
<1>5. DOMAIN port' = Names
  BY DEF ClockPorts, Channels, Shaped
<1>6. DOMAIN memory'.ram = 0 .. Size - 1
  BY DEF ClockMemory, Shaped
<1>7. DOMAIN control' = {"reset", "enable", "execute"}
  BY DEF ClockControl, Shaped
<1> QED
  BY <1>1, <1>2, <1>3, <1>4, <1>5, <1>6, <1>7

\* A core that does not step leaves its channels, and the memory, at rest.
LEMMA RestKept ==
    ASSUME System = "element", Shaped, AtRest,
           Triggers(0) => Operation(0).op = "halt",
           ClockChannels, ClockPorts, ClockMemory
    PROVE  AtRest'
<1>1. /\ Channels = Names
      /\ \A n \in Names : channel[n] = << >> /\ port[n] = << >>
      /\ "readIndex" \in Names /\ ~memory.answering
  BY DEF Channels, Shaped, AtRest, Names, Outgoing
<1>2. << >> \o << >> = << >> /\ \A p : Rest(<< >>, p) = << >>
  BY DEF Rest
<1>3. ASSUME NEW n \in Names PROVE channel'[n] = << >>
  <2>1. ~(Triggers(0) /\ Operation(0).op \in {"send", "forward"} /\ Operation(0).to = n)
    OBVIOUS
  <2> QED
    BY <1>1, <1>2, <2>1, OneOwner DEF ClockChannels, If
<1>4. ASSUME NEW n \in Names PROVE port'[n] = << >>
  BY <1>1, <1>2 DEF ClockPorts, If
<1>5. ~memory'.answering
  BY <1>1 DEF ClockMemory
<1> QED
  BY <1>3, <1>4, <1>5 DEF AtRest

\* While both are reset, everything comes to rest.
LEMMA RestAfterReset ==
    ASSUME System = "element", Shaped, AtCore.reset, control.reset,
           ClockCores, ClockChannels, ClockPorts, ClockMemory
    PROVE  AtRest' /\ core'[0].step = 1
  BY CoreMoves DEF AtRest, ClockChannels, ClockPorts, ClockMemory, Channels, Shaped

\* The element goes on waiting until execute reaches its core.
LEMMA WaitingKept ==
    ASSUME System = "element", Shaped, Waiting,
           ~control.execute => ~AtCore.execute, AtCore.reset => ~AtCore.execute,
           ClockStages, ClockCores, ClockChannels, ClockPorts, ClockMemory
    PROVE  Waiting'
<1>1. stage' = << control >> /\ AtCore' = control
  <2>1. stage' = << control >>
    BY OneStage DEF Shaped
  <2> QED
    BY <2>1 DEF AtCore, LastStage
<1>2. core[0].step \in Nat \ {0}
  BY DEF Shaped
<1>3. ~AtCore.execute => ~Triggers(0)
  BY DEF Triggers
<1>4. ASSUME core'[0].step = 1 PROVE AtRest'
  <2>1. core[0].step = 1
    BY <1>2, <1>4, CoreMoves DEF Waiting
  <2>2. Triggers(0) => Operation(0).op = "halt"
    BY <1>2, <1>3, <1>4, <2>1, CoreMoves
  <2> QED
    BY <2>1, <2>2, RestKept DEF Waiting
<1>5. ASSUME ~control.execute PROVE core'[0].step = 1
  BY <1>3, <1>5, CoreMoves DEF Waiting
<1> QED
  BY <1>1, <1>4, <1>5 DEF Waiting

\* Nothing is programmed before the signals have been given.
LEMMA WordsBefore ==
    ASSUME NEW n \in Int, n <= 3
    PROVE  Words(n) /\ Words(n)'
<1>1. /\ RegisterWords \in Nat /\ InstructionWords \in Nat /\ Len(Inputs) \in Nat
  BY Amounts
<1>2. /\ \A i \in 0 .. RegisterWords - 1 : ~(4 + i <= n)
      /\ \A i \in 0 .. InstructionWords - 1 : ~(4 + RegisterWords + i <= n)
      /\ \A i \in 1 .. Len(Inputs) : ~(3 + RegisterWords + InstructionWords + i <= n)
  BY <1>1
<1> QED
  BY <1>2 DEF Words

\* An access that writes no word leaves the words there are.
LEMMA SameWords ==
    ASSUME NEW n \in Int,
           n = Begin \/ n > Begin \/ n > 3 + RegisterWords + InstructionWords + Len(Inputs)
    PROVE  /\ Words(n - 1) => Words(n)
           /\ Words(n - 1)' => Words(n)'
<1>1. /\ RegisterWords \in Nat /\ InstructionWords \in Nat /\ Len(Inputs) \in Nat
  BY Amounts
<1>2. n > 3 + RegisterWords + InstructionWords + Len(Inputs)
  BY <1>1 DEF Begin
<1>3. /\ \A i \in 0 .. RegisterWords - 1 : 4 + i <= n - 1
      /\ \A i \in 0 .. InstructionWords - 1 : 4 + RegisterWords + i <= n - 1
      /\ \A i \in 1 .. Len(Inputs) : 3 + RegisterWords + InstructionWords + i <= n - 1
  BY <1>1, <1>2
<1> QED
  BY <1>3 DEF Words

\* What the host has written stays where it is: before the element has done anything its
\* channels to the write port of the memory are empty.
LEMMA WordsKept ==
    ASSUME System = "element", Shaped, NEW n \in Int, Words(n), ~AtCore.reset, Waiting,
           ClockCores, ClockMemory, Offered(Core(0)) = {}, Offered(Ram) = {}
    PROVE  Words(n)'
<1>1. /\ DOMAIN core[0].registers = 0 .. RegisterWords - 1
      /\ DOMAIN core[0].instructions = 0 .. InstructionWords - 1
      /\ core[0].step \in Nat \ {0}
  BY DEF Shaped
<1>2. \A i \in 0 .. RegisterWords - 1 : core'[0].registers[i] = core[0].registers[i]
  BY CoreUntouched
<1>3. \A i \in 0 .. InstructionWords - 1 : core'[0].instructions[i] = core[0].instructions[i]
  BY CoreUntouched
<1>4. ASSUME core'[0].step = 1 PROVE core[0].step = 1 /\ memory'.ram = memory.ram
  <2>1. core[0].step = 1
    BY <1>1, <1>4, CoreMoves
  <2>2. ~Writing
    BY <2>1 DEF Waiting, AtRest, Writing, Names, Outgoing
  <2> QED
    BY <2>1, <2>2 DEF ClockMemory
<1> QED
  BY <1>2, <1>3, <1>4 DEF Words

\* A word for the element is in its place one edge after the core has been offered it.
LEMMA WordTaken ==
    ASSUME System = "element", Shaped, NEW n \in Int, Words(n - 1), ~AtCore.reset, AtCore.enable,
           Waiting, ClockCores, ClockMemory, Offered(Ram) = {}, Offered(Core(0)) = {Passed(n)},
           \/ \E i \in 0 .. RegisterWords - 1 : WritesRegister(n, i)
           \/ \E i \in 0 .. InstructionWords - 1 : WritesInstruction(n, i)
    PROVE  Words(n)'
<1> DEFINE R == RegisterWords
           I == InstructionWords
           C == CounterWords
           N == Len(Inputs)
<1>0. R \in Nat /\ I \in Nat /\ C \in Nat /\ N \in Nat
  BY Amounts
<1>1. /\ DOMAIN core[0].registers = 0 .. R - 1
      /\ DOMAIN core[0].instructions = 0 .. I - 1
      /\ core[0].step \in Nat \ {0}
  BY DEF Shaped
<1>2. PICK k, v : Passed(n) = [index |-> k, data |-> v]
  BY DEF Passed
<1>a. Offered(Core(0)) = {[index |-> k, data |-> v]}
  BY <1>2
<1>3. \A i \in 0 .. R - 1 :
         core'[0].registers[i] = IF k = C + i THEN v ELSE core[0].registers[i]
  BY <1>a, CoreLoaded
<1>4. \A i \in 0 .. I - 1 :
         core'[0].instructions[i] = IF k = C + R + i THEN v ELSE core[0].instructions[i]
  BY <1>a, CoreLoaded
<1>5. /\ n > 3 /\ n <= 3 + R + I
      /\ \A i \in 0 .. R - 1 : (k = C + i) = (n = 4 + i) /\ (k = C + i => v = Word(0, i))
      /\ \A i \in 0 .. I - 1 : (k = C + R + i) = (n = 4 + R + i)
                                 /\ (k = C + R + i => v = Word(0, R + i))
  <2>1. CASE \E i \in 0 .. R - 1 : WritesRegister(n, i)
    <3>1. PICK j \in 0 .. R - 1 : n = 4 + j /\ k = C + j /\ v = Word(0, j)
      BY <1>2, <2>1 DEF WritesRegister
    <3> QED
      BY <1>0, <3>1
  <2>2. CASE \E i \in 0 .. I - 1 : WritesInstruction(n, i)
    <3>1. PICK j \in 0 .. I - 1 : n = 4 + R + j /\ k = C + R + j /\ v = Word(0, R + j)
      BY <1>2, <2>2 DEF WritesInstruction
    <3> QED
      BY <1>0, <3>1
  <2> QED
    BY <2>1, <2>2
<1>6. ASSUME NEW i \in 0 .. R - 1, 4 + i <= n PROVE core'[0].registers[i] = Word(0, i)
  <2>1. n = 4 + i \/ 4 + i <= n - 1
    BY <1>6
  <2>2. 4 + i <= n - 1 => core[0].registers[i] = Word(0, i)
    BY DEF Words
  <2> QED
    BY <1>3, <1>5, <2>1, <2>2
<1>7. ASSUME NEW i \in 0 .. I - 1, 4 + R + i <= n
      PROVE  core'[0].instructions[i] = Word(0, R + i)
  <2>1. n = 4 + R + i \/ 4 + R + i <= n - 1
    BY <1>0, <1>7
  <2>2. 4 + R + i <= n - 1 => core[0].instructions[i] = Word(0, R + i)
    BY DEF Words
  <2> QED
    BY <1>4, <1>5, <2>1, <2>2
<1>8. \A i \in 1 .. N : ~(3 + R + I + i <= n)
  BY <1>0, <1>5
<1> QED
  BY <1>6, <1>7, <1>8 DEF Words

\* An input word is in the memory one edge after the memory has been offered it.
LEMMA InputTaken ==
    ASSUME System = "element", Shaped, NEW n \in Int, Words(n - 1), ~AtCore.reset, Waiting,
           ClockCores, ClockMemory, Offered(Core(0)) = {}, Offered(Ram) = {Passed(n)},
           NEW j \in 1 .. Len(Inputs), WritesInput(n, j)
    PROVE  Words(n)'
<1> DEFINE R == RegisterWords
           I == InstructionWords
           N == Len(Inputs)
<1>0. R \in Nat /\ I \in Nat /\ N \in Nat /\ N <= Size /\ Size \in Nat
  BY Amounts
<1>1. /\ DOMAIN core[0].registers = 0 .. R - 1
      /\ DOMAIN core[0].instructions = 0 .. I - 1
      /\ core[0].step \in Nat \ {0}
      /\ DOMAIN memory.ram = 0 .. Size - 1
  BY DEF Shaped
<1>2. /\ n = 3 + R + I + j
      /\ Passed(n) = [index |-> j - 1, data |-> Inputs[j]]
  BY DEF WritesInput
<1>3. \A i \in 0 .. R - 1 : core'[0].registers[i] = core[0].registers[i]
  BY CoreUntouched
<1>4. \A i \in 0 .. I - 1 : core'[0].instructions[i] = core[0].instructions[i]
  BY CoreUntouched
<1>5. memory'.ram = [memory.ram EXCEPT ![j - 1] = Inputs[j]]
  <2> DEFINE w == [index |-> j - 1, data |-> Inputs[j]]
  <2>1. w.index = j - 1 /\ w.data = Inputs[j] /\ Offered(Ram) = {w}
    BY <1>2
  <2> HIDE DEF w
  <2>2. (CHOOSE x \in {w} : TRUE) = w /\ {w} # {}
    OBVIOUS
  <2> QED
    BY <2>1, <2>2 DEF ClockMemory
<1>6. ASSUME NEW i \in 0 .. R - 1, 4 + i <= n PROVE core'[0].registers[i] = Word(0, i)
  <2>1. 4 + i <= n - 1
    BY <1>0, <1>2
  <2> QED
    BY <1>3, <2>1 DEF Words
<1>7. ASSUME NEW i \in 0 .. I - 1, 4 + R + i <= n
      PROVE  core'[0].instructions[i] = Word(0, R + i)
  <2>1. 4 + R + i <= n - 1
    BY <1>0, <1>2
  <2> QED
    BY <1>4, <2>1 DEF Words
<1>8. ASSUME core'[0].step = 1, NEW i \in 1 .. N, 3 + R + I + i <= n
      PROVE  memory'.ram[i - 1] = Inputs[i]
  <2>1. core[0].step = 1
    BY <1>1, <1>8, CoreMoves
  <2>2. i - 1 \in DOMAIN memory.ram
    BY <1>0, <1>1
  <2>3. CASE i = j
    BY <1>5, <2>2, <2>3
  <2>4. CASE i # j
    <3>1. 3 + R + I + i <= n - 1 /\ i - 1 # j - 1
      BY <1>0, <1>2, <1>8, <2>4
    <3>2. memory.ram[i - 1] = Inputs[i]
      BY <2>1, <3>1 DEF Words
    <3> QED
      BY <1>5, <2>2, <3>1, <3>2
  <2> QED
    BY <2>3, <2>4
<1> QED
  BY <1>6, <1>7, <1>8 DEF Words

-----------------------------------------------------------------------------
(* How a write lands, edge by edge.                                        *)

Edge == /\ ClockControl /\ ClockStages /\ ClockBuffers /\ ClockCores /\ ClockChannels
        /\ ClockPorts /\ ClockMemory

LEMMA BeginIsLate == Begin \in Int /\ Begin > 5
  BY Amounts DEF Begin

\* The control registers keep what they have, and a reset clears the others.
LEMMA ControlStays ==
    ASSUME Shaped, ClockControl, Offered(Registers) = {}
    PROVE  /\ ~control.reset => ~control'.reset
           /\ control.reset => Gives(control', 1)
           /\ \A n \in Int : Gives(control, n) => Gives(control', n)
<1>1. control' = IF control.reset THEN [control EXCEPT !.enable = FALSE, !.execute = FALSE]
                 ELSE control
  BY DEF ClockControl
<1>2. ASSUME control.reset PROVE control'.reset /\ ~control'.enable /\ ~control'.execute
  BY <1>1, <1>2 DEF Shaped
<1>3. control.reset => Gives(control', 1)
  BY <1>2, BeginIsLate DEF Gives
<1>4. ASSUME NEW n \in Int, Gives(control, n) PROVE Gives(control', n)
  <2>1. CASE n = 1
    BY <1>3, <1>4, <2>1 DEF Gives
  <2>2. CASE n # 1
    BY <1>1, <1>4, <2>2 DEF Gives
  <2> QED
    BY <2>1, <2>2
<1> QED
  BY <1>1, <1>3, <1>4

\* An access that is not for a signal leaves them as they are.
LEMMA GivesSame ==
    ASSUME NEW c, NEW n \in Int, n \notin {1, 2, 3, Begin}
    PROVE  Gives(c, n - 1) = Gives(c, n)
<1>1. /\ (n - 1 = 1) = (n = 1) \/ n = 2
      /\ (n - 1 >= 3) <=> (n >= 3)
      /\ (n - 1 >= Begin) <=> (n >= Begin)
      /\ n # 1 /\ n - 1 # 1
  BY BeginIsLate
<1> QED
  BY <1>1 DEF Gives

\* An edge that brings nothing to the core or to the memory takes nothing away.
LEMMA EdgeKeeps ==
    ASSUME System = "element", Shaped, Edge, NEW n \in Nat \ {0},
           Gives(control, n), Gives(AtCore, n), Waiting, Words(n),
           Offered(Ram) = {}, Offered(Core(0)) = {}
    PROVE  Waiting' /\ Words(n)'
<1>1. Waiting'
  BY WaitingKept, BeginIsLate DEF Gives, Edge
<1>2. Words(n)'
  <2>1. CASE n = 1
    BY <2>1, WordsBefore
  <2>2. CASE n # 1
    BY <2>2, WordsKept DEF Gives, Edge
  <2> QED
    BY <2>1, <2>2
<1> QED
  BY <1>1, <1>2

\* What has landed stays.
LEMMA LandedStays ==
    ASSUME System = "element", Shaped, Edge, NEW n \in Nat, Landed(n),
           Offered(Registers) = {}, Offered(Ram) = {}, Offered(Core(0)) = {}
    PROVE  Landed(n)'
<1> USE DEF Edge
<1>1. stage' = << control >> /\ AtCore' = control
  <2>1. stage' = << control >>
    BY OneStage DEF Shaped
  <2> QED
    BY <2>1 DEF AtCore, LastStage
<1>2. CASE n = 0
  <2>1. ~control'.reset
    BY <1>2, ControlStays DEF Landed, Signals
  <2>2. Words(n)'
    BY <1>2, WordsBefore
  <2> QED
    BY <1>2, <2>1, <2>2 DEF Landed, Signals
<1>3. CASE n # 0
  <2>1. Gives(control, n) /\ Gives(AtCore, n) /\ Waiting /\ Words(n)
    BY <1>3 DEF Landed, Signals
  <2>2. Gives(control', n) /\ Gives(AtCore', n)
    BY <1>1, <2>1, ControlStays
  <2>3. Waiting' /\ Words(n)'
    BY <1>3, <2>1, EdgeKeeps
  <2> QED
    BY <1>3, <2>2, <2>3 DEF Landed, Signals, Gives
<1> QED
  BY <1>2, <1>3

LEMMA DoneStays ==
    ASSUME System = "element", Shaped, Edge, NEW n \in Nat, Done(n), buffer[Host].writes = << >>
    PROVE  Done(n)'
<1>1. WritesMove
  BY ClockMovesWrites DEF Edge
<1>2. Nothing' /\ Offered(Registers) = {} /\ Offered(Ram) = {} /\ Offered(Core(0)) = {}
  BY <1>1, NothingComes DEF Done
<1> QED
  BY <1>2, LandedStays DEF Done

\* The first edge after the response to a write.
LEMMA DoneCrosses ==
    ASSUME System = "element", Shaped, Edge, NEW n \in Nat \ {0}, Done(n - 1), IsWrite(n),
           buffer[Host].writes = << Posted(n) >>
    PROVE  Crossing(n)' /\ Popped(Host)
<1>1. WritesMove /\ LastStage = 1
  BY ClockMovesWrites, OneStage DEF Edge, Shaped
<1>2. /\ Only(FirstStop(n), Passed(n))' /\ Popped(Host)
      /\ Offered(Registers) = {} /\ Offered(Ram) = {} /\ Offered(Core(0)) = {}
  BY <1>1, WriteCrosses DEF Done
<1>3. Landed(n - 1)'
  BY <1>2, LandedStays DEF Done
<1> QED
  BY <1>2, <1>3 DEF Crossing, IsWrite

\* The second edge.  A signal is in its register, an input word in its place, and a word
\* for the element in the element's buffer.
LEMMA SignalCrosses ==
    ASSUME System = "element", Shaped, Edge, NEW n \in Nat \ {0}, Crossing(n),
           buffer[Host].writes = << >>, WritesSignal(n)
    PROVE  Switching(n)'
<1> USE DEF Edge
<1>1. PICK i, v : /\ Passed(n) = [index |-> i, data |-> v]
                  /\ i = SignalOf(n).index /\ v = SignalOf(n).data
  BY DEF WritesSignal, SignalOf
<1>2. WritesMove /\ LastStage = 1 /\ FirstStop(n) = Control /\ Control \in Behind
  BY ClockMovesWrites, OneStage DEF Shaped, WritesSignal, Behind
<1>3. /\ Offered(Registers) = {[index |-> i, data |-> v]}
      /\ Offered(Ram) = {} /\ Offered(Core(0)) = {} /\ Nothing'
  BY <1>1, <1>2, WriteArrives DEF Crossing
<1>4. /\ control'.reset <=> IF i = ResetReg THEN v % 2 = 1 ELSE control.reset
      /\ control'.enable <=> IF i = EnableReg THEN v % 2 = 1 ELSE control.enable
      /\ control'.execute <=> IF i = ExecuteReg THEN v % 2 = 1 ELSE control.execute
  <2> DEFINE w == [index |-> i, data |-> v]
  <2>1. w.index = i /\ w.data = v
    OBVIOUS
  <2> HIDE DEF w
  <2>2. (CHOOSE x \in {w} : TRUE) = w /\ Offered(Registers) = {w} /\ {w} # {}
    BY <1>3 DEF w
  <2> QED
    BY <2>1, <2>2 DEF ClockControl
<1>5. AtCore' = control
  <2>1. stage' = << control >>
    BY OneStage DEF Shaped
  <2> QED
    BY <2>1 DEF AtCore, LastStage
<1>6. n \in {1, 2, 3, Begin} /\ Begin \in Int /\ Begin > 5
  BY BeginIsLate DEF WritesSignal
<1>7. CASE n = 1
  <2>1. i = ResetReg /\ v = 1
    BY <1>1, <1>7 DEF SignalOf
  <2>2. control'.reset
    BY <1>4, <2>1
  <2> QED
    BY <1>2, <1>3, <1>7, <2>2 DEF Switching, Crossing, IsWrite
<1>8. CASE n # 1
  <2>1. Gives(control, n - 1) /\ Gives(AtCore, n - 1) /\ Waiting /\ Words(n - 1)
    BY <1>8 DEF Crossing, Landed, Signals
  <2>2. Waiting' /\ Words(n - 1)'
    BY <1>3, <1>8, <2>1, EdgeKeeps
  <2>3. Gives(control', n)
    <3>1. CASE n = 2
      BY <1>1, <1>4, <1>6, <2>1, <3>1
         DEF SignalOf, Gives, ResetReg, EnableReg, ExecuteReg
    <3>2. CASE n = 3
      BY <1>1, <1>4, <1>6, <2>1, <3>2
         DEF SignalOf, Gives, ResetReg, EnableReg, ExecuteReg
    <3>3. CASE n = Begin
      BY <1>1, <1>4, <1>6, <2>1, <3>3
         DEF SignalOf, Gives, ResetReg, EnableReg, ExecuteReg
    <3> QED
      BY <1>6, <1>8, <3>1, <3>2, <3>3
  <2>4. Gives(AtCore', n - 1)
    BY <1>5, <2>1
  <2> QED
    BY <1>2, <1>3, <1>8, <2>2, <2>3, <2>4 DEF Switching, Crossing, IsWrite, Gives
<1> QED
  BY <1>7, <1>8

\* The numbers of the words.
LEMMA WordNumbers ==
    ASSUME NEW n \in Nat
    PROVE  /\ \A i \in 0 .. RegisterWords - 1 : WritesRegister(n, i) =>
                 n > 3 /\ n # Begin /\ CounterWords + i < ElementWords
           /\ \A i \in 0 .. InstructionWords - 1 : WritesInstruction(n, i) =>
                 n > 3 /\ n # Begin /\ CounterWords + RegisterWords + i < ElementWords
           /\ \A i \in 1 .. Len(Inputs) : WritesInput(n, i) => n > 3 /\ n # Begin
<1> USE Amounts DEF Begin, ElementWords
<1>1. ASSUME NEW i \in 0 .. RegisterWords - 1, n = 4 + i
      PROVE  n > 3 /\ n # Begin /\ CounterWords + i < ElementWords
  BY <1>1
<1>2. ASSUME NEW i \in 0 .. InstructionWords - 1, n = 4 + RegisterWords + i
      PROVE  n > 3 /\ n # Begin /\ CounterWords + RegisterWords + i < ElementWords
  BY <1>2
<1>3. ASSUME NEW i \in 1 .. Len(Inputs), n = 3 + RegisterWords + InstructionWords + i
      PROVE  n > 3 /\ n # Begin
  BY <1>3
<1> QED
  BY <1>1, <1>2, <1>3 DEF WritesRegister, WritesInstruction, WritesInput

LEMMA InputCrosses ==
    ASSUME System = "element", Shaped, Edge, NEW n \in Nat \ {0}, Crossing(n),
           buffer[Host].writes = << >>, NEW j \in 1 .. Len(Inputs), WritesInput(n, j)
    PROVE  Done(n)'
<1> USE DEF Edge
<1>1. PICK i, v : Passed(n) = [index |-> i, data |-> v]
  BY DEF Passed
<1>2. WritesMove /\ LastStage = 1 /\ FirstStop(n) = Memory /\ Memory \in Behind
  BY ClockMovesWrites, OneStage DEF Shaped, WritesInput, Behind
<1>3. /\ Offered(Ram) = {Passed(n)}
      /\ Offered(Registers) = {} /\ Offered(Core(0)) = {} /\ Nothing'
  BY <1>1, <1>2, WriteArrives DEF Crossing
<1>4. n > 3 /\ n # Begin
  BY WordNumbers
<1>5. Gives(control, n - 1) /\ Gives(AtCore, n - 1) /\ Waiting /\ Words(n - 1)
  BY <1>4 DEF Crossing, Landed, Signals
<1>6. AtCore' = control /\ Gives(control', n - 1)
  <2>1. stage' = << control >>
    BY OneStage DEF Shaped
  <2> QED
    BY <1>3, <1>5, <2>1, ControlStays DEF AtCore, LastStage
<1>7. Gives(control', n) /\ Gives(AtCore', n)
  BY <1>4, <1>5, <1>6, GivesSame
<1>8. Waiting'
  BY <1>5, WaitingKept, BeginIsLate DEF Gives
<1>9. ~AtCore.reset
  BY <1>4, <1>5 DEF Gives
<1>10. Words(n)'
  BY <1>3, <1>5, <1>9, InputTaken
<1> QED
  BY <1>3, <1>7, <1>8, <1>10 DEF Done, Landed, Signals, Gives

LEMMA WordCrosses ==
    ASSUME System = "element", Shaped, Edge, NEW n \in Nat \ {0}, Crossing(n),
           buffer[Host].writes = << >>, n > 3, FirstStop(n) = Array
    PROVE  Entering(n)'
<1> USE DEF Edge
<1>1. PICK i, v : Passed(n) = [index |-> i, data |-> v]
  BY DEF Passed
<1>2. WritesMove /\ LastStage = 1 /\ Array \in Behind
  BY ClockMovesWrites, OneStage DEF Shaped, Behind
<1>3. ~control.reset
  BY DEF Crossing, Landed, Signals, Gives
<1>4. /\ Offered(Registers) = {} /\ Offered(Ram) = {} /\ Offered(Core(0)) = {}
      /\ Only(PE(0), Passed(n))'
  BY <1>1, <1>2, <1>3, WriteArrives DEF Crossing
<1>5. Landed(n - 1)'
  BY <1>4, LandedStays DEF Crossing
<1> QED
  BY <1>4, <1>5 DEF Entering, Crossing, IsWrite

\* The third edge: the core takes the word.
LEMMA WordEnters ==
    ASSUME System = "element", Shaped, Edge, NEW n \in Nat \ {0}, Entering(n),
           buffer[Host].writes = << >>
    PROVE  Done(n)'
<1> USE DEF Edge
<1>1. \/ \E j \in 0 .. RegisterWords - 1 : WritesRegister(n, j)
      \/ \E j \in 0 .. InstructionWords - 1 : WritesInstruction(n, j)
  BY WritesAreMapped, BuffersDiffer DEF Entering, WritesSignal, WritesInput
<1>2. PICK i, v : Passed(n) = [index |-> i, data |-> v] /\ i < ElementWords
  BY <1>1, WordNumbers DEF WritesRegister, WritesInstruction
<1>3. WritesMove /\ LastStage = 1 /\ PE(0) \in Behind
  BY ClockMovesWrites, OneStage DEF Shaped, Behind
<1>4. /\ Offered(Core(0)) = {Passed(n)}
      /\ Offered(Registers) = {} /\ Offered(Ram) = {} /\ Nothing'
  BY <1>2, <1>3, WriteArrives DEF Entering
<1>5. n > 3 /\ n # Begin
  BY <1>1, WordNumbers
<1>6. Gives(control, n - 1) /\ Gives(AtCore, n - 1) /\ Waiting /\ Words(n - 1)
  BY <1>5 DEF Entering, Landed, Signals
<1>7. AtCore' = control /\ Gives(control', n - 1)
  <2>1. stage' = << control >>
    BY OneStage DEF Shaped
  <2> QED
    BY <1>4, <1>6, <2>1, ControlStays DEF AtCore, LastStage
<1>8. Gives(control', n) /\ Gives(AtCore', n)
  BY <1>5, <1>6, <1>7, GivesSame
<1>9. Waiting'
  BY <1>6, WaitingKept, BeginIsLate DEF Gives
<1>10. ~AtCore.reset /\ AtCore.enable
  BY <1>5, <1>6, GivesSame DEF Gives
<1>11. Words(n)'
  BY <1>1, <1>4, <1>6, <1>10, WordTaken
<1> QED
  BY <1>4, <1>8, <1>9, <1>11 DEF Done, Landed, Signals, Gives

\* The core gets the signal; of a reset, nothing else is certain yet.
LEMMA SignalEnters ==
    ASSUME System = "element", Shaped, Edge, NEW n \in Nat \ {0}, Switching(n),
           buffer[Host].writes = << >>
    PROVE  IF n = 1 THEN Clearing(n)' ELSE Done(n)'
<1> USE DEF Edge
<1>1. WritesMove
  BY ClockMovesWrites
<1>2. Nothing' /\ Offered(Registers) = {} /\ Offered(Ram) = {} /\ Offered(Core(0)) = {}
  BY <1>1, NothingComes DEF Switching
<1>3. AtCore' = control
  <2>1. stage' = << control >>
    BY OneStage DEF Shaped
  <2> QED
    BY <2>1 DEF AtCore, LastStage
<1>4. CASE n = 1
  <2>1. control.reset /\ Gives(control', 1)
    BY <1>2, <1>4, ControlStays DEF Switching
  <2> QED
    BY <1>2, <1>3, <1>4, <2>1 DEF Clearing, Gives
<1>5. CASE n # 1
  <2>1. Gives(control, n) /\ Gives(AtCore, n - 1) /\ Waiting /\ Words(n - 1)
    BY <1>5 DEF Switching
  <2>2. Gives(control', n) /\ Gives(AtCore', n)
    BY <1>2, <1>3, <2>1, ControlStays
  <2>3. Waiting'
    BY <2>1, WaitingKept, BeginIsLate DEF Gives
  <2>4. n \in {2, 3, Begin}
    BY <1>5, WritesAreMapped, BuffersDiffer
       DEF Switching, WritesSignal, WritesRegister, WritesInstruction, WritesInput
  <2>5. Words(n)'
    <3>1. CASE n <= 3
      BY <3>1, WordsBefore
    <3>2. CASE n > 3
      <4>1. ~AtCore.reset
        BY <2>1, <3>2 DEF Gives
      <4>2. Words(n - 1)'
        BY <1>2, <2>1, <4>1, WordsKept
      <4>3. Words(n - 1)' => Words(n)'
        BY <2>4, <3>2, SameWords, BeginIsLate
      <4> QED
        BY <4>2, <4>3
    <3> QED
      BY <3>1, <3>2
  <2> QED
    BY <1>2, <1>5, <2>2, <2>3, <2>5 DEF Done, Landed, Signals, Gives
<1> QED
  BY <1>4, <1>5

\* The fourth edge: the core and the channels are clear.
LEMMA ResetClears ==
    ASSUME System = "element", Shaped, Edge, NEW n \in Nat, Clearing(n),
           buffer[Host].writes = << >>
    PROVE  Done(n)'
<1> USE DEF Edge
<1>1. WritesMove
  BY ClockMovesWrites
<1>2. Nothing' /\ Offered(Registers) = {} /\ Offered(Ram) = {} /\ Offered(Core(0)) = {}
  BY <1>1, NothingComes DEF Clearing
<1>3. AtCore' = control
  <2>1. stage' = << control >>
    BY OneStage DEF Shaped
  <2> QED
    BY <2>1 DEF AtCore, LastStage
<1>4. n = 1 /\ Gives(control, 1) /\ control.reset /\ AtCore.reset
  BY DEF Clearing, Gives
<1>5. Gives(control', 1)
  BY <1>2, <1>4, ControlStays
<1>6. AtRest' /\ core'[0].step = 1
  BY <1>4, RestAfterReset
<1>7. Words(n)'
  BY <1>4, WordsBefore
<1> QED
  BY <1>2, <1>3, <1>4, <1>5, <1>6, <1>7 DEF Done, Landed, Signals, Gives, Waiting

-----------------------------------------------------------------------------
(* The host program and the bridge.                                        *)

\* The accesses are of five kinds, and the one in progress is one of them.
LEMMA AccessInProgress ==
    ASSUME System = "element", Shaped, HostTurn, Running
    PROVE  /\ driver.at \in 1 .. Len(Main) /\ Len(Main) \in Nat
           /\ Access.kind \in {"write", "check", "poll", "read", "count"}
           /\ IsWrite(driver.at) <=> Access.kind = "write"
<1>1. Main \in Seq(Accesses) /\ Len(Main) \in Nat
  BY WholeProgram, LenProperties
<1>2. driver.at \in 1 .. Len(Main)
  BY <1>1 DEF HostTurn
<1>3. Main[driver.at] \in Accesses
  BY <1>1, <1>2, ElementOfSeq
<1> QED
  BY <1>1, <1>2, <1>3 DEF Access, Accesses, IsWrite

\* After an answer the host goes on with the next access, or repeats its poll.
LEMMA HostGoesOn ==
    ASSUME System = "element", Shaped, HostTurn, Running, NEW value, driver' = Advance(value)
    PROVE  /\ DOMAIN driver' = DOMAIN driver
           /\ ~driver'.address /\ ~driver'.data
           /\ driver'.at \in {driver.at, driver.at + 1}
           /\ Access.kind = "write" => driver'.at = driver.at + 1
           /\ driver'.at = driver.at => Access.kind # "write"
           /\ HostTurn'
<1>1. /\ driver.at \in 1 .. Len(Main) /\ Len(Main) \in Nat
      /\ Access.kind \in {"write", "check", "poll", "read", "count"}
  BY AccessInProgress
<1>2. DOMAIN driver = {"at", "address", "data", "output", "interrupted", "status"}
  BY DEF Shaped
<1> DEFINE next == [driver EXCEPT !.at = @ + 1, !.address = FALSE, !.data = FALSE,
                                  !.status = IF driver.at = Len(Main) THEN "done" ELSE @]
<1>3. /\ DOMAIN next = DOMAIN driver
      /\ next.at = driver.at + 1 /\ ~next.address /\ ~next.data
      /\ next.status = IF driver.at = Len(Main) THEN "done" ELSE "running"
  BY <1>2 DEF Running
<1> HIDE DEF next
<1>4. /\ DOMAIN driver' = DOMAIN driver
      /\ ~driver'.address /\ ~driver'.data
      /\ \/ /\ driver'.at = driver.at + 1
            /\ driver'.status \in {next.status, "failed"}
         \/ /\ driver'.at = driver.at /\ driver'.status = "running"
            /\ Access.kind = "poll"
  <2>0. driver' = CASE Access.kind \in {"write", "count"} -> next
                    [] Access.kind = "check" ->
                          IF value = Access.data THEN next ELSE [next EXCEPT !.status = "failed"]
                    [] Access.kind = "poll" ->
                          IF value # 0 \/ driver.interrupted THEN next
                          ELSE [driver EXCEPT !.address = FALSE, !.data = FALSE]
                    [] Access.kind = "read" -> [next EXCEPT !.output = Append(@, value)]
    BY DEF Advance, next
  <2>1. CASE Access.kind \in {"write", "count"}
    BY <2>0, <2>1, <1>3
  <2>2. CASE Access.kind = "check"
    BY <2>0, <2>2, <1>2, <1>3
  <2>3. CASE Access.kind = "poll"
    BY <2>0, <2>3, <1>2, <1>3 DEF Running
  <2>4. CASE Access.kind = "read"
    BY <2>0, <2>4, <1>2, <1>3
  <2> QED
    BY <1>1, <2>1, <2>2, <2>3, <2>4
<1>5. HostTurn'
  BY <1>1, <1>3, <1>4 DEF HostTurn, Running
<1> QED
  BY <1>1, <1>4, <1>5

\* What the bridge does in a cycle, flag by flag.
LEMMA BridgeMoves ==
    ASSUME ClockBridge
    PROVE  /\ DOMAIN axi' = {"awvalid", "wvalid", "wready", "write_address", "write_data",
                             "write_req", "bvalid", "arvalid", "arready", "read_address",
                             "read_req", "rvalid", "rdata"}
           /\ axi'.awvalid <=> axi.awvalid /\ ~axi.wready
           /\ axi'.wvalid <=> axi.wvalid /\ ~axi.wready
           /\ axi'.wready <=> axi.awvalid /\ axi.wvalid /\ ~axi.wready
           /\ axi'.write_address = IF axi.awvalid /\ axi.wvalid /\ ~axi.wready
                                   THEN Access.index ELSE axi.write_address
           /\ axi'.write_data = IF axi.wready /\ axi.wvalid THEN Access.data ELSE axi.write_data
           /\ axi'.write_req <=> \/ axi.wready /\ axi.awvalid /\ axi.wvalid
                                 \/ axi.write_req /\ ~HasRoom(buffer[Host])
           /\ axi'.bvalid <=> axi.write_req /\ HasRoom(buffer[Host]) /\ ~axi.bvalid
           /\ axi'.arvalid <=> axi.arvalid /\ ~axi.arready
           /\ axi'.arready <=> IF axi.arready THEN ~ReadAck ELSE axi.arvalid
           /\ axi'.read_req <=> \/ axi.arready /\ axi.arvalid /\ ~axi.rvalid
                                \/ axi.read_req /\ ~ReadAck
           /\ axi'.rvalid <=> ReadAck /\ ~axi.rvalid
<1>1. /\ DOMAIN axi' = {"awvalid", "wvalid", "wready", "write_address", "write_data",
                        "write_req", "bvalid", "arvalid", "arready", "read_address",
                        "read_req", "rvalid", "rdata"}
      /\ axi'.awvalid = (axi.awvalid /\ ~axi.wready)
      /\ axi'.wvalid = (axi.wvalid /\ ~axi.wready)
      /\ axi'.wready = (axi.awvalid /\ axi.wvalid /\ ~axi.wready)
      /\ axi'.write_address = IF axi.awvalid /\ axi.wvalid /\ ~axi.wready
                              THEN Access.index ELSE axi.write_address
      /\ axi'.write_data = IF axi.wready /\ axi.wvalid THEN Access.data ELSE axi.write_data
  BY DEF ClockBridge
<1>2. /\ axi'.write_req = ((axi.wready /\ (axi.awvalid /\ axi.wvalid)) \/ (axi.write_req /\ ~WriteAck))
      /\ axi'.bvalid = (WriteAck /\ ~axi.bvalid)
      /\ axi'.arvalid = (axi.arvalid /\ ~axi.arready)
      /\ axi'.arready = IF axi.arready THEN ~ReadAck ELSE axi.arvalid
  BY DEF ClockBridge
<1>3. /\ axi'.read_req = ((axi.arready /\ axi.arvalid /\ ~axi.rvalid) \/ (axi.read_req /\ ~ReadAck))
      /\ axi'.rvalid = (ReadAck /\ ~axi.rvalid)
  BY DEF ClockBridge
<1> QED
  BY <1>1, <1>2, <1>3, Zenon DEF WriteAck

\* The bridge offers the first buffer the write that has become a request.
LEMMA HostQueueMoves ==
    ASSUME System = "element", Shaped, Turns, Edge, LastStage = 1
    PROVE  /\ buffer[Host].writes = << >> => ~axi.bvalid
           /\ ~axi.bvalid => buffer[Host].writes = << >>
           /\ axi.bvalid => buffer[Host].writes = << Posted(driver.at) >>
           /\ axi.write_req => buffer'[Host].writes = << Posted(driver.at) >>
           /\ ~axi.write_req /\ ~axi.bvalid => buffer'[Host].writes = << >>
           /\ axi.bvalid /\ Popped(Host) => buffer'[Host].writes = << >>
<1>1. /\ buffer[Host].writes = << >> => ~axi.bvalid
      /\ ~axi.bvalid => buffer[Host].writes = << >>
      /\ axi.bvalid => buffer[Host].writes = << Posted(driver.at) >>
  BY DEF Turns, HostQueue
<1>2. WritesMove /\ Host \in Buffers /\ ~ResetOf(Host)
  BY ClockMovesWrites, ResetOfBuffers, BuffersDiffer DEF Edge
<1>3. /\ axi.write_req => Offered(Host) = {Posted(driver.at)} /\ ~axi.bvalid
      /\ ~axi.write_req => Offered(Host) = {}
      /\ axi.bvalid => ~axi.write_req
  BY DEF Offered, Turns, WriteTurn, Posted, Access
<1>4. axi.write_req => buffer'[Host].writes = << Posted(driver.at) >>
  BY <1>1, <1>2, <1>3, BufferMoves
<1>5. ~axi.write_req /\ ~axi.bvalid => buffer'[Host].writes = << >>
  BY <1>1, <1>2, <1>3, BufferMoves
<1>6. axi.bvalid /\ Popped(Host) => buffer'[Host].writes = << >>
  BY <1>1, <1>2, <1>3, BufferMoves
<1> QED
  BY <1>1, <1>4, <1>5, <1>6

\* A response to a write: the host has the next access before it, and nothing of that
\* on the bus; what it has written leaves the first buffer.
LEMMA WriteAnswered ==
    ASSUME System = "element", Shaped, Turns, Edge, ClockBridge, ClockDriver,
           axi.bvalid, Done(driver.at - 1)
    PROVE  Turns' /\ Fresh0' /\ Crossing(driver.at - 1)'
<1>1. /\ driver.address /\ driver.data /\ Running /\ Access.kind = "write"
      /\ ~axi.awvalid /\ ~axi.wvalid /\ ~axi.write_req /\ ~axi.wready
      /\ ~axi.arvalid /\ ~axi.arready /\ ~axi.read_req /\ ~axi.rvalid
  BY DEF Turns, HostTurn, WriteTurn, ReadTurn
<1>2. PICK n : n = driver.at
  OBVIOUS
<1>3. n \in Nat \ {0} /\ IsWrite(n)
  BY <1>1, <1>2, AccessInProgress DEF Turns
<1>4. driver' = Advance(0)
  BY DEF ClockDriver
<1>5. /\ driver'.at = n + 1 /\ ~driver'.address /\ ~driver'.data
      /\ HostTurn' /\ DOMAIN driver' = DOMAIN driver
  BY <1>1, <1>2, <1>4, HostGoesOn DEF Turns
<1>6. LastStage = 1
  BY OneStage DEF Shaped
<1>7. Crossing(n)' /\ Popped(Host)
  BY <1>2, <1>3, <1>6, DoneCrosses, HostQueueMoves
<1>8. buffer'[Host].writes = << >>
  BY <1>6, <1>7, HostQueueMoves
<1>9. /\ ~axi'.awvalid /\ ~axi'.wvalid /\ ~axi'.wready /\ ~axi'.write_req /\ ~axi'.bvalid
      /\ ~axi'.arvalid /\ ~axi'.arready /\ ~axi'.read_req /\ ~axi'.rvalid
  BY <1>1, BridgeMoves DEF ReadAck
<1>10. Turns' /\ Fresh0'
  BY <1>5, <1>8, <1>9 DEF Turns, WriteTurn, ReadTurn, HostQueue, Fresh0
<1>11. driver'.at - 1 = n
  BY <1>3, <1>5
<1> QED
  BY <1>7, <1>10, <1>11

\* An access that writes nothing has landed as soon as it is made.
LEMMA ReadsLand ==
    ASSUME System = "element", NEW n \in 1 .. Len(Main), ~IsWrite(n)
    PROVE  Done(n - 1)' => Done(n)'
<1>1. /\ RegisterWords \in Nat /\ InstructionWords \in Nat /\ Len(Inputs) \in Nat
      /\ n > 3 + RegisterWords + InstructionWords + Len(Inputs) /\ n # Begin /\ n \in Int
  BY Amounts, OtherAccesses
<1>2. n > 3
  BY <1>1
<1>3. \A c : Gives(c, n - 1) = Gives(c, n)
  BY <1>1, <1>2, GivesSame
<1>4. Words(n - 1)' => Words(n)'
  BY <1>1, SameWords
<1>5. Signals(n - 1)' => Signals(n)'
  <2>1. n # 0 /\ n - 1 # 0
    BY <1>1, <1>2
  <2>2. /\ Gives(control', n - 1) => Gives(control', n)
        /\ Gives(AtCore', n - 1) => Gives(AtCore', n)
    BY <1>3
  <2> QED
    BY <2>1, <2>2 DEF Signals, Gives
<1> QED
  BY <1>4, <1>5 DEF Done, Landed

\* The answer to a read: it may be the answer to a poll, which the host then repeats.
LEMMA ReadAnswered ==
    ASSUME System = "element", Shaped, Turns, Edge, ClockBridge, ClockDriver,
           axi.rvalid, Done(driver.at - 1)
    PROVE  Turns' /\ Done(driver.at - 1)' /\ DOMAIN driver' = DOMAIN driver
<1>1. /\ driver.address /\ ~driver.data /\ Running /\ Access.kind # "write"
      /\ ~axi.awvalid /\ ~axi.wvalid /\ ~axi.write_req /\ ~axi.wready /\ ~axi.bvalid
      /\ ~axi.arvalid /\ ~axi.arready /\ ~axi.read_req
  BY DEF Turns, HostTurn, WriteTurn, ReadTurn
<1>2. PICK n : n = driver.at
  OBVIOUS
<1>3. n \in 1 .. Len(Main) /\ Len(Main) \in Nat /\ ~IsWrite(n)
  BY <1>1, <1>2, AccessInProgress DEF Turns
<1>4. PICK value : driver' = Advance(value)
  BY <1>1 DEF ClockDriver
<1>5. /\ driver'.at \in {n, n + 1} /\ ~driver'.address /\ ~driver'.data
      /\ HostTurn' /\ DOMAIN driver' = DOMAIN driver
  BY <1>1, <1>2, <1>4, HostGoesOn DEF Turns
<1>6. LastStage = 1
  BY OneStage DEF Shaped
<1>7. buffer[Host].writes = << >> /\ buffer'[Host].writes = << >>
  BY <1>1, <1>6, HostQueueMoves
<1>8. Done(n - 1)' /\ Done(n)'
  <2>1. n - 1 \in Nat
    BY <1>3
  <2>2. Done(n - 1)'
    BY <1>2, <1>7, <2>1, DoneStays
  <2> QED
    BY <1>3, <2>2, ReadsLand
<1>9. /\ ~axi'.awvalid /\ ~axi'.wvalid /\ ~axi'.wready /\ ~axi'.write_req /\ ~axi'.bvalid
      /\ ~axi'.arvalid /\ ~axi'.arready /\ ~axi'.read_req /\ ~axi'.rvalid
  BY <1>1, BridgeMoves DEF ReadAck
<1>10. Turns'
  BY <1>5, <1>7, <1>9 DEF Turns, WriteTurn, ReadTurn, HostQueue
<1>11. driver'.at - 1 = n - 1 \/ driver'.at - 1 = n
  BY <1>3, <1>5
<1> QED
  BY <1>5, <1>8, <1>10, <1>11

\* No answer: the host waits, and what it has on the bus goes a step further.
LEMMA HostWaits ==
    ASSUME System = "element", Shaped, Turns, Edge, ClockBridge, ClockDriver,
           ~axi.bvalid, ~axi.rvalid
    PROVE  /\ driver' = driver /\ Turns'
           /\ Fresh0 => Fresh1'
           /\ Fresh1 => Fresh2'
<1>1. driver' = driver
  BY DEF ClockDriver
<1>2. LastStage = 1
  BY OneStage DEF Shaped
<1>3. /\ buffer[Host].writes = << >>
      /\ buffer'[Host].writes = IF axi.write_req THEN << Posted(driver.at) >> ELSE << >>
  BY <1>2, HostQueueMoves
<1>4. HasRoom(buffer[Host])
  BY <1>3 DEF HasRoom, WriteFifoDepth
<1>5. axi'.bvalid <=> axi.write_req
  BY <1>4, BridgeMoves
<1>6. HostQueue'
  BY <1>1, <1>3, <1>5 DEF HostQueue
<1>7. HostTurn'
  BY <1>1 DEF Turns, HostTurn, Running, Access
<1>8. WriteTurn'
  <2>1. Access' = Access
    BY <1>1 DEF Access
  <2>2. axi'.awvalid => driver'.address /\ Access'.kind = "write"
    BY <1>1, <2>1, BridgeMoves DEF Turns, WriteTurn
  <2>3. axi'.wvalid => driver'.data
    BY <1>1, BridgeMoves DEF Turns, WriteTurn
  <2>4. axi'.wready => axi'.awvalid /\ axi'.wvalid /\ axi'.write_address = Access'.index
    BY <2>1, BridgeMoves DEF Turns, WriteTurn
  <2>5. axi'.write_req =>
          /\ driver'.address /\ driver'.data
          /\ ~axi'.awvalid /\ ~axi'.wvalid /\ ~axi'.bvalid
          /\ axi'.write_address = Access'.index /\ axi'.write_data = Access'.data
    <3> HAVE axi'.write_req
    <3>1. axi.wready /\ axi.awvalid /\ axi.wvalid /\ ~axi.write_req
      BY <1>4, BridgeMoves DEF Turns, WriteTurn
    <3>2. driver.address /\ driver.data /\ axi.write_address = Access.index
      BY <3>1 DEF Turns, WriteTurn
    <3> QED
      BY <1>1, <2>1, <3>1, <3>2, BridgeMoves
  <2>6. axi'.bvalid => driver'.address /\ driver'.data /\ ~axi'.awvalid /\ ~axi'.wvalid
    BY <1>1, <1>5, BridgeMoves DEF Turns, WriteTurn
  <2> QED
    BY <2>2, <2>3, <2>4, <2>5, <2>6 DEF WriteTurn
<1>9. ReadTurn'
  <2>1. Access' = Access
    BY <1>1 DEF Access
  <2>2. axi'.arvalid \/ axi'.arready \/ axi'.read_req \/ axi'.rvalid =>
           driver'.address /\ Access'.kind # "write"
    BY <1>1, <2>1, BridgeMoves DEF Turns, ReadTurn, ReadAck
  <2>3. axi'.read_req => axi'.arready /\ ~axi'.arvalid
    BY BridgeMoves DEF Turns, ReadTurn, ReadAck
  <2>4. axi'.rvalid => ~axi'.read_req /\ ~axi'.arready /\ ~axi'.arvalid
    BY BridgeMoves DEF Turns, ReadTurn, ReadAck
  <2>5. axi'.arvalid /\ axi'.arready => ~axi'.rvalid
    BY <2>4
  <2> QED
    BY <2>2, <2>3, <2>4, <2>5 DEF ReadTurn
<1>10. (Fresh0 => Fresh1') /\ (Fresh1 => Fresh2')
  BY <1>4, BridgeMoves DEF Fresh0, Fresh1, Fresh2, ReadAck
<1> QED
  BY <1>1, <1>6, <1>7, <1>8, <1>9, <1>10 DEF Turns

-----------------------------------------------------------------------------
(* The invariant holds.                                                    *)

LEMMA RunInvInit ==
    ASSUME System = "element", Init
    PROVE  RunInv
<1>1. Shaped
  <2>1. stage = [k \in 1 .. 1 |-> control]
    BY DEF Init
  <2>2. stage = << stage[1] >>
    BY <2>1
  <2>3. DOMAIN control = {"reset", "enable", "execute"}
    BY DEF Init, Off, On
  <2>4. /\ DOMAIN buffer = Buffers
        /\ \A b \in Buffers : DOMAIN buffer[b] = DOMAIN EmptyBuffer
    BY DEF Init
  <2>5. /\ DOMAIN core[0].registers = 0 .. RegisterWords - 1
        /\ DOMAIN core[0].instructions = 0 .. InstructionWords - 1
        /\ core[0].step \in Nat \ {0}
    BY BuffersDiffer DEF Init
  <2>6. DOMAIN channel = Names /\ DOMAIN port = Names /\ DOMAIN memory.ram = 0 .. Size - 1
    BY DEF Init, Channels, Names
  <2>7. /\ DOMAIN driver = {"at", "address", "data", "output", "interrupted", "status"}
        /\ DOMAIN axi = {"awvalid", "wvalid", "wready", "write_address", "write_data",
                         "write_req", "bvalid", "arvalid", "arready", "read_address",
                         "read_req", "rvalid", "rdata"}
    BY DEF Init
  <2> QED
    BY <2>2, <2>3, <2>4, <2>5, <2>6, <2>7 DEF Shaped
<1>2. /\ driver.at = 1 /\ ~driver.address /\ ~driver.data
      /\ ~axi.awvalid /\ ~axi.wvalid /\ ~axi.wready /\ ~axi.write_req /\ ~axi.bvalid
      /\ ~axi.arvalid /\ ~axi.arready /\ ~axi.read_req /\ ~axi.rvalid
  BY DEF Init
<1>3. \A b \in Buffers : buffer[b].writes = << >>
  BY DEF Init, EmptyBuffer
<1>4. HostTurn
  <2>1. Len(Main) \in Nat /\ Len(Main) > 0
    BY Amounts, WholeProgram
  <2> QED
    BY <1>2, <2>1 DEF HostTurn
<1>5. Turns
  <2>1. HostQueue
    BY <1>2, <1>3, BuffersDiffer DEF HostQueue
  <2> QED
    BY <1>2, <1>4, <2>1 DEF Turns, WriteTurn, ReadTurn
<1>6. Done(0)
  <2>1. Nothing
    BY <1>3, BuffersDiffer DEF Nothing
  <2>2. ~control.reset
    BY DEF Init, Off, On
  <2> QED
    BY <2>1, <2>2, WordsBefore DEF Done, Landed, Signals
<1>7. Progress
  <2>1. driver.at - 1 = 0
    BY <1>2
  <2> QED
    BY <1>6, <2>1 DEF Progress
<1> QED
  BY <1>1, <1>5, <1>7 DEF RunInv

\* The host's steps between two edges change nothing of what Progress is about.
LEMMA ProgressSame ==
    ASSUME Progress, driver'.at = driver.at,
           axi'.wready = axi.wready, axi'.write_req = axi.write_req, axi'.bvalid = axi.bvalid,
           axi'.arready = axi.arready, axi'.read_req = axi.read_req, axi'.rvalid = axi.rvalid,
           UNCHANGED << buffer, control, stage, core, channel, port, memory >>
    PROVE  Progress'
<1>1. PICK n : n = driver.at - 1 /\ n = driver'.at - 1
  OBVIOUS
<1>2. (Fresh0 => Fresh0') /\ (Fresh1 => Fresh1') /\ (Fresh2 => Fresh2')
  BY DEF Fresh0, Fresh1, Fresh2
<1>3. AtCore' = AtCore /\ (Waiting => Waiting') /\ (Nothing => Nothing')
  BY DEF AtCore, LastStage, Waiting, AtRest, Nothing
<1>4. \A m : /\ Words(m) => Words(m)'
             /\ Gives(control, m) => Gives(control', m)
             /\ Gives(AtCore, m) => Gives(AtCore', m)
  BY <1>3 DEF Words
<1>5. \A m : Landed(m) => Landed(m)'
  BY <1>3, <1>4 DEF Landed, Signals, Gives
<1>6. Done(n) => Done(n)'
  BY <1>3, <1>5 DEF Done
<1>7. (Crossing(n) => Crossing(n)') /\ (Entering(n) => Entering(n)')
  BY <1>5 DEF Crossing, Entering, Only
<1>8. Switching(n) => Switching(n)'
  BY <1>3, <1>4 DEF Switching, Gives
<1>9. Clearing(n) => Clearing(n)'
  BY <1>3, <1>4 DEF Clearing, Gives
<1>10. \/ Done(n)'
       \/ Fresh0' /\ Crossing(n)'
       \/ Fresh1' /\ (Entering(n)' \/ Switching(n)')
       \/ Fresh2' /\ Clearing(n)'
  BY <1>1, <1>2, <1>6, <1>7, <1>8, <1>9 DEF Progress
<1> QED
  BY <1>1, <1>10 DEF Progress

LEMMA IssueAddressKeeps ==
    ASSUME System = "element", RunInv, IssueAddress
    PROVE  RunInv'
<1>1. Running /\ ~driver.address /\ Shaped /\ Turns /\ Progress
  BY DEF RunInv, IssueAddress
<1>2. /\ ~axi.awvalid /\ ~axi.wready /\ ~axi.write_req /\ ~axi.bvalid
      /\ ~axi.arvalid /\ ~axi.arready /\ ~axi.read_req /\ ~axi.rvalid
  BY <1>1 DEF Turns, WriteTurn, ReadTurn
<1>3. /\ DOMAIN driver' = DOMAIN driver
      /\ driver'.at = driver.at /\ driver'.address /\ driver'.data = driver.data
      /\ driver'.status = driver.status
  BY <1>1 DEF IssueAddress, Shaped
<1>4. /\ DOMAIN axi' = DOMAIN axi
      /\ ~axi'.wready /\ ~axi'.write_req /\ ~axi'.bvalid
      /\ ~axi'.arready /\ ~axi'.read_req /\ ~axi'.rvalid
      /\ axi'.wvalid = axi.wvalid
      /\ axi'.awvalid => Access.kind = "write"
      /\ axi'.arvalid => Access.kind # "write"
  BY <1>1, <1>2 DEF IssueAddress, Shaped
<1>5. UNCHANGED << buffer, control, stage, core, channel, port, memory >>
  BY DEF IssueAddress
<1>6. Shaped'
  BY <1>1, <1>3, <1>4, <1>5 DEF Shaped
<1>7. Access' = Access
  BY <1>3 DEF Access
<1>8. Turns'
  <2>1. HostTurn'
    BY <1>1, <1>3, <1>7 DEF Turns, HostTurn, Running
  <2>2. WriteTurn' /\ ReadTurn'
    BY <1>1, <1>3, <1>4, <1>7 DEF Turns, WriteTurn, ReadTurn
  <2>3. HostQueue'
    BY <1>1, <1>2, <1>4, <1>5 DEF Turns, HostQueue
  <2> QED
    BY <2>1, <2>2, <2>3 DEF Turns
<1>9. Progress'
  <2>1. /\ axi'.wready = axi.wready /\ axi'.write_req = axi.write_req
        /\ axi'.bvalid = axi.bvalid /\ axi'.arready = axi.arready
        /\ axi'.read_req = axi.read_req /\ axi'.rvalid = axi.rvalid
    BY <1>1 DEF IssueAddress, Shaped
  <2> QED
    BY <1>1, <1>3, <1>5, <2>1, ProgressSame
<1> QED
  BY <1>6, <1>8, <1>9 DEF RunInv

LEMMA IssueDataKeeps ==
    ASSUME System = "element", RunInv, IssueData
    PROVE  RunInv'
<1>1. Running /\ ~driver.data /\ Access.kind = "write" /\ Shaped /\ Turns /\ Progress
  BY DEF RunInv, IssueData
<1>2. /\ ~axi.wvalid /\ ~axi.wready /\ ~axi.write_req /\ ~axi.bvalid
  BY <1>1 DEF Turns, WriteTurn
<1>3. /\ DOMAIN driver' = DOMAIN driver
      /\ driver'.at = driver.at /\ driver'.address = driver.address /\ driver'.data
      /\ driver'.status = driver.status
  BY <1>1 DEF IssueData, Shaped
<1>4. /\ DOMAIN axi' = DOMAIN axi
      /\ axi'.awvalid = axi.awvalid
      /\ axi'.wready = axi.wready /\ axi'.write_req = axi.write_req
      /\ axi'.bvalid = axi.bvalid /\ axi'.arready = axi.arready /\ axi'.arvalid = axi.arvalid
      /\ axi'.read_req = axi.read_req /\ axi'.rvalid = axi.rvalid
  BY <1>1 DEF IssueData, Shaped
<1>5. UNCHANGED << buffer, control, stage, core, channel, port, memory >>
  BY DEF IssueData
<1>6. Shaped'
  BY <1>1, <1>3, <1>4, <1>5 DEF Shaped
<1>7. Access' = Access
  BY <1>3 DEF Access
<1>8. Turns'
  <2>1. HostTurn'
    BY <1>1, <1>3, <1>7 DEF Turns, HostTurn, Running
  <2>2. WriteTurn' /\ ReadTurn'
    BY <1>1, <1>2, <1>3, <1>4, <1>7 DEF Turns, WriteTurn, ReadTurn
  <2>3. HostQueue'
    BY <1>1, <1>2, <1>4, <1>5 DEF Turns, HostQueue
  <2> QED
    BY <2>1, <2>2, <2>3 DEF Turns
<1>9. Progress'
  BY <1>1, <1>3, <1>4, <1>5, ProgressSame
<1> QED
  BY <1>6, <1>8, <1>9 DEF RunInv

LEMMA InterruptKeeps ==
    ASSUME System = "element", RunInv, Interrupt
    PROVE  RunInv'
<1>1. Shaped /\ Turns /\ Progress
  BY DEF RunInv
<1>2. /\ DOMAIN driver' = DOMAIN driver
      /\ driver'.at = driver.at /\ driver'.address = driver.address
      /\ driver'.data = driver.data /\ driver'.status = driver.status
  BY <1>1 DEF Interrupt, Shaped
<1>3. UNCHANGED << axi, buffer, control, stage, core, channel, port, memory >>
  BY DEF Interrupt, hardware
<1>4. Shaped'
  BY <1>1, <1>2, <1>3 DEF Shaped
<1>5. Turns'
  BY <1>1, <1>2, <1>3
     DEF Turns, HostTurn, WriteTurn, ReadTurn, HostQueue, Running, Access, Posted
<1>6. Progress'
  BY <1>1, <1>2, <1>3, ProgressSame
<1> QED
  BY <1>4, <1>5, <1>6 DEF RunInv

\* An edge: what the host has written comes a step nearer.
LEMMA ClockKeeps ==
    ASSUME System = "element", RunInv, Clock
    PROVE  RunInv'
<1>1. Shaped /\ Turns /\ Progress /\ Edge /\ ClockBridge /\ ClockDriver
  BY DEF RunInv, Clock, Edge
<1>2. PICK n : n = driver.at - 1
  OBVIOUS
<1>3. n \in Nat
  <2>1. Len(Main) \in Nat
    BY Amounts, WholeProgram
  <2> QED
    BY <1>1, <1>2, <2>1 DEF Turns, HostTurn
<1>4. ASSUME DOMAIN driver' = DOMAIN driver PROVE Shaped'
  <2>1. DOMAIN axi' = DOMAIN axi
    BY <1>1, BridgeMoves DEF Shaped
  <2>2. DOMAIN buffer' = Buffers /\ \A b \in Buffers : DOMAIN buffer'[b] = DOMAIN EmptyBuffer
    BY <1>1, ClockMovesWrites DEF Edge
  <2> QED
    BY <1>1, <1>4, <2>1, <2>2, ShapesKept DEF Shaped, Edge
<1>5. CASE axi.bvalid
  <2>1. Done(n)
    BY <1>1, <1>2, <1>5 DEF Progress, Fresh0, Fresh1, Fresh2
  <2>2. Turns' /\ Fresh0' /\ Crossing(driver.at - 1)'
    BY <1>1, <1>2, <1>5, <2>1, WriteAnswered
  <2>3. DOMAIN driver' = DOMAIN driver
    BY <1>1, <1>5, HostGoesOn DEF ClockDriver, Turns, WriteTurn, HostTurn
  <2> QED
    BY <1>4, <2>2, <2>3 DEF RunInv, Progress
<1>6. CASE axi.rvalid
  <2>1. Done(n)
    BY <1>1, <1>2, <1>6 DEF Progress, Fresh0, Fresh1, Fresh2
  <2>2. Turns' /\ Done(driver.at - 1)' /\ DOMAIN driver' = DOMAIN driver
    BY <1>1, <1>2, <1>6, <2>1, ReadAnswered
  <2> QED
    BY <1>4, <2>2 DEF RunInv, Progress
<1>7. CASE ~axi.bvalid /\ ~axi.rvalid
  <2>1. driver' = driver /\ Turns' /\ (Fresh0 => Fresh1') /\ (Fresh1 => Fresh2')
    BY <1>1, <1>7, HostWaits
  <2>2. buffer[Host].writes = << >>
    BY <1>1, <1>7 DEF Turns, HostQueue
  <2>3. Done(n) => Done(n)'
    BY <1>1, <1>3, <2>2, DoneStays
  <2>4. Crossing(n) => Done(n)' \/ Entering(n)' \/ Switching(n)'
    <3> HAVE Crossing(n)
    <3>1. IsWrite(n) /\ n \in Nat \ {0}
      BY <1>3 DEF Crossing, IsWrite
    <3>2. CASE WritesSignal(n)
      BY <1>1, <2>2, <3>1, <3>2, SignalCrosses
    <3>3. CASE \E i \in 0 .. RegisterWords - 1 : WritesRegister(n, i)
      <4>1. n > 3 /\ FirstStop(n) = Array
        BY <1>3, <3>3, WordNumbers DEF WritesRegister
      <4> QED
        BY <1>1, <2>2, <3>1, <4>1, WordCrosses
    <3>4. CASE \E i \in 0 .. InstructionWords - 1 : WritesInstruction(n, i)
      <4>1. n > 3 /\ FirstStop(n) = Array
        BY <1>3, <3>4, WordNumbers DEF WritesInstruction
      <4> QED
        BY <1>1, <2>2, <3>1, <4>1, WordCrosses
    <3>5. CASE \E i \in 1 .. Len(Inputs) : WritesInput(n, i)
      BY <1>1, <2>2, <3>1, <3>5, InputCrosses
    <3> QED
      BY <3>1, <3>2, <3>3, <3>4, <3>5, WritesAreMapped
  <2>5. Entering(n) => Done(n)'
    <3> HAVE Entering(n)
    <3>1. n \in Nat \ {0}
      BY <1>3 DEF Entering, IsWrite
    <3> QED
      BY <1>1, <2>2, <3>1, WordEnters
  <2>6. Switching(n) => Done(n)' \/ Clearing(n)'
    <3> HAVE Switching(n)
    <3>1. n \in Nat \ {0}
      BY <1>3 DEF Switching, IsWrite
    <3> QED
      BY <1>1, <2>2, <3>1, SignalEnters
  <2>7. Clearing(n) => Done(n)'
    BY <1>1, <1>3, <2>2, ResetClears
  <2>8. \/ Done(n)'
        \/ Fresh0' /\ Crossing(n)'
        \/ Fresh1' /\ (Entering(n)' \/ Switching(n)')
        \/ Fresh2' /\ Clearing(n)'
    BY <1>1, <1>2, <2>1, <2>3, <2>4, <2>5, <2>6, <2>7 DEF Progress
  <2>9. driver'.at - 1 = n /\ DOMAIN driver' = DOMAIN driver
    BY <1>2, <2>1
  <2> QED
    BY <1>4, <2>1, <2>8, <2>9 DEF RunInv, Progress
<1> QED
  BY <1>5, <1>6, <1>7

\* The invariant contains the property: execute reaches the core after every word.
LEMMA RunInvLands ==
    ASSUME System = "element", RunInv
    PROVE  LandedBeforeExecution
<1> SUFFICES ASSUME driver.at > Len(reset_system), NEW e \in Elements, Executing
             PROVE  HasProgram(e) /\ (core[e].step = 1 => HasInputs)
  BY DEF LandedBeforeExecution
<1>1. e = 0
  BY BuffersDiffer
<1>2. Len(reset_system) = 2
  BY DEF reset_system
<1>3. PICK n : n = driver.at - 1
  OBVIOUS
<1>4. n \in Nat /\ n >= 2
  <2>1. driver.at \in Int
    <3>1. Len(Main) \in Nat
      BY Amounts, WholeProgram
    <3> QED
      BY <3>1 DEF RunInv, Turns, HostTurn
  <2> QED
    BY <1>2, <1>3, <2>1
<1>5. \E m \in {n - 1, n} : Words(m) /\ Gives(AtCore, m)
  <2>1. CASE Done(n)
    BY <1>4, <2>1 DEF Done, Landed, Signals
  <2>2. CASE Crossing(n) \/ Entering(n)
    BY <1>4, <2>2 DEF Crossing, Entering, Landed, Signals
  <2>3. CASE Switching(n)
    BY <1>4, <2>3 DEF Switching
  <2>4. ~Clearing(n)
    BY <1>4 DEF Clearing
  <2> QED
    BY <1>3, <2>1, <2>2, <2>3, <2>4 DEF RunInv, Progress
<1>6. PICK m \in Nat : Words(m) /\ m >= Begin
  BY <1>4, <1>5 DEF Gives, Executing
<1>7. /\ \A i \in 0 .. RegisterWords - 1 : 4 + i <= m
      /\ \A i \in 0 .. InstructionWords - 1 : 4 + RegisterWords + i <= m
      /\ \A i \in 1 .. Len(Inputs) : 3 + RegisterWords + InstructionWords + i <= m
  BY <1>6, Amounts DEF Begin
<1>8. /\ DOMAIN core[0].registers = 0 .. RegisterWords - 1
      /\ DOMAIN core[0].instructions = 0 .. InstructionWords - 1
  BY DEF RunInv, Shaped
<1> QED
  BY <1>1, <1>6, <1>7, <1>8 DEF HasProgram, HasInputs, Words

\* No step of the host or of the clock breaks the invariant.
LEMMA RunInvKept ==
    ASSUME System = "element", RunInv, [Next]_vars
    PROVE  RunInv'
<1>1. CASE IssueAddress
  BY <1>1, IssueAddressKeeps
<1>2. CASE IssueData
  BY <1>2, IssueDataKeeps
<1>3. CASE Interrupt
  BY <1>3, InterruptKeeps
<1>4. CASE Clock
  BY <1>4, ClockKeeps
<1>5. CASE UNCHANGED vars
  <2>1. UNCHANGED << driver, axi, buffer, control, stage, core, channel, port, memory >>
    BY <1>5 DEF vars, hardware
  <2>2. Shaped /\ Turns /\ Progress
    BY DEF RunInv
  <2>3. Shaped'
    BY <2>1, <2>2 DEF Shaped
  <2>4. Turns'
    BY <2>1, <2>2
       DEF Turns, HostTurn, WriteTurn, ReadTurn, HostQueue, Running, Access, Posted
  <2>5. Progress'
    BY <2>1, <2>2, ProgressSame
  <2> QED
    BY <2>3, <2>4, <2>5 DEF RunInv
<1> QED
  BY <1>1, <1>2, <1>3, <1>4, <1>5 DEF Next

\* On the test system of one element no write is lost to reset or enable on its way,
\* none is late and none goes elsewhere: when the element executes it has its whole
\* program, and before its first operation the memory has all input data.  (That of the
\* quartet does not have the property: the mapper gives the elements too few words.)
THEOREM ProgramsLandFirst == System = "element" => (Spec => []LandedBeforeExecution)
<1> SUFFICES ASSUME System = "element" PROVE Spec => []LandedBeforeExecution
  OBVIOUS
<1>1. Init => RunInv
  BY RunInvInit
<1>2. RunInv /\ [Next]_vars => RunInv'
  BY RunInvKept
<1>3. RunInv => LandedBeforeExecution
  BY RunInvLands
<1> QED
  BY <1>1, <1>2, <1>3, PTL DEF Spec

-----------------------------------------------------------------------------
(* From the last packet to halted.                                         *)

\* halted and quiescent of the core, and their registers.
LEMMA CoreHalts ==
    ASSUME System = "element", Shaped, ClockCores, ClockRaised
    PROVE  /\ core'[0].halted => ~AtCore.reset
           /\ core'[0].halted => core[0].halted \/ (Triggers(0) /\ Operation(0).op = "halt")
           /\ core[0].halted /\ ~AtCore.reset => core'[0].halted
           /\ core'[0].quiescent => ~AtCore.reset
           /\ core'[0].quiescent /\ ~AtCore.enable => core[0].quiescent
           /\ core'[0].quiescent /\ AtCore.enable => \A n \in Names : channel[n] = << >>
           /\ raised'.halted = core[0].halted /\ raised'.quiescent = core[0].quiescent
<1>1. Elements = {0} /\ Channels = Names
  BY BuffersDiffer DEF Channels, Shaped
<1>2. core'[0].halted = (~AtCore.reset /\ (core[0].halted \/ (Triggers(0) /\ Operation(0).op = "halt")))
  BY <1>1 DEF ClockCores
<1>3. core'[0].quiescent = IF AtCore.reset THEN FALSE
                           ELSE IF ~AtCore.enable THEN core[0].quiescent
                           ELSE \A n \in Channels : channel[n] = << >>
  BY <1>1, OneOwner DEF ClockCores
<1>4. raised'.halted = core[0].halted /\ raised'.quiescent = core[0].quiescent
  BY DEF ClockRaised
<1> QED
  BY <1>1, <1>2, <1>3, <1>4

\* A core that has halted, or that halts, sends nothing.
LEMMA HaltedIsSilent ==
    ASSUME core[0].halted \/ (Triggers(0) /\ Operation(0).op = "halt")
    PROVE  ~(Triggers(0) /\ Operation(0).op \in {"send", "forward"})
  BY DEF Triggers

\* A channel to the memory, and the one behind it, stay empty when the core is silent.
LEMMA ChannelsStayEmpty ==
    ASSUME System = "element", Shaped, ClockChannels, ClockPorts, NEW n \in {"writeIndex", "writeData"},
           channel[n] = << >>
    PROVE  /\ ~(Triggers(0) /\ Operation(0).op \in {"send", "forward"}) => channel'[n] = << >>
           /\ port[n] = << >> => port'[n] = << >>
<1>1. n \in Channels /\ n \in Outgoing /\ n # "readData" /\ n # "readIndex"
  BY DEF Channels, Shaped, Names, Outgoing
<1>2. /\ \A popped : Rest(<< >>, popped) = << >>
      /\ \A q : If(FALSE, q) = << >>
      /\ << >> \o << >> = << >>
  BY DEF Rest, If
<1>3. ASSUME ~(Triggers(0) /\ Operation(0).op \in {"send", "forward"})
      PROVE  channel'[n] = << >>
  <2>1. CASE AtCore.reset
    BY <1>1, <2>1 DEF ClockChannels
  <2>2. CASE ~AtCore.reset /\ ~AtCore.enable
    BY <1>1, <2>2 DEF ClockChannels
  <2>3. CASE ~AtCore.reset /\ AtCore.enable
    BY <1>1, <1>2, <1>3, <2>3, OneOwner DEF ClockChannels, Rest, If
  <2> QED
    BY <2>1, <2>2, <2>3
<1>4. ASSUME port[n] = << >> PROVE port'[n] = << >>
  BY <1>1, <1>2, <1>4 DEF ClockPorts, Rest, If
<1> QED
  BY <1>3, <1>4

\* halted, channels_quiescent and the quiescence of the memory come over registers, each
\* from an earlier cycle; together they still say that nothing more is written.
LEMMA QuietingKept ==
    ASSUME System = "element", Shaped, Quieting, Edge, ClockRaised
    PROVE  Quieting'
<1> USE DEF Edge
<1>1. ASSUME core'[0].halted, core'[0].quiescent PROVE Drained'
  <2>1. ~(Triggers(0) /\ Operation(0).op \in {"send", "forward"})
    BY <1>1, CoreHalts, HaltedIsSilent
  <2>2. Drained
    <3>1. CASE AtCore.enable
      BY <1>1, <3>1, CoreHalts DEF Drained, Names, Outgoing
    <3>2. CASE ~AtCore.enable
      BY <1>1, <3>2, CoreHalts DEF Quieting, Triggers
    <3> QED
      BY <3>1, <3>2
  <2> QED
    BY <2>1, <2>2, ChannelsStayEmpty DEF Drained
<1>2. ASSUME raised'.halted, raised'.quiescent PROVE Drained /\ Drained'
  <2>1. core[0].halted /\ core[0].quiescent
    BY <1>2, CoreHalts
  <2>2. Drained
    BY <2>1 DEF Quieting
  <2> QED
    BY <2>1, <2>2, HaltedIsSilent, ChannelsStayEmpty DEF Drained
<1>3. ASSUME raised'.halted, raised'.quiescent, memory'.quiescent PROVE Emptied'
  <2>1. Drained
    BY <1>2, <1>3
  <2>2. \A n \in Names : port[n] = << >>
    BY <1>3 DEF ClockMemory, Channels, Shaped
  <2> QED
    BY <2>1, <2>2, ChannelsStayEmpty DEF Drained, Emptied, Names, Outgoing
<1> QED
  BY <1>1, <1>2, <1>3 DEF Quieting

\* Once nothing more is written nothing is, until the next reset.
LEMMA FinalStays ==
    ASSUME System = "element", Shaped, Final, ~AtCore.reset, Edge, ClockRaised
    PROVE  /\ Final'
           /\ Offered(Ram) = {} => memory'.ram = memory.ram
<1> USE DEF Edge
<1>1. core[0].halted /\ Drained /\ Emptied
  BY DEF Final
<1>2. core'[0].halted /\ Drained' /\ Emptied'
  BY <1>1, CoreHalts, HaltedIsSilent, ChannelsStayEmpty DEF Drained, Emptied
<1>3. ~Writing
  BY <1>1 DEF Writing, Emptied
<1>4. Offered(Ram) = {} => memory'.ram = memory.ram
  BY <1>3 DEF ClockMemory
<1> QED
  BY <1>2, <1>4 DEF Final

-----------------------------------------------------------------------------
(* From the reset to halted.                                               *)

\* The host goes on when it has an answer, and a write is answered in its own way.
LEMMA HostMoves ==
    ASSUME System = "element", Shaped, Turns, ClockDriver
    PROVE  /\ driver.at \in Nat \ {0}
           /\ ~axi.bvalid /\ ~axi.rvalid => driver' = driver
           /\ axi.bvalid => /\ Running /\ IsWrite(driver.at) /\ ~axi.rvalid
                            /\ driver' = Advance(0) /\ driver'.at = driver.at + 1
           /\ axi.rvalid => /\ Running /\ ~IsWrite(driver.at) /\ ~axi.bvalid
                            /\ driver.at \in 1 .. Len(Main)
                            /\ driver' = Advance(axi.rdata)
                            /\ driver'.at \in {driver.at, driver.at + 1}
<1>0. HostTurn /\ WriteTurn /\ ReadTurn
  BY DEF Turns
<1>1. driver.at \in Nat \ {0}
  <2>1. Len(Main) \in Nat
    BY Amounts, WholeProgram
  <2> QED
    BY <1>0, <2>1 DEF HostTurn
<1>2. ASSUME axi.bvalid
      PROVE  /\ Running /\ IsWrite(driver.at) /\ ~axi.rvalid
             /\ driver' = Advance(0) /\ driver'.at = driver.at + 1
  <2>1. Running /\ Access.kind = "write" /\ ~axi.rvalid
    BY <1>0, <1>2 DEF HostTurn, WriteTurn, ReadTurn
  <2>2. driver' = Advance(0)
    BY <1>2 DEF ClockDriver
  <2>3. driver'.at = driver.at + 1
    BY <1>0, <2>1, <2>2, HostGoesOn
  <2> QED
    BY <1>0, <2>1, <2>2, <2>3, AccessInProgress
<1>3. ASSUME axi.rvalid
      PROVE  /\ Running /\ ~IsWrite(driver.at) /\ ~axi.bvalid
             /\ driver.at \in 1 .. Len(Main)
             /\ driver' = Advance(axi.rdata)
             /\ driver'.at \in {driver.at, driver.at + 1}
  <2>1. Running /\ Access.kind # "write" /\ ~axi.bvalid
    BY <1>0, <1>3 DEF HostTurn, WriteTurn, ReadTurn
  <2>2. driver' = Advance(axi.rdata)
    BY <1>3, <2>1 DEF ClockDriver
  <2>3. driver'.at \in {driver.at, driver.at + 1}
    BY <1>0, <2>1, <2>2, HostGoesOn
  <2> QED
    BY <1>0, <2>1, <2>2, <2>3, AccessInProgress
<1>4. ~axi.bvalid /\ ~axi.rvalid => driver' = driver
  BY DEF ClockDriver
<1> QED
  BY <1>1, <1>2, <1>3, <1>4

\* Once the host has left its second access behind, what resets the core next is on its
\* way out.
LEMMA ResetIsOver ==
    ASSUME System = "element", Progress, driver.at \in Nat, driver.at >= 3, control.reset
    PROVE  AtCore.reset
<1>1. PICK n \in Nat : n = driver.at - 1 /\ n >= 2
  <2>1. driver.at - 1 \in Nat /\ driver.at - 1 >= 2
    OBVIOUS
  <2> QED
    BY <2>1
<1>2. \A m \in Nat \ {0} : Landed(m) => Gives(control, m) /\ Gives(AtCore, m)
  BY DEF Landed, Signals
<1>3. ~Done(n) /\ ~Clearing(n)
  BY <1>1, <1>2 DEF Done, Clearing, Gives
<1>4. ~Switching(n)
  BY <1>1 DEF Switching, Gives
<1>5. Crossing(n) \/ Entering(n)
  BY <1>1, <1>3, <1>4 DEF Progress
<1>6. Landed(n - 1) /\ n - 1 \in Nat \ {0}
  BY <1>1, <1>5 DEF Crossing, Entering
<1> QED
  BY <1>2, <1>6 DEF Gives

\* The first access resets, and the second one ends the reset.
LEMMA FirstTwoAccesses ==
    ASSUME System = "element"
    PROVE  IsWrite(1) /\ IsWrite(2) /\ WritesSignal(1)
<1>1. IsWrite(1) /\ IsWrite(2)
  <2>1. Main[1].kind = "write" /\ Main[2].kind = "write"
    BY WholeProgram DEF Write
  <2>2. 1 \in 1 .. Len(Main) /\ 2 \in 1 .. Len(Main)
    BY Amounts, WholeProgram
  <2> QED
    BY <2>1, <2>2 DEF IsWrite
<1>2. WritesSignal(1)
  BY <1>1, WritesAreMapped, WordNumbers
<1> QED
  BY <1>1, <1>2

\* The host goes on after its reset when the core has been cleared, and then halted means
\* that the element has halted since.
LEMMA ClearedKept ==
    ASSUME System = "element", Shaped, Turns, Progress, Cleared, Edge, ClockBridge,
           ClockDriver, ClockRaised
    PROVE  Cleared'
<1> USE DEF Edge
<1>0. AtCore' = control
  <2>1. stage' = << control >>
    BY OneStage DEF Shaped
  <2> QED
    BY <2>1 DEF AtCore, LastStage
<1>1. AtCore.reset => ~core'[0].halted
  BY CoreHalts
<1>2. Done(1) => AtCore.reset
  BY DEF Done, Landed, Signals, Gives
<1>3. ASSUME driver'.at = 2
      PROVE  \/ Done(1)' /\ ~core'[0].halted
             \/ Fresh0' /\ Crossing(1)'
             \/ Fresh1' /\ Switching(1)'
             \/ Fresh2' /\ Clearing(1)'
  <2>1. CASE axi.bvalid
    <3>1. driver.at = 1 /\ driver'.at = driver.at + 1
      BY <1>3, <2>1, HostMoves
    <3>2. Done(driver.at - 1)
      BY <2>1 DEF Progress, Fresh0, Fresh1, Fresh2
    <3>3. Fresh0' /\ Crossing(driver.at - 1)'
      BY <2>1, <3>2, WriteAnswered
    <3>4. driver'.at - 1 = 1
      BY <1>3
    <3> QED
      BY <3>3, <3>4
  <2>2. ~axi.rvalid
    <3> SUFFICES ASSUME axi.rvalid PROVE FALSE
      OBVIOUS
    <3>1. driver.at \in {1, 2}
      BY <1>3, HostMoves
    <3> QED
      BY <3>1, HostMoves, FirstTwoAccesses
  <2>3. CASE ~axi.bvalid
    <3>1. driver.at = 2 /\ (Fresh0 => Fresh1') /\ (Fresh1 => Fresh2')
      BY <1>3, <2>2, <2>3, HostWaits
    <3>2. buffer[Host].writes = << >>
      BY <2>3 DEF Turns, HostQueue
    <3>3. CASE Done(1) /\ ~core[0].halted
      BY <1>1, <1>2, <3>2, <3>3, DoneStays
    <3>4. CASE Fresh0 /\ Crossing(1)
      BY <3>1, <3>2, <3>4, SignalCrosses, FirstTwoAccesses
    <3>5. CASE Fresh1 /\ Switching(1)
      BY <3>1, <3>2, <3>5, SignalEnters
    <3>6. CASE Fresh2 /\ Clearing(1)
      <4>1. AtCore.reset
        BY <3>6 DEF Clearing
      <4>2. Done(1)'
        BY <3>2, <3>6, ResetClears
      <4> QED
        BY <1>1, <4>1, <4>2
    <3> QED
      BY <3>1, <3>3, <3>4, <3>5, <3>6 DEF Cleared
  <2> QED
    BY <2>1, <2>3
<1>4. ASSUME driver'.at >= 3
      PROVE  /\ AtCore'.reset => ~core'[0].halted
             /\ raised'.halted => core'[0].halted
  <2>1. raised'.halted = core[0].halted /\ (core[0].halted /\ ~AtCore.reset => core'[0].halted)
    BY CoreHalts
  <2>2. CASE driver.at >= 3
    <3>1. control.reset => AtCore.reset
      BY <2>2, HostMoves, ResetIsOver
    <3>2. AtCore.reset => ~core[0].halted
      BY <2>2 DEF Cleared
    <3> QED
      BY <1>0, <1>1, <2>1, <3>1, <3>2
  <2>3. CASE ~(driver.at >= 3)
    <3>1. driver.at = 2 /\ axi.bvalid
      <4>1. driver.at \in {1, 2} /\ driver' # driver
        BY <1>4, <2>3, HostMoves
      <4>2. ~axi.rvalid
        BY <4>1, HostMoves, FirstTwoAccesses
      <4> QED
        BY <1>4, <4>1, <4>2, HostMoves
    <3>2. Done(1) /\ ~core[0].halted
      BY <3>1 DEF Cleared, Fresh0, Fresh1, Fresh2
    <3> QED
      BY <1>1, <1>2, <2>1, <3>2
  <2> QED
    BY <2>2, <2>3
<1> QED
  BY <1>3, <1>4 DEF Cleared

-----------------------------------------------------------------------------
(* What an edge does to the read in the buffers.                           *)

\* A buffer that is asked takes the index, waits for the answer, and acknowledges it once.
SameRead(s, b) == /\ s.reading = b.reading /\ s.ack = b.ack
                  /\ s.index = b.index /\ s.data = b.data

ReadStep(s, b, asked, answer) ==
    /\ asked = {} => SameRead(s, b)
    /\ asked # {} /\ b.ack => ~s.ack /\ s.reading = b.reading /\ s.index = b.index
    /\ asked # {} /\ ~b.ack /\ ~b.reading =>
          s.reading /\ ~s.ack /\ \A i : asked = {i} => s.index = i
    /\ asked # {} /\ ~b.ack /\ b.reading /\ answer = {} => SameRead(s, b)
    /\ asked # {} /\ ~b.ack /\ b.reading /\ answer # {} =>
          ~s.reading /\ s.ack /\ \A d : answer = {d} => s.data = d

LEMMA BufferReads ==
    ASSUME NEW b, DOMAIN b = DOMAIN EmptyBuffer, NEW offered, NEW popped, NEW asked,
           NEW answer, NEW reset, ~reset,
           NEW s, s = BufferStep(b, reset, offered, popped, asked, answer)
    PROVE  ReadStep(s, b, asked, answer)
<1> DEFINE r == ReadChannel(b, asked, answer)
           writes == WriteChannel(b, offered, popped)
<1>1. DOMAIN b = {"writes", "reading", "index", "ack", "data"}
  BY DEF EmptyBuffer
<1>2. s = [r EXCEPT !.writes = writes]
  BY DEF BufferStep
<1>3. DOMAIN r = DOMAIN b
  BY <1>1 DEF ReadChannel
<1> HIDE DEF r, writes
<1>4. SameRead(s, r)
  BY <1>1, <1>2, <1>3 DEF SameRead
<1>5. asked = {} => r = b
  BY DEF r, ReadChannel
<1>6. asked # {} /\ b.ack => r = [b EXCEPT !.ack = FALSE]
  BY DEF r, ReadChannel
<1>7. asked # {} /\ ~b.ack /\ ~b.reading =>
         r = [b EXCEPT !.reading = TRUE, !.index = CHOOSE i \in asked : TRUE]
  BY DEF r, ReadChannel
<1>8. asked # {} /\ ~b.ack /\ b.reading /\ answer = {} => r = b
  BY DEF r, ReadChannel
<1>9. asked # {} /\ ~b.ack /\ b.reading /\ answer # {} =>
         r = [b EXCEPT !.reading = FALSE, !.ack = TRUE, !.data = CHOOSE d \in answer : TRUE]
  BY DEF r, ReadChannel
<1>10. asked = {} => SameRead(s, b)
  BY <1>4, <1>5
<1>11. asked # {} /\ ~b.ack /\ b.reading /\ answer = {} => SameRead(s, b)
  BY <1>4, <1>8
<1>12. asked # {} /\ b.ack => ~s.ack /\ s.reading = b.reading /\ s.index = b.index
  BY <1>1, <1>4, <1>6 DEF SameRead
<1>13. asked # {} /\ ~b.ack /\ ~b.reading =>
          s.reading /\ ~s.ack /\ \A i : asked = {i} => s.index = i
  <2> HAVE asked # {} /\ ~b.ack /\ ~b.reading
  <2>1. PICK i : i = CHOOSE k \in asked : TRUE
    OBVIOUS
  <2>2. r = [b EXCEPT !.reading = TRUE, !.index = i]
    BY <1>7, <2>1
  <2>3. r.reading /\ r.ack = b.ack /\ r.index = i
    BY <1>1, <2>2
  <2>4. \A k : (CHOOSE j \in {k} : TRUE) = k
    OBVIOUS
  <2> QED
    BY <1>4, <2>1, <2>3, <2>4 DEF SameRead
<1>14. asked # {} /\ ~b.ack /\ b.reading /\ answer # {} =>
          ~s.reading /\ s.ack /\ \A d : answer = {d} => s.data = d
  <2> HAVE asked # {} /\ ~b.ack /\ b.reading /\ answer # {}
  <2>1. PICK d : d = CHOOSE v \in answer : TRUE
    OBVIOUS
  <2>2. r = [b EXCEPT !.reading = FALSE, !.ack = TRUE, !.data = d]
    BY <1>9, <2>1
  <2>3. ~r.reading /\ r.ack /\ r.data = d
    BY <1>1, <2>2
  <2>4. \A k : (CHOOSE j \in {k} : TRUE) = k
    OBVIOUS
  <2> QED
    BY <1>4, <2>1, <2>3, <2>4 DEF SameRead
<1> QED
  BY <1>10, <1>11, <1>12, <1>13, <1>14 DEF ReadStep

\* The same of the buffers on the way of the reads: none of them is ever reset.
LEMMA ReadsMove ==
    ASSUME System = "element", Shaped, Edge, NEW b \in {Host, Control, Memory}
    PROVE  /\ Asked(b) = {} => SameRead(buffer'[b], buffer[b])
           /\ Asked(b) # {} /\ buffer[b].ack =>
                 /\ ~buffer'[b].ack /\ buffer'[b].reading = buffer[b].reading
                 /\ buffer'[b].index = buffer[b].index
           /\ Asked(b) # {} /\ ~buffer[b].ack /\ ~buffer[b].reading =>
                 /\ buffer'[b].reading /\ ~buffer'[b].ack
                 /\ \A i : Asked(b) = {i} => buffer'[b].index = i
           /\ Asked(b) # {} /\ ~buffer[b].ack /\ buffer[b].reading /\ Answered(b) = {} =>
                 SameRead(buffer'[b], buffer[b])
           /\ Asked(b) # {} /\ ~buffer[b].ack /\ buffer[b].reading /\ Answered(b) # {} =>
                 /\ ~buffer'[b].reading /\ buffer'[b].ack
                 /\ \A d : Answered(b) = {d} => buffer'[b].data = d
<1>1. b \in Buffers /\ LastStage = 1
  BY BuffersDiffer, OneStage DEF Behind, Shaped
<1>2. ~ResetOf(b)
  BY <1>1, ResetOfBuffers
<1>3. buffer'[b] = BufferStep(buffer[b], ResetOf(b), Offered(b), Popped(b), Asked(b), Answered(b))
  BY <1>1 DEF Edge, ClockBuffers
<1>4. DOMAIN buffer[b] = DOMAIN EmptyBuffer
  BY <1>1 DEF Shaped
<1>5. PICK reset, offered, popped, asked, answer :
         /\ asked = Asked(b) /\ answer = Answered(b) /\ ~reset
         /\ buffer'[b] = BufferStep(buffer[b], reset, offered, popped, asked, answer)
  BY <1>2, <1>3
<1>6. ReadStep(buffer'[b], buffer[b], asked, answer)
  BY <1>4, <1>5, BufferReads
<1> QED
  BY <1>5, <1>6 DEF ReadStep

\* Who is asked, and what the answer is, while the first buffer has the read in progress.
LEMMA ReadIsOnItsWay ==
    ASSUME System = "element", Shaped, Pathed
    PROVE  /\ ~axi.read_req => Asked(Host) = {}
           /\ axi.read_req => Asked(Host) = {axi.read_address}
           /\ \A b \in {Control, Memory} :
                 Asked(b) = IF buffer[Host].reading /\ Stop.to = b THEN {Stop.index} ELSE {}
           /\ Asked(Ram) = IF buffer[Memory].reading THEN {Stop.index} ELSE {}
           /\ \A b \in {Control, Memory} : buffer[Host].reading /\ Stop.to = b =>
                 Answered(Host) = IF buffer[b].ack THEN {buffer[b].data} ELSE {}
           /\ buffer[Control].reading /\ Stop.index = HaltedReg =>
                 Answered(Control) = {Bit(SystemHalted)}
           /\ buffer[Control].reading => Answered(Control) # {}
           /\ buffer[Memory].reading =>
                 Answered(Memory) = IF memory.ack THEN {memory.out} ELSE {}
<1>1. /\ Host \notin {Control, Memory, Ram} /\ Control # Memory
      /\ Control \in Buffers /\ Memory \in Buffers
      /\ Registers \notin Buffers /\ Ram \notin Buffers
      /\ Registers # Ram /\ Registers # Nobody /\ Ram # Nobody
  <2>1. Registers # Ram
    BY DEF Registers, Ram
  <2> QED
    BY <2>1, BuffersDiffer DEF Behind
<1>2. /\ Upstream(Control) = Host /\ Upstream(Memory) = Host /\ Upstream(Ram) = Memory
      /\ \A i : Forward(Memory, i) = Mapped(Ram, i) /\ Forward(Control, i) = Mapped(Registers, i)
  BY TreeOfBuffers
<1>3. \A b, i : Mapped(b, i).to = b /\ Mapped(b, i).index = i
  BY DEF Mapped
<1>4. /\ ~axi.read_req => Asked(Host) = {}
      /\ axi.read_req => Asked(Host) = {axi.read_address}
  BY DEF Asked
<1>5. ASSUME NEW b \in {Control, Memory}
      PROVE  Asked(b) = IF buffer[Host].reading /\ Stop.to = b THEN {Stop.index} ELSE {}
  <2>1. b # Host /\ Upstream(b) = Host
    BY <1>1, <1>2
  <2>2. buffer[Host].reading => Forward(Host, buffer[Host].index) = Stop
    BY DEF Pathed, Stop
  <2> QED
    BY <2>1, <2>2 DEF Asked
<1>6. Asked(Ram) = IF buffer[Memory].reading THEN {Stop.index} ELSE {}
  <2>1. buffer[Memory].reading => buffer[Memory].index = Stop.index
    BY DEF Pathed
  <2> QED
    BY <1>1, <1>2, <1>3, <2>1 DEF Asked
<1>7. ASSUME NEW b \in {Control, Memory}, buffer[Host].reading, Stop.to = b
      PROVE  Answered(Host) = IF buffer[b].ack THEN {buffer[b].data} ELSE {}
  <2>1. Forward(Host, buffer[Host].index) = Stop
    BY <1>7 DEF Pathed, Stop
  <2>2. Stop.to \in Buffers /\ Stop.to # Registers /\ Stop.to # Ram /\ Stop.to # Nobody
    BY <1>1, <1>7, BuffersDiffer
  <2> QED
    BY <1>7, <2>1, <2>2 DEF Answered
<1>8. ASSUME buffer[Control].reading PROVE Answered(Control) = {ControlWord(Stop.index)}
  <2>1. buffer[Control].index = Stop.index
    BY <1>8 DEF Pathed
  <2> QED
    BY <1>1, <1>2, <1>3, <1>8, <2>1 DEF Answered
<1>9. ControlWord(HaltedReg) = Bit(SystemHalted)
  BY DEF ControlWord, ResetReg, EnableReg, ExecuteReg, HaltedReg
<1>10. ASSUME buffer[Memory].reading
       PROVE  Answered(Memory) = IF memory.ack THEN {memory.out} ELSE {}
  BY <1>1, <1>2, <1>3, <1>10 DEF Answered
<1> QED
  BY <1>4, <1>5, <1>6, <1>7, <1>8, <1>9, <1>10

\* The memory acknowledges a read in the cycle after it is asked, and not twice.
LEMMA MemoryReads ==
    ASSUME ClockMemory
    PROVE  /\ Asked(Ram) = {} /\ memory'.ack => memory.ack
           /\ Asked(Ram) # {} /\ memory'.ack => ~memory.ack
           /\ \A i : Asked(Ram) = {i} => memory'.out = memory.ram[i]
<1>1. memory'.ack = (~control.reset /\ (IF Asked(Ram) = {} THEN memory.ack ELSE ~memory.ack))
  BY DEF ClockMemory
<1>2. ASSUME NEW i, Asked(Ram) = {i} PROVE memory'.out = memory.ram[i]
  <2>1. (CHOOSE k \in {i} : TRUE) = i /\ {i} # {}
    OBVIOUS
  <2> QED
    BY <1>2, <2>1 DEF ClockMemory
<1> QED
  BY <1>1, <1>2

\* When the bridge asks for nothing, nothing is on its way.
LEMMA NoRead ==
    ASSUME System = "element", Shaped, Pathed, Edge, ~axi.read_req
    PROVE  /\ \A b \in {Host, Control, Memory} :
                 ~buffer[b].reading /\ ~buffer[b].ack /\ ~buffer'[b].reading /\ ~buffer'[b].ack
           /\ ~memory.ack /\ ~memory'.ack
<1>1. \A b \in {Host, Control, Memory} : ~buffer[b].reading /\ ~buffer[b].ack
  BY DEF Pathed
<1>2. \A b \in {Host, Control, Memory} : Asked(b) = {}
  BY <1>1, ReadIsOnItsWay
<1>3. Asked(Ram) = {} /\ ~memory.ack
  BY <1>1, ReadIsOnItsWay DEF Pathed
<1>4. ASSUME NEW b \in {Host, Control, Memory} PROVE ~buffer'[b].reading /\ ~buffer'[b].ack
  BY <1>1, <1>2, ReadsMove DEF SameRead
<1>5. ~memory'.ack
  BY <1>3, MemoryReads DEF Edge
<1> QED
  BY <1>1, <1>3, <1>4, <1>5

\* When it asks, each buffer goes through its read in the order of the path.
LEMMA ReadGoesOn ==
    ASSUME System = "element", Shaped, Turns, Pathed, Edge, axi.read_req
    PROVE  /\ buffer'[Host].reading \/ buffer'[Host].ack => ~buffer[Host].ack
           /\ buffer'[Host].reading => ~buffer'[Host].ack /\ buffer'[Host].index = Access.index
           /\ buffer'[Host].ack => buffer[Host].reading /\ ~buffer[Host].ack
           /\ \A b \in {Control, Memory} :
                 /\ buffer'[b].reading \/ buffer'[b].ack => buffer'[Host].reading /\ Stop.to = b
                 /\ buffer'[b].reading => ~buffer'[b].ack /\ buffer'[b].index = Stop.index
                 /\ buffer'[b].ack => buffer[b].reading
           /\ memory'.ack => buffer'[Memory].reading /\ buffer[Memory].reading
<1>1. /\ Host \notin {Control, Memory} /\ Control # Memory
      /\ axi.read_address = Access.index /\ Asked(Host) = {axi.read_address}
  <2>1. axi.arready
    BY DEF Turns, ReadTurn
  <2> QED
    BY <2>1, BuffersDiffer, ReadIsOnItsWay DEF Behind, Pathed
<1>2. /\ buffer'[Host].reading \/ buffer'[Host].ack => ~buffer[Host].ack
      /\ buffer'[Host].reading => ~buffer'[Host].ack /\ buffer'[Host].index = Access.index
      /\ buffer'[Host].ack => buffer[Host].reading /\ ~buffer[Host].ack
  <2>1. CASE buffer[Host].ack
    BY <1>1, <2>1, ReadsMove DEF Pathed
  <2>2. CASE ~buffer[Host].ack /\ ~buffer[Host].reading
    BY <1>1, <2>2, ReadsMove
  <2>3. CASE ~buffer[Host].ack /\ buffer[Host].reading /\ Answered(Host) = {}
    BY <1>1, <2>3, ReadsMove DEF Pathed, SameRead
  <2>4. CASE ~buffer[Host].ack /\ buffer[Host].reading /\ Answered(Host) # {}
    BY <1>1, <2>4, ReadsMove
  <2> QED
    BY <2>1, <2>2, <2>3, <2>4
<1>3. ASSUME NEW b \in {Control, Memory}
      PROVE  /\ buffer'[b].reading \/ buffer'[b].ack => buffer'[Host].reading /\ Stop.to = b
             /\ buffer'[b].reading => ~buffer'[b].ack /\ buffer'[b].index = Stop.index
             /\ buffer'[b].ack => buffer[b].reading
  <2>1. CASE ~(buffer[Host].reading /\ Stop.to = b)
    <3>1. ~buffer[b].reading /\ ~buffer[b].ack
      BY <2>1 DEF Pathed
    <3>2. Asked(b) = {}
      BY <2>1, ReadIsOnItsWay
    <3> QED
      BY <3>1, <3>2, ReadsMove DEF SameRead
  <2>2. CASE buffer[Host].reading /\ Stop.to = b
    <3>1. Asked(b) = {Stop.index} /\ Asked(b) # {} /\ ~buffer[Host].ack
      BY <2>2, ReadIsOnItsWay DEF Pathed
    <3>2. CASE buffer[b].ack
      BY <3>1, <3>2, ReadsMove DEF Pathed
    <3>3. CASE ~buffer[b].ack
      <4>1. Answered(Host) = {}
        BY <2>2, <3>3, ReadIsOnItsWay
      <4>2. buffer'[Host].reading
        BY <1>1, <2>2, <3>1, <4>1, ReadsMove DEF SameRead
      <4>3. CASE ~buffer[b].reading
        BY <2>2, <3>1, <3>3, <4>2, <4>3, ReadsMove
      <4>4. CASE buffer[b].reading /\ Answered(b) = {}
        BY <2>2, <3>1, <3>3, <4>2, <4>4, ReadsMove DEF Pathed, SameRead
      <4>5. CASE buffer[b].reading /\ Answered(b) # {}
        BY <2>2, <3>1, <3>3, <4>2, <4>5, ReadsMove
      <4> QED
        BY <4>3, <4>4, <4>5
    <3> QED
      BY <3>2, <3>3
  <2> QED
    BY <2>1, <2>2
<1>4. ASSUME memory'.ack PROVE buffer'[Memory].reading /\ buffer[Memory].reading
  <2>1. buffer[Memory].reading /\ ~memory.ack
    BY <1>4, MemoryReads, ReadIsOnItsWay DEF Pathed, Edge
  <2>2. Answered(Memory) = {}
    BY <2>1, ReadIsOnItsWay
  <2>3. Asked(Memory) # {} /\ ~buffer[Memory].ack
    BY <2>1, ReadIsOnItsWay DEF Pathed
  <2> QED
    BY <2>1, <2>2, <2>3, ReadsMove DEF SameRead
<1> QED
  BY <1>2, <1>3, <1>4

LEMMA PathedKept ==
    ASSUME System = "element", Shaped, Turns, Pathed, Edge, ClockBridge, ClockDriver
    PROVE  Pathed'
<1>1. CASE ~axi.read_req
  <2>1. /\ \A b \in {Host, Control, Memory} : ~buffer'[b].reading /\ ~buffer'[b].ack
        /\ ~memory'.ack
    BY <1>1, NoRead
  <2>2. axi'.arready => axi'.read_address = Access'.index
    <3> HAVE axi'.arready
    <3>1. ~axi.bvalid /\ ~axi.rvalid
      BY BridgeMoves DEF Turns, HostTurn, ReadTurn, WriteTurn
    <3>2. Access' = Access
      BY <3>1 DEF ClockDriver, Access
    <3>3. axi'.read_address = IF axi.arvalid /\ ~axi.arready THEN Access.index ELSE axi.read_address
      BY DEF ClockBridge
    <3>4. axi.arready \/ axi.arvalid
      BY BridgeMoves
    <3> QED
      BY <3>2, <3>3, <3>4 DEF Pathed
  <2> QED
    BY <2>1, <2>2 DEF Pathed
<1>2. CASE axi.read_req
  <2>1. ~axi.bvalid /\ ~axi.rvalid /\ axi.arready /\ ~axi.arvalid
    BY <1>2 DEF Turns, HostTurn, ReadTurn, WriteTurn
  <2>2. Access' = Access /\ Stop' = Stop
    BY <2>1 DEF ClockDriver, Access, Stop
  <2>3. axi'.read_address = axi.read_address
    BY <2>1 DEF ClockBridge
  <2>4. ~buffer[Host].ack => axi'.read_req
    BY <1>2, BridgeMoves DEF ReadAck
  <2>5. axi'.arready => axi'.read_address = Access'.index
    BY <2>1, <2>2, <2>3 DEF Pathed
  <2>6. buffer'[Host].reading \/ buffer'[Host].ack => axi'.read_req
    BY <1>2, <2>4, ReadGoesOn
  <2>7. buffer'[Host].reading => ~buffer'[Host].ack /\ buffer'[Host].index = Access'.index
    BY <1>2, <2>2, ReadGoesOn
  <2>8. \A b \in {Control, Memory} :
           /\ buffer'[b].reading \/ buffer'[b].ack => buffer'[Host].reading /\ Stop'.to = b
           /\ buffer'[b].reading => ~buffer'[b].ack /\ buffer'[b].index = Stop'.index
    BY <1>2, <2>2, ReadGoesOn
  <2>9. memory'.ack => buffer'[Memory].reading
    BY <1>2, ReadGoesOn
  <2> QED
    BY <2>5, <2>6, <2>7, <2>8, <2>9 DEF Pathed
<1> QED
  BY <1>1, <1>2

-----------------------------------------------------------------------------
(* What the answers say.                                                   *)

\* The last write is the one that starts the element.
LEMMA LastWrite ==
    ASSUME System = "element", NEW n, IsWrite(n)
    PROVE  n \in Int /\ n <= Begin
<1>1. n \in 1 .. Len(Main) /\ Len(Main) \in Nat /\ Main[n].kind = "write"
  BY Amounts, WholeProgram DEF IsWrite
<1>2. n \notin Begin + 1 .. Len(Main)
  <2>1. \A i : Poll(i).kind # "write" /\ Read(i).kind # "write"
    BY DEF Poll, Read
  <2> QED
    BY <1>1, <2>1, AccessesAfterBegin
<1> QED
  BY <1>1, <1>2, BeginIsLate

\* What the read in progress is for, and where it goes.
LEMMA ReadInProgress ==
    ASSUME System = "element", Shaped, HostTurn, Running, Access.kind # "write"
    PROVE  /\ driver.at \in 1 .. Len(Main) /\ ~IsWrite(driver.at) /\ Len(Main) \in Nat
           /\ \/ /\ Access.kind = "check"
                 /\ \E i \in 1 .. Len(Inputs) :
                       /\ driver.at = 3 + RegisterWords + InstructionWords + Len(Inputs) + i
                       /\ Access.data = Inputs[i] /\ Stop = Mapped(Memory, i - 1)
              \/ /\ Access.kind = "poll" /\ driver.at = Begin + 1
                 /\ Stop = Mapped(Control, HaltedReg)
              \/ /\ Access.kind = "read"
                 /\ \E i \in 1 .. NumOutputs :
                       /\ driver.at = Begin + 1 + i
                       /\ Stop = Mapped(Memory, Len(Inputs) + i - 1)
              \/ Access.kind = "count" /\ driver.at > Begin + 1 + NumOutputs
<1>1. PICK n : n = driver.at
  OBVIOUS
<1>2. n \in 1 .. Len(Main) /\ ~IsWrite(n) /\ Len(Main) \in Nat
  BY <1>1, AccessInProgress
<1>3. Access = Main[n] /\ Stop = Forward(Host, Main[n].index)
  BY <1>1 DEF Access, Stop
<1> QED
  BY <1>1, <1>2, <1>3, ReadsByPlace DEF Checks, Polls, Retrieves, Counts

\* A read on the bus finds every write landed, and so does the host after its last write.
Settled == /\ ~axi.bvalid /\ driver.at \in Nat /\ driver.at > 3 /\ Done(driver.at - 1)
           /\ ~AtCore.reset /\ Offered(Ram) = {}

LEMMA ReadsAreSettled ==
    ASSUME System = "element", Shaped, Turns, Progress, Edge, ClockDriver,
           axi.read_req \/ axi.rvalid \/ driver.at > Begin + 1
    PROVE  Settled
<1>0. driver.at \in Nat \ {0} /\ Begin \in Int /\ Begin > 5
  BY HostMoves, BeginIsLate
<1>1. ~axi.bvalid
  <2> SUFFICES ASSUME axi.bvalid PROVE FALSE
    OBVIOUS
  <2>1. IsWrite(driver.at) /\ ~axi.read_req /\ ~axi.rvalid
    BY HostMoves DEF Turns, HostTurn, WriteTurn, ReadTurn
  <2> QED
    BY <1>0, <2>1, LastWrite
<1>2. axi.read_req \/ axi.rvalid => ~IsWrite(driver.at) /\ driver.at \in 1 .. Len(Main)
  <2> HAVE axi.read_req \/ axi.rvalid
  <2>1. Running /\ Access.kind # "write" /\ HostTurn
    BY DEF Turns, HostTurn, ReadTurn
  <2> QED
    BY <2>1, AccessInProgress
<1>3. driver.at > 3
  <2>1. CASE axi.read_req \/ axi.rvalid
    <3>1. driver.at > 3 + RegisterWords + InstructionWords + Len(Inputs)
      BY <1>2, <2>1, OtherAccesses
    <3> QED
      BY <1>0, <3>1, Amounts
  <2>2. CASE driver.at > Begin + 1
    BY <1>0, <2>2
  <2> QED
    BY <2>1, <2>2
<1>4. PICK n \in Nat : n = driver.at - 1 /\ n > 2
  <2>1. driver.at - 1 \in Nat /\ driver.at - 1 > 2
    BY <1>0, <1>3
  <2> QED
    BY <2>1
<1>5. Done(n)
  <2>1. CASE axi.read_req \/ axi.rvalid
    <3>1. ~Fresh0 /\ ~Fresh1
      BY <2>1 DEF Fresh0, Fresh1
    <3>2. ~Clearing(n)
      BY <1>4 DEF Clearing
    <3> QED
      BY <1>4, <3>1, <3>2 DEF Progress
  <2>2. CASE driver.at > Begin + 1
    <3>1. ~IsWrite(n)
      <4>1. n > Begin
        BY <1>0, <1>4, <2>2
      <4> QED
        BY <1>0, <1>4, <4>1, LastWrite
    <3>2. ~Clearing(n)
      BY <1>4 DEF Clearing
    <3> QED
      BY <1>4, <3>1, <3>2 DEF Progress, Crossing, Entering, Switching
  <2> QED
    BY <2>1, <2>2
<1>6. ~AtCore.reset
  BY <1>4, <1>5 DEF Done, Landed, Signals, Gives
<1>7. Offered(Ram) = {}
  <2>1. WritesMove /\ Nothing /\ buffer[Host].writes = << >>
    BY <1>1, <1>5, ClockMovesWrites DEF Done, Turns, HostQueue, Edge
  <2> QED
    BY <2>1, NothingComes
<1> QED
  BY <1>0, <1>1, <1>3, <1>4, <1>5, <1>6, <1>7 DEF Settled

\* While the read is in progress an answer stays true.
LEMMA TruthStays ==
    ASSUME System = "element", Shaped, Turns, Results, Settled, Edge, ClockRaised,
           driver' = driver, Running, Access.kind # "write", NEW value, Truthful(value)
    PROVE  Truthful(value)'
<1>1. Access' = Access /\ Stop' = Stop
  BY DEF Access, Stop
<1>2. Final => Final' /\ memory'.ram = memory.ram
  BY FinalStays DEF Settled
<1>3. Access.kind = "read" /\ ~driver.interrupted => Final
  <2> HAVE Access.kind = "read" /\ ~driver.interrupted
  <2>1. \E i \in 1 .. NumOutputs : driver.at = Begin + 1 + i
    BY ReadInProgress DEF Turns
  <2>2. driver.at > Begin + 1
    BY <2>1, BeginIsLate, Amounts
  <2> QED
    BY <2>2 DEF Results
<1> QED
  BY <1>1, <1>2, <1>3 DEF Truthful

LEMMA PlaceOfCheck ==
    ASSUME NEW q \in Nat, NEW k \in Nat, NEW i \in 1 .. k, NEW at, at = q + k + i,
           NEW begin, begin = q + k + k + 1, NEW n, n = at - 1
    PROVE  q + i <= n /\ n < begin /\ n # 0
  OBVIOUS

\* What the memory puts out for the host is what it will still hold.
LEMMA MemoryTells ==
    ASSUME System = "element", Shaped, Turns, Results, Settled, Edge, ClockRaised,
           driver' = driver, Running, Access.kind # "write", Stop.to = Memory,
           NEW value, value = memory.ram[Stop.index]
    PROVE  Truthful(value)'
<1>1. Truthful(value)
  <2>1. Access.kind # "poll"
    <3>1. Control # Memory
      BY BuffersDiffer
    <3> QED
      BY <3>1, ReadInProgress DEF Turns, Mapped
  <2>2. Access.kind = "check" => value = Access.data
    <3> HAVE Access.kind = "check"
    <3>1. PICK i \in 1 .. Len(Inputs) :
             /\ driver.at = 3 + RegisterWords + InstructionWords + Len(Inputs) + i
             /\ Access.data = Inputs[i] /\ Stop = Mapped(Memory, i - 1)
      BY ReadInProgress DEF Turns
    <3>2. PICK n \in Nat : n = driver.at - 1
      <4>1. driver.at - 1 \in Nat
        BY DEF Settled
      <4> QED
        BY <4>1
    <3>3. /\ 3 + RegisterWords + InstructionWords + i <= n /\ n < Begin /\ n # 0
      <4>1. PICK Q \in Nat : Q = 3 + RegisterWords + InstructionWords
        BY Amounts
      <4>2. PICK N \in Nat : N = Len(Inputs)
        BY Amounts
      <4>3. driver.at = Q + N + i /\ Begin = Q + N + N + 1 /\ i \in 1 .. N
        BY <3>1, <4>1, <4>2, Amounts DEF Begin
      <4> QED
        BY <3>2, <4>1, <4>2, <4>3, PlaceOfCheck
    <3>4. Words(n) /\ Gives(AtCore, n) /\ Waiting
      BY <3>2, <3>3 DEF Settled, Done, Landed, Signals
    <3>5. core[0].step = 1
      BY <3>3, <3>4, BeginIsLate DEF Gives, Waiting
    <3>6. memory.ram[i - 1] = Inputs[i]
      BY <3>3, <3>4, <3>5 DEF Words
    <3> QED
      BY <3>1, <3>6 DEF Mapped
  <2> QED
    BY <2>1, <2>2 DEF Truthful
<1> QED
  BY <1>1, TruthStays

\* What the control registers say of halted is so.
LEMMA ControlTells ==
    ASSUME System = "element", Shaped, Turns, Quieting, Cleared, Results, Settled, Edge, ClockRaised,
           driver' = driver, Running, Access.kind # "write", Stop.to = Control,
           NEW value, Stop.index = HaltedReg => value = Bit(SystemHalted)
    PROVE  Truthful(value)'
<1>1. Truthful(value)
  <2>1. Control # Memory
    BY BuffersDiffer
  <2>2. Access.kind # "check" /\ Access.kind # "read"
    BY <2>1, ReadInProgress DEF Turns, Mapped
  <2>3. ASSUME Access.kind = "poll", value # 0 PROVE Final
    <3>1. Stop.index = HaltedReg
      BY <2>3, ReadInProgress DEF Turns, Mapped
    <3>2. SystemHalted
      BY <2>3, <3>1 DEF Bit
    <3>3. raised.halted /\ raised.quiescent /\ memory.quiescent
      BY <3>2 DEF SystemHalted
    <3>4. core[0].halted
      BY <3>3 DEF Cleared, Settled
    <3> QED
      BY <3>3, <3>4 DEF Quieting, Final
  <2> QED
    BY <2>2, <2>3 DEF Truthful
<1> QED
  BY <1>1, TruthStays

\* Every answer on its way to the host is true, and stays so until the host has it.
LEMMA AnswersKept ==
    ASSUME System = "element", Shaped, Turns, Progress, ReadInv, Edge, ClockBridge,
           ClockDriver, ClockRaised
    PROVE  Answers'
<1>0. Quieting /\ Cleared /\ Pathed /\ Answers /\ Results
  BY DEF ReadInv
<1>1. CASE ~axi.read_req
  <2>1. /\ \A b \in {Host, Control, Memory} : ~buffer'[b].ack
        /\ ~memory'.ack
    BY <1>0, <1>1, NoRead
  <2>2. ~axi'.rvalid
    BY <1>1, BridgeMoves DEF ReadAck
  <2> QED
    BY <2>1, <2>2 DEF Answers
<1>2. CASE axi.read_req
  <2>1. Settled /\ ~axi.rvalid /\ Running /\ Access.kind # "write" /\ driver' = driver
    <3>1. Settled
      BY <1>2, ReadsAreSettled
    <3>2. ~axi.rvalid /\ Running /\ Access.kind # "write"
      BY <1>2 DEF Turns, HostTurn, ReadTurn
    <3> QED
      BY <3>1, <3>2 DEF Settled, ClockDriver
  <2>2. \A v : Truthful(v) => Truthful(v)'
    BY <1>0, <2>1, TruthStays
  <2>3. memory'.ack => Truthful(memory.out)'
    <3> HAVE memory'.ack
    <3>1. buffer[Memory].reading
      BY <1>0, <1>2, ReadGoesOn
    <3>2. Stop.to = Memory /\ Asked(Ram) = {Stop.index}
      BY <1>0, <3>1, ReadIsOnItsWay DEF Pathed
    <3>3. PICK v : v = memory.ram[Stop.index]
      OBVIOUS
    <3>4. memory'.out = v
      BY <3>2, <3>3, MemoryReads DEF Edge
    <3>5. Truthful(v)'
      BY <1>0, <2>1, <3>2, <3>3, MemoryTells
    <3> QED
      BY <3>4, <3>5 DEF Truthful
  <2>4. buffer'[Memory].ack => Truthful(buffer[Memory].data)'
    <3> HAVE buffer'[Memory].ack
    <3>1. buffer[Memory].reading /\ ~buffer[Memory].ack
      BY <1>0, <1>2, <2>1, ReadGoesOn DEF Pathed
    <3>2. Asked(Memory) # {}
      BY <1>0, <3>1, ReadIsOnItsWay DEF Pathed
    <3>3. memory.ack /\ buffer'[Memory].data = memory.out
      BY <1>0, <3>1, <3>2, ReadIsOnItsWay, ReadsMove DEF SameRead
    <3>4. PICK v : v = memory.out
      OBVIOUS
    <3>5. Truthful(v)'
      BY <1>0, <2>2, <3>3, <3>4 DEF Answers
    <3> QED
      BY <3>3, <3>4, <3>5 DEF Truthful
  <2>5. buffer'[Control].ack => Truthful(buffer[Control].data)'
    <3> HAVE buffer'[Control].ack
    <3>1. buffer[Control].reading /\ ~buffer[Control].ack
      BY <1>0, <1>2, ReadGoesOn DEF Pathed
    <3>2. Asked(Control) # {} /\ Stop.to = Control
      BY <1>0, <3>1, ReadIsOnItsWay DEF Pathed
    <3>3. PICK v : v = buffer'[Control].data
      OBVIOUS
    <3>4. Stop.index = HaltedReg => v = Bit(SystemHalted)
      <4> HAVE Stop.index = HaltedReg
      <4>1. Answered(Control) = {Bit(SystemHalted)}
        BY <1>0, <3>1, ReadIsOnItsWay
      <4>2. Answered(Control) # {}
        BY <4>1
      <4> QED
        BY <3>1, <3>2, <3>3, <4>1, <4>2, ReadsMove
    <3>5. Truthful(v)'
      BY <1>0, <2>1, <3>2, <3>4, ControlTells
    <3> QED
      BY <3>3, <3>5 DEF Truthful
  <2>6. buffer'[Host].ack => Truthful(buffer[Host].data)'
    <3> HAVE buffer'[Host].ack
    <3>1. buffer[Host].reading /\ ~buffer[Host].ack /\ Asked(Host) # {}
      BY <1>0, <1>2, ReadGoesOn, ReadIsOnItsWay
    <3>2. ASSUME NEW b \in {Control, Memory}, Stop.to = b PROVE Truthful(buffer[Host].data)'
      <4>1. Answered(Host) = IF buffer[b].ack THEN {buffer[b].data} ELSE {}
        BY <1>0, <3>1, <3>2, ReadIsOnItsWay
      <4>2. Answered(Host) # {}
        <5>1. Answered(Host) = {} => SameRead(buffer'[Host], buffer[Host])
          BY <3>1, ReadsMove
        <5> QED
          BY <3>1, <5>1 DEF SameRead
      <4>3. PICK v : v = buffer[b].data /\ buffer[b].ack /\ Answered(Host) = {v}
        BY <4>1, <4>2
      <4>4. buffer'[Host].data = v
        BY <3>1, <4>2, <4>3, ReadsMove
      <4>5. Truthful(v)'
        BY <1>0, <2>2, <4>3 DEF Answers
      <4> QED
        BY <4>4, <4>5 DEF Truthful
    <3>3. ASSUME Stop.to \notin {Control, Memory} PROVE Truthful(buffer[Host].data)'
      <4>1. Access.kind \notin {"check", "poll", "read"}
        BY <2>1, <3>3, ReadInProgress DEF Turns, Mapped
      <4>2. Access' = Access
        BY <2>1 DEF Access
      <4> QED
        BY <4>1, <4>2 DEF Truthful
    <3> QED
      BY <3>2, <3>3
  <2>7. axi'.rvalid => Truthful(axi.rdata)'
    <3> HAVE axi'.rvalid
    <3>1. ReadAck
      BY BridgeMoves
    <3>2. buffer[Host].ack /\ axi'.rdata = buffer[Host].data
      BY <3>1 DEF ReadAck, ClockBridge
    <3>3. PICK v : v = buffer[Host].data
      OBVIOUS
    <3>4. Truthful(v)'
      BY <1>0, <2>2, <3>2, <3>3 DEF Answers
    <3> QED
      BY <3>2, <3>3, <3>4 DEF Truthful
  <2> QED
    BY <2>3, <2>4, <2>5, <2>6, <2>7 DEF Answers
<1> QED
  BY <1>1, <1>2

-----------------------------------------------------------------------------
(* What the host has retrieved.                                            *)

LEMMA OutputGrows ==
    ASSUME NEW s, s \in Seq({s[j] : j \in DOMAIN s}), NEW v, NEW t, t = Append(s, v)
    PROVE  /\ t \in Seq({t[j] : j \in DOMAIN t})
           /\ Len(s) \in Nat /\ Len(t) = Len(s) + 1
           /\ \A j \in 1 .. Len(s) : t[j] = s[j]
           /\ t[Len(s) + 1] = v
<1>1. PICK S : S = {s[j] : j \in DOMAIN s} \cup {v}
  OBVIOUS
<1>2. s \in Seq(S) /\ v \in S
  <2>1. {s[j] : j \in DOMAIN s} \subseteq S
    BY <1>1
  <2>2. PICK T : T = {s[j] : j \in DOMAIN s}
    OBVIOUS
  <2>3. s \in Seq(T) /\ T \subseteq S
    BY <2>1, <2>2
  <2>4. s \in Seq(S)
    BY <2>3
  <2> QED
    BY <1>1, <2>4
<1>3. /\ t \in Seq(S) /\ Len(t) = Len(s) + 1
      /\ \A j \in 1 .. Len(s) : t[j] = s[j]
      /\ t[Len(s) + 1] = v
  BY <1>2, AppendProperties
<1>4. Len(s) \in Nat /\ Len(t) \in Nat /\ DOMAIN t = 1 .. Len(t)
  BY <1>2, <1>3, LenProperties
<1>5. PICK R : R = {t[j] : j \in DOMAIN t}
  OBVIOUS
<1>6. PICK n \in Nat : t \in [1 .. n -> S]
  <2>1. t \in UNION {[1 .. n -> S] : n \in Nat}
    BY <1>3, SeqDef, Zenon
  <2> QED
    BY <2>1
<1>7. t \in [1 .. n -> R]
  BY <1>5, <1>6
<1>8. t \in Seq(R)
  <2>1. t \in UNION {[1 .. m -> R] : m \in Nat}
    BY <1>7
  <2> QED
    BY <2>1, SeqDef, Zenon
<1> QED
  BY <1>3, <1>4, <1>5, <1>8

\* What the host keeps of an answer.
LEMMA HostKeeps ==
    ASSUME Shaped, Running, NEW value, driver' = Advance(value)
    PROVE  /\ Access.kind \in {"write", "count"} \/ (Access.kind = "check" /\ value = Access.data) =>
                 /\ driver'.at = driver.at + 1 /\ driver'.status # "failed"
                 /\ driver'.output = driver.output /\ driver'.interrupted = driver.interrupted
           /\ Access.kind = "poll" =>
                 /\ driver'.at = driver.at \/ (driver'.at = driver.at + 1
                                                 /\ (value # 0 \/ driver.interrupted))
                 /\ driver'.status # "failed"
                 /\ driver'.output = driver.output /\ driver'.interrupted = driver.interrupted
           /\ Access.kind = "read" =>
                 /\ driver'.at = driver.at + 1 /\ driver'.status # "failed"
                 /\ driver'.output = Append(driver.output, value)
                 /\ driver'.interrupted = driver.interrupted
<1>1. DOMAIN driver = {"at", "address", "data", "output", "interrupted", "status"}
  BY DEF Shaped
<1> DEFINE next == [driver EXCEPT !.at = @ + 1, !.address = FALSE, !.data = FALSE,
                                  !.status = IF driver.at = Len(Main) THEN "done" ELSE @]
<1>2. /\ DOMAIN next = DOMAIN driver
      /\ next.at = driver.at + 1 /\ next.output = driver.output
      /\ next.interrupted = driver.interrupted
      /\ next.status # "failed"
  BY <1>1 DEF Running
<1> HIDE DEF next
<1>3. driver' = CASE Access.kind \in {"write", "count"} -> next
                  [] Access.kind = "check" ->
                        IF value = Access.data THEN next ELSE [next EXCEPT !.status = "failed"]
                  [] Access.kind = "poll" ->
                        IF value # 0 \/ driver.interrupted THEN next
                        ELSE [driver EXCEPT !.address = FALSE, !.data = FALSE]
                  [] Access.kind = "read" -> [next EXCEPT !.output = Append(@, value)]
  BY DEF Advance, next
<1>4. ASSUME Access.kind \in {"write", "count"} \/ (Access.kind = "check" /\ value = Access.data)
      PROVE  driver' = next
  BY <1>3, <1>4
<1>5. ASSUME Access.kind = "poll"
      PROVE  \/ driver' = next /\ (value # 0 \/ driver.interrupted)
             \/ driver' = [driver EXCEPT !.address = FALSE, !.data = FALSE]
  BY <1>3, <1>5
<1>6. /\ [driver EXCEPT !.address = FALSE, !.data = FALSE].at = driver.at
      /\ [driver EXCEPT !.address = FALSE, !.data = FALSE].output = driver.output
      /\ [driver EXCEPT !.address = FALSE, !.data = FALSE].interrupted = driver.interrupted
      /\ [driver EXCEPT !.address = FALSE, !.data = FALSE].status # "failed"
  BY <1>1 DEF Running
<1>7. ASSUME Access.kind = "read"
      PROVE  /\ driver'.at = driver.at + 1 /\ driver'.status # "failed"
             /\ driver'.output = Append(driver.output, value)
             /\ driver'.interrupted = driver.interrupted
  <2>1. driver' = [next EXCEPT !.output = Append(@, value)]
    BY <1>3, <1>7
  <2> QED
    BY <1>1, <1>2, <2>1
<1>8. Access.kind = "poll" =>
                 /\ driver'.at = driver.at \/ (driver'.at = driver.at + 1
                                                 /\ (value # 0 \/ driver.interrupted))
                 /\ driver'.status # "failed"
                 /\ driver'.output = driver.output /\ driver'.interrupted = driver.interrupted
  <2> HAVE Access.kind = "poll"
  <2>1. CASE driver' = next /\ (value # 0 \/ driver.interrupted)
    BY <1>2, <2>1
  <2>2. CASE driver' = [driver EXCEPT !.address = FALSE, !.data = FALSE]
    BY <1>6, <2>2
  <2> QED
    BY <1>5, <2>1, <2>2
<1> QED
  BY <1>2, <1>4, <1>7, <1>8

\* How many results the host has before each access.
LEMMA RetrievedBefore ==
    ASSUME NEW n \in Nat
    PROVE  /\ n <= Begin + 2 => Retrieved(n) = 0
           /\ \A i \in 1 .. NumOutputs : n = Begin + 1 + i =>
                 Retrieved(n) = i - 1 /\ Retrieved(n + 1) = i
           /\ n > Begin + 1 + NumOutputs =>
                 Retrieved(n) = NumOutputs /\ Retrieved(n + 1) = NumOutputs
           /\ Retrieved(n) \in Nat
<1>1. Begin \in Int /\ Begin > 5 /\ NumOutputs \in Nat
  BY BeginIsLate, RunAssumption
<1>2. n + 1 \in Nat
  OBVIOUS
<1>3. n <= Begin + 2 => Retrieved(n) = 0
  BY DEF Retrieved
<1>4. ASSUME NEW i \in 1 .. NumOutputs, n = Begin + 1 + i
      PROVE  Retrieved(n) = i - 1 /\ Retrieved(n + 1) = i
  BY <1>1, <1>4 DEF Retrieved
<1>5. n > Begin + 1 + NumOutputs =>
         Retrieved(n) = NumOutputs /\ Retrieved(n + 1) = NumOutputs
  BY <1>1 DEF Retrieved
<1>6. Retrieved(n) \in Nat
  BY <1>1 DEF Retrieved
<1> QED
  BY <1>3, <1>4, <1>5, <1>6

\* The host keeps the answers it is given; a result is in the memory for good.
LEMMA ResultsKept ==
    ASSUME System = "element", Shaped, Turns, Progress, ReadInv, Edge, ClockBridge,
           ClockDriver, ClockRaised
    PROVE  Results'
<1>0. /\ Results /\ Answers /\ Begin \in Int /\ driver.at \in Nat
      /\ driver.output \in Seq({driver.output[j] : j \in DOMAIN driver.output})
      /\ Len(driver.output) = Retrieved(driver.at)
  BY BeginIsLate, HostMoves DEF ReadInv, Results
<1>1. Settled => (Final => Final' /\ memory'.ram = memory.ram)
  BY FinalStays DEF Settled
<1>2. ASSUME Settled, driver.at > Begin + 1, ~driver.interrupted
      PROVE  /\ Final' /\ memory'.ram = memory.ram
             /\ \A j \in 1 .. Retrieved(driver.at) :
                   driver.output[j] = memory'.ram[Len(Inputs) + j - 1]
  BY <1>0, <1>1, <1>2 DEF Results
<1>3. ASSUME driver'.status # "failed", driver'.output = driver.output,
             driver'.interrupted = driver.interrupted,
             driver.at > Begin + 1 => Settled, driver'.at \in Nat,
             Retrieved(driver'.at) = Retrieved(driver.at),
             driver'.at > Begin + 1 => driver.at > Begin + 1
      PROVE  Results'
  <2>1. PICK m : m = driver.at
    OBVIOUS
  <2>2. PICK k : k = driver'.at
    OBVIOUS
  <2>3. ~driver'.interrupted /\ k > Begin + 1 => Final'
    BY <1>2, <1>3, <2>2
  <2>4. ~driver'.interrupted =>
           \A j \in 1 .. Retrieved(k) : driver'.output[j] = memory'.ram[Len(Inputs) + j - 1]
    <3>1. CASE m > Begin + 1
      BY <1>2, <1>3, <2>1, <2>2, <3>1
    <3>2. CASE ~(m > Begin + 1)
      <4>1. Retrieved(m) = 0
        BY <1>0, <2>1, <3>2, RetrievedBefore
      <4> QED
        BY <1>3, <2>1, <2>2, <4>1
    <3> QED
      BY <3>1, <3>2
  <2>5. Len(driver'.output) = Retrieved(k)
    BY <1>0, <1>3, <2>1, <2>2
  <2>6. driver'.output \in Seq({driver'.output[j] : j \in DOMAIN driver'.output})
    BY <1>0, <1>3
  <2> QED
    BY <1>3, <2>2, <2>3, <2>4, <2>5, <2>6 DEF Results, Retrieved
<1>4. CASE ~axi.bvalid /\ ~axi.rvalid
  <2>1. driver' = driver
    BY <1>4, HostMoves
  <2>2. driver.at > Begin + 1 => Settled
    BY ReadsAreSettled
  <2> QED
    BY <1>0, <1>3, <2>1, <2>2 DEF Results
<1>5. CASE axi.bvalid
  <2>1. /\ Running /\ IsWrite(driver.at) /\ driver' = Advance(0) /\ driver'.at = driver.at + 1
        /\ Access.kind = "write" /\ driver.at <= Begin
    BY <1>5, HostMoves, LastWrite DEF IsWrite, Access
  <2>2. /\ driver'.status # "failed" /\ driver'.output = driver.output
        /\ driver'.interrupted = driver.interrupted
    BY <2>1, HostKeeps
  <2>3. Retrieved(driver.at) = 0 /\ Retrieved(driver'.at) = 0
    <3>1. PICK k \in Nat : k = driver'.at /\ k <= Begin + 1
      BY <1>0, <2>1
    <3> QED
      BY <1>0, <2>1, <3>1, RetrievedBefore
  <2> QED
    BY <1>0, <1>3, <2>1, <2>2, <2>3
<1>6. CASE axi.rvalid
  <2>1. /\ Running /\ driver' = Advance(axi.rdata) /\ Settled
        /\ Access.kind # "write" /\ Truthful(axi.rdata) /\ HostTurn
    BY <1>0, <1>6, HostMoves, ReadsAreSettled DEF Turns, ReadTurn, Answers
  <2>2. PICK n \in Nat : n = driver.at
    BY <1>0
  <2>3. CASE Access.kind = "check"
    <3>1. axi.rdata = Access.data
      BY <2>1, <2>3 DEF Truthful
    <3>2. /\ driver'.at = n + 1 /\ driver'.status # "failed" /\ driver'.output = driver.output
          /\ driver'.interrupted = driver.interrupted
      BY <2>1, <2>2, <2>3, <3>1, HostKeeps
    <3>3. n < Begin
      <4>1. PICK i \in 1 .. Len(Inputs) :
               n = 3 + RegisterWords + InstructionWords + Len(Inputs) + i
        BY <2>1, <2>2, <2>3, ReadInProgress
      <4> QED
        BY <4>1, Amounts DEF Begin
    <3>4. n + 1 \in Nat /\ Retrieved(n) = 0 /\ Retrieved(n + 1) = 0
      BY <1>0, <3>3, RetrievedBefore
    <3>5. ~(n + 1 > Begin + 1) /\ ~(n > Begin + 1)
      BY <1>0, <3>3
    <3> QED
      BY <1>3, <2>2, <3>2, <3>4, <3>5
  <2>4. CASE Access.kind = "poll"
    <3>1. n = Begin + 1
      BY <2>1, <2>2, <2>4, ReadInProgress
    <3>2. /\ driver'.status # "failed" /\ driver'.output = driver.output
          /\ driver'.interrupted = driver.interrupted
          /\ driver'.at = n \/ (driver'.at = n + 1 /\ (axi.rdata # 0 \/ driver.interrupted))
      BY <2>1, <2>2, <2>4, HostKeeps
    <3>3. Retrieved(n) = 0 /\ Retrieved(n + 1) = 0 /\ n + 1 \in Nat
      BY <1>0, <3>1, RetrievedBefore
    <3>4. CASE driver'.at = n
      BY <1>3, <2>1, <2>2, <3>2, <3>4
    <3>5. CASE driver'.at = n + 1 /\ (axi.rdata # 0 \/ driver.interrupted)
      <4>1. ~driver'.interrupted => Final'
        BY <1>1, <2>1, <2>4, <3>2, <3>5 DEF Truthful
      <4>2. PICK k : k = driver'.at /\ Retrieved(k) = 0
        BY <3>3, <3>5
      <4>3. Len(driver'.output) = Retrieved(k)
        BY <1>0, <2>2, <3>2, <3>3, <4>2
      <4>4. driver'.output \in Seq({driver'.output[j] : j \in DOMAIN driver'.output})
        BY <1>0, <3>2
      <4> QED
        BY <3>2, <4>1, <4>2, <4>3, <4>4 DEF Results, Retrieved
    <3> QED
      BY <3>2, <3>4, <3>5
  <2>5. CASE Access.kind = "count"
    <3>1. n > Begin + 1 + NumOutputs /\ n > Begin + 1
      <4>1. n > Begin + 1 + NumOutputs
        BY <2>1, <2>2, <2>5, ReadInProgress
      <4> QED
        BY <1>0, <4>1, RunAssumption
    <3>2. /\ driver'.at = n + 1 /\ driver'.status # "failed" /\ driver'.output = driver.output
          /\ driver'.interrupted = driver.interrupted
      BY <2>1, <2>2, <2>5, HostKeeps
    <3>3. n + 1 \in Nat /\ Retrieved(n + 1) = Retrieved(n)
      BY <3>1, RetrievedBefore
    <3> QED
      BY <1>3, <2>1, <2>2, <3>1, <3>2, <3>3
  <2>6. CASE Access.kind = "read"
    <3>1. PICK i \in 1 .. NumOutputs :
             n = Begin + 1 + i /\ Stop = Mapped(Memory, Len(Inputs) + i - 1)
      BY <2>1, <2>2, <2>6, ReadInProgress
    <3>2. /\ driver'.at = n + 1 /\ driver'.status # "failed"
          /\ driver'.output = Append(driver.output, axi.rdata)
          /\ driver'.interrupted = driver.interrupted
      BY <2>1, <2>2, <2>6, HostKeeps
    <3>3. /\ i - 1 \in Nat /\ i - 1 + 1 = i /\ n > Begin + 1
          /\ Retrieved(n) = i - 1 /\ Retrieved(n + 1) = i
      <4>1. Retrieved(n) = i - 1 /\ Retrieved(n + 1) = i
        BY <3>1, RetrievedBefore
      <4>2. i \in Int /\ i >= 1
        BY RunAssumption
      <4>3. n > Begin + 1
        BY <1>0, <3>1, <4>2
      <4> QED
        BY <4>1, <4>2, <4>3
    <3>4. PICK s, v : s = driver.output /\ v = axi.rdata
      OBVIOUS
    <3>5. PICK t : t = driver'.output
      OBVIOUS
    <3>6. /\ t \in Seq({t[j] : j \in DOMAIN t})
          /\ Len(t) = i /\ t[i] = v
          /\ \A j \in 1 .. i - 1 : t[j] = s[j]
      <4>1. s \in Seq({s[j] : j \in DOMAIN s}) /\ t = Append(s, v) /\ Len(s) = i - 1
        BY <1>0, <2>2, <3>2, <3>3, <3>4, <3>5
      <4>2. /\ t \in Seq({t[j] : j \in DOMAIN t})
            /\ Len(s) \in Nat /\ Len(t) = Len(s) + 1
            /\ \A j \in 1 .. Len(s) : t[j] = s[j]
            /\ t[Len(s) + 1] = v
        BY <4>1, OutputGrows
      <4> QED
        BY <3>3, <4>1, <4>2
    <3>7. ASSUME ~driver.interrupted
          PROVE  /\ Final'
                 /\ \A j \in 1 .. i : t[j] = memory'.ram[Len(Inputs) + j - 1]
      <4>1. /\ Final' /\ memory'.ram = memory.ram
            /\ \A j \in 1 .. i - 1 : s[j] = memory'.ram[Len(Inputs) + j - 1]
        BY <1>2, <2>1, <2>2, <3>3, <3>4, <3>7
      <4>2. v = memory.ram[Len(Inputs) + i - 1]
        BY <2>1, <2>6, <3>1, <3>4, <3>7 DEF Truthful, Mapped
      <4>3. \A j \in 1 .. i : j = i \/ j \in 1 .. i - 1
        OBVIOUS
      <4> QED
        BY <3>6, <4>1, <4>2, <4>3
    <3>8. PICK k : k = driver'.at /\ Retrieved(k) = i
      BY <3>2, <3>3
    <3> QED
      BY <3>2, <3>5, <3>6, <3>7, <3>8 DEF Results, Retrieved
  <2> QED
    BY <2>1, <2>3, <2>4, <2>5, <2>6, ReadInProgress
<1> QED
  BY <1>4, <1>5, <1>6

-----------------------------------------------------------------------------
(* What the host reads is so.                                              *)

LEMMA ReadInvInit ==
    ASSUME System = "element", Init
    PROVE  ReadInv
<1>1. /\ driver.at = 1 /\ driver.output = << >> /\ driver.status = "running"
      /\ ~axi.arready /\ ~axi.read_req /\ ~axi.rvalid /\ ~memory.ack
      /\ ~raised.halted
  BY DEF Init
<1>2. \A b \in {Host, Control, Memory} : ~buffer[b].reading /\ ~buffer[b].ack
  BY BuffersDiffer DEF Init, EmptyBuffer, Behind
<1>3. ~core[0].halted
  BY BuffersDiffer DEF Init
<1>4. Quieting
  BY <1>1, <1>3 DEF Quieting
<1>5. Cleared
  BY <1>1 DEF Cleared
<1>6. Pathed
  BY <1>1, <1>2 DEF Pathed
<1>7. Answers
  BY <1>1, <1>2 DEF Answers
<1>8. Results
  <2>1. Retrieved(driver.at) = 0 /\ ~(driver.at > Begin + 1)
    BY <1>1, BeginIsLate, RetrievedBefore
  <2>2. /\ driver.output \in Seq({driver.output[j] : j \in DOMAIN driver.output})
        /\ Len(driver.output) = 0
    BY <1>1
  <2> QED
    BY <1>1, <2>1, <2>2 DEF Results
<1> QED
  BY <1>4, <1>5, <1>6, <1>7, <1>8 DEF ReadInv

\* The host's steps between two edges change nothing of what ReadInv is about; after an
\* interrupt it asks for less.
LEMMA ReadInvSame ==
    ASSUME ReadInv, driver'.at = driver.at, driver'.status = driver.status,
           driver'.output = driver.output, driver.interrupted => driver'.interrupted,
           axi'.wready = axi.wready, axi'.write_req = axi.write_req, axi'.bvalid = axi.bvalid,
           axi'.arready = axi.arready, axi'.read_req = axi.read_req, axi'.rvalid = axi.rvalid,
           axi'.read_address = axi.read_address, axi'.rdata = axi.rdata,
           UNCHANGED << buffer, control, stage, core, raised, channel, port, memory >>
    PROVE  ReadInv'
<1>1. Quieting /\ Cleared /\ Pathed /\ Answers /\ Results
  BY DEF ReadInv
<1>2. Access' = Access /\ Stop' = Stop /\ AtCore' = AtCore
  BY DEF Access, Stop, AtCore, LastStage
<1>3. (Drained => Drained') /\ (Emptied => Emptied') /\ (Final => Final')
  BY DEF Drained, Emptied, Final
<1>4. Quieting'
  BY <1>1, <1>3 DEF Quieting
<1>5. Cleared'
  <2>1. (Fresh0 => Fresh0') /\ (Fresh1 => Fresh1') /\ (Fresh2 => Fresh2')
    BY DEF Fresh0, Fresh1, Fresh2
  <2>2. (Nothing => Nothing') /\ (Waiting => Waiting')
    BY <1>2 DEF Nothing, Waiting, AtRest
  <2>3. \A m : /\ Words(m) => Words(m)'
               /\ Gives(control, m) => Gives(control', m)
               /\ Gives(AtCore, m) => Gives(AtCore', m)
    BY <1>2 DEF Words
  <2>4. \A m : Landed(m) => Landed(m)'
    BY <2>2, <2>3 DEF Landed, Signals, Gives
  <2>5. /\ Done(1) => Done(1)'
        /\ Crossing(1) => Crossing(1)'
        /\ Switching(1) => Switching(1)'
        /\ Clearing(1) => Clearing(1)'
    BY <1>2, <2>2, <2>4 DEF Done, Crossing, Only, Switching, Clearing, Gives
  <2> QED
    BY <1>1, <1>2, <2>1, <2>5 DEF Cleared
<1>6. Pathed'
  BY <1>1, <1>2 DEF Pathed
<1>7. \A v : Truthful(v) => Truthful(v)'
  BY <1>2, <1>3 DEF Truthful
<1>8. Answers'
  <2>1. memory'.ack => Truthful(memory.out)'
    BY <1>1, <1>7 DEF Answers
  <2>2. ASSUME NEW b \in {Host, Control, Memory}, buffer'[b].ack
        PROVE  Truthful(buffer[b].data)'
    BY <1>1, <1>7, <2>2 DEF Answers
  <2>3. axi'.rvalid => Truthful(axi.rdata)'
    BY <1>1, <1>7 DEF Answers
  <2> QED
    BY <2>1, <2>2, <2>3 DEF Answers
<1>9. Results'
  BY <1>1, <1>3 DEF Results, Retrieved
<1> QED
  BY <1>4, <1>5, <1>6, <1>8, <1>9 DEF ReadInv

LEMMA HostStepsKeepReadInv ==
    ASSUME System = "element", RunInv, ReadInv, IssueAddress \/ IssueData \/ Interrupt
    PROVE  ReadInv'
<1>1. Shaped
  BY DEF RunInv
<1>2. /\ driver'.at = driver.at /\ driver'.status = driver.status
      /\ driver'.output = driver.output /\ (driver.interrupted => driver'.interrupted)
  BY <1>1 DEF IssueAddress, IssueData, Interrupt, Shaped
<1>3. /\ axi'.wready = axi.wready /\ axi'.write_req = axi.write_req /\ axi'.bvalid = axi.bvalid
      /\ axi'.arready = axi.arready /\ axi'.read_req = axi.read_req /\ axi'.rvalid = axi.rvalid
      /\ axi'.read_address = axi.read_address /\ axi'.rdata = axi.rdata
  <2>1. CASE IssueAddress
    BY <1>1, <2>1 DEF IssueAddress, Shaped
  <2>2. CASE IssueData
    BY <1>1, <2>2 DEF IssueData, Shaped
  <2>3. CASE Interrupt
    BY <2>3 DEF Interrupt, hardware
  <2> QED
    BY <2>1, <2>2, <2>3
<1>4. UNCHANGED << buffer, control, stage, core, raised, channel, port, memory >>
  BY DEF IssueAddress, IssueData, Interrupt, hardware
<1> QED
  BY <1>2, <1>3, <1>4, ReadInvSame

LEMMA ClockKeepsReadInv ==
    ASSUME System = "element", RunInv, ReadInv, Clock
    PROVE  ReadInv'
<1>1. /\ Shaped /\ Turns /\ Progress /\ Edge /\ ClockBridge /\ ClockDriver /\ ClockRaised
      /\ Quieting /\ Cleared /\ Pathed
  BY DEF RunInv, ReadInv, Clock, Edge
<1>2. Quieting'
  BY <1>1, QuietingKept
<1>3. Cleared'
  BY <1>1, ClearedKept
<1>4. Pathed'
  BY <1>1, PathedKept
<1>5. Answers'
  BY <1>1, AnswersKept
<1>6. Results'
  BY <1>1, ResultsKept
<1> QED
  BY <1>2, <1>3, <1>4, <1>5, <1>6 DEF ReadInv

\* The host programs of one element and the hardware agree where a word is.
LEMMA PlacesKept ==
    ASSUME System = "element", NEW j \in 1 .. NumOutputs
    PROVE  Place(Len(Inputs) + j - 1) = Len(Inputs) + j - 1
<1>1. PICK k \in Int : k = Len(Inputs) + j - 1 /\ k >= 0 /\ k < Size
  <2>1. /\ Len(Inputs) + j - 1 \in Int /\ Len(Inputs) + j - 1 >= 0
        /\ Len(Inputs) + j - 1 < Size
    BY Amounts
  <2> QED
    BY <2>1
<1>2. SystemMapper(DataBase + k) = Mapped(Memory, k)
  BY <1>1, HostForwards, TreeOfBuffers
<1> QED
  BY <1>1, <1>2 DEF Place, Mapped

\* On the test system of one element no read overtakes the writes before it and none comes
\* before the last packet of the element: the input data the host compares are in place,
\* and every result it has retrieved without having been interrupted is what the memory
\* holds, then and as long as the run lasts.
THEOREM ResultsAreFinal == System = "element" => (Spec => []ReadsShowMemory)
<1> SUFFICES ASSUME System = "element" PROVE Spec => []ReadsShowMemory
  OBVIOUS
<1>1. Init => RunInv /\ ReadInv
  BY RunInvInit, ReadInvInit
<1>2. RunInv /\ ReadInv /\ [Next]_vars => RunInv' /\ ReadInv'
  <2> SUFFICES ASSUME RunInv, ReadInv, [Next]_vars PROVE RunInv' /\ ReadInv'
    OBVIOUS
  <2>1. RunInv'
    BY RunInvKept
  <2>2. CASE IssueAddress \/ IssueData \/ Interrupt
    BY <2>1, <2>2, HostStepsKeepReadInv
  <2>3. CASE Clock
    BY <2>1, <2>3, ClockKeepsReadInv
  <2>4. CASE UNCHANGED vars
    <3>1. UNCHANGED << driver, axi, buffer, control, stage, core, raised, channel, port, memory >>
      BY <2>4 DEF vars, hardware
    <3> QED
      BY <2>1, <3>1, ReadInvSame
  <2> QED
    BY <2>2, <2>3, <2>4 DEF Next
<1>3. RunInv /\ ReadInv => ReadsShowMemory
  <2> SUFFICES ASSUME RunInv, ReadInv, ~driver.interrupted, NEW j \in 1 .. Len(driver.output)
               PROVE  driver.output[j] = memory.ram[Place(Len(Inputs) + j - 1)]
    BY DEF ReadInv, Results, ReadsShowMemory
  <2>1. Len(driver.output) = Retrieved(driver.at) /\ driver.at \in Int
    BY DEF RunInv, Turns, HostTurn, ReadInv, Results
  <2>2. j \in 1 .. NumOutputs
    BY <2>1, BeginIsLate, Amounts DEF Retrieved
  <2>3. driver.output[j] = memory.ram[Len(Inputs) + j - 1]
    BY <2>1 DEF ReadInv, Results
  <2> QED
    BY <2>2, <2>3, PlacesKept
<1> QED
  BY <1>1, <1>2, <1>3, PTL DEF Spec

-----------------------------------------------------------------------------
(* The invariant of the data, for programs that have an outcome: while the    *)
(* element executes, what has been sent and has not arrived yet makes up the  *)
(* difference between the memory and the program on paper.                    *)

\* Where the program may store.
Destinations == Len(Inputs) .. Size - 1

\* The operations carried out so far, on paper.
OnPaper == Paper(program[0])[core[0].step - 1]

\* What is on its way to the memory, oldest first, and back.
Sent(n)  == port[n] \o channel[n]
Returned == channel["readData"] \o port["readData"]

\* The words the memory has for these indices.
Told(indices) == [i \in 1 .. Len(indices) |-> Inputs[indices[i] + 1]]

\* The memory, once the data on their way are in it, is as on paper: the last word sent
\* to an address counts, and the memory's own where none is.
Agree(indices, data, ram, known) ==
    \A a \in DOMAIN known :
        /\ (\A i \in 1 .. Len(data) : indices[i] # a) => ram[a] = known[a]
        /\ \A i \in 1 .. Len(data) :
              indices[i] = a /\ (\A j \in i + 1 .. Len(data) : indices[j] # a) =>
                  data[i] = known[a]
Inputted(ram) == \A i \in 0 .. Len(Inputs) - 1 : ram[i] = Inputs[i + 1]

Writes(indices, data, ram, state) ==
    /\ indices \in Seq(Destinations) /\ data \in Seq(Nat)
    /\ Len(indices) = Len(data) + (IF state.open THEN 1 ELSE 0)
    /\ state.open => indices[Len(indices)] = state.index
    /\ Agree(indices, data, ram, state.ram)
    /\ Inputted(ram)
Reads(indices, back, state) ==
    /\ indices \in Seq(0 .. Len(Inputs) - 1) /\ back \in Seq(Nat)
    /\ state.answers = back \o Told(indices)
Answering ==
    memory.answering =>
        port["readIndex"] # << >> /\ memory.out = Inputs[Head(port["readIndex"]) + 1]

Behaved ==
    /\ core[0].step \in 1 .. Len(program[0])
    /\ core[0].halted => core[0].step = Len(program[0])
    /\ \A n \in Names : channel[n] \in Seq(Nat) /\ port[n] \in Seq(Nat)
    /\ Writes(Sent("writeIndex"), Sent("writeData"), memory.ram, OnPaper)
    /\ Reads(Sent("readIndex"), Returned, OnPaper)
    /\ Answering

DataInv ==
    ~driver.interrupted /\ driver.at >= 3 =>
        /\ ~AtCore.execute => ~core[0].halted
        /\ AtCore.execute /\ driver.at = Begin + 1 => Behaved
        /\ driver.at > Begin + 1 => \A a \in DOMAIN Outcome : memory.ram[a] = Outcome[a]

\* Induction on the naturals, for a set: a number left out would be the last of
\* finitely many, each of which has its predecessor among them.
LEMMA Induction ==
    ASSUME NEW S, 0 \in S, \A n \in Nat : n \in S => n + 1 \in S
    PROVE  Nat \subseteq S
<1> SUFFICES ASSUME NEW m \in Nat, m \notin S PROVE FALSE
  OBVIOUS
<1> DEFINE T == {k \in 0 .. m : k \notin S}
           f == [k \in T |-> k - 1]
<1>1. IsFiniteSet(T)
  <2>1. IsFiniteSet(0 .. m)
    BY 0 \in Int, m \in Int, FS_Interval
  <2> QED BY <2>1, FS_Subset
<1>2. m \in T
  OBVIOUS
<1>3. ASSUME NEW k \in T PROVE k - 1 \in T \ {m}
  <2>1. k \in Nat /\ k # 0 /\ k <= m
    OBVIOUS
  <2>2. k - 1 \in Nat /\ (k - 1) + 1 = k /\ k - 1 <= m /\ k - 1 # m
    BY <2>1
  <2>3. k - 1 \notin S
    BY <2>2
  <2> QED BY <2>2, <2>3
<1>4. f \in [T -> T \ {m}]
  BY <1>3
<1>5. /\ IsFiniteSet(T \ {m}) /\ Cardinality(T \ {m}) = Cardinality(T) - 1
  BY <1>1, <1>2, FS_RemoveElement
<1>6. Cardinality(T \ {m}) < Cardinality(T)
  BY <1>1, <1>5, FS_CardinalityType
<1> HIDE DEF f
<1>7. PICK x, y \in T : x # y /\ f[x] = f[y]
  BY <1>1, <1>4, <1>5, <1>6, FS_PigeonHole
<1>8. x - 1 = y - 1 /\ x \in Nat /\ y \in Nat
  BY <1>7 DEF f
<1> QED BY <1>7, <1>8

-----------------------------------------------------------------------------
(* The program on paper.                                                   *)

\* The states on paper are what their recursive definition says.
LEMMA PaperStates ==
    ASSUME NEW p, Len(p) \in Nat
    PROVE  /\ Paper(p)[0] = Blank
           /\ \A k \in 1 .. Len(p) : Paper(p)[k] = Effect(Paper(p)[k - 1], p[k])
<1> DEFINE Def(f, m) == f = [k \in 0 .. m |-> IF k = 0 THEN Blank ELSE Effect(f[k - 1], p[k])]
           T == {m \in Nat : \E f : Def(f, m)}
<1>1. 0 \in T
  <2>1. PICK f : f = [k \in 0 .. 0 |-> Blank]
    OBVIOUS
  <2>2. f = [k \in 0 .. 0 |-> IF k = 0 THEN Blank ELSE Effect(f[k - 1], p[k])]
    BY <2>1
  <2> QED BY <2>2
<1>2. ASSUME NEW m \in Nat, m \in T PROVE m + 1 \in T
  <2>1. PICK f : f = [k \in 0 .. m |-> IF k = 0 THEN Blank ELSE Effect(f[k - 1], p[k])]
    BY <1>2
  <2>2. PICK g : g = [k \in 0 .. m + 1 |-> IF k <= m THEN f[k] ELSE Effect(f[m], p[m + 1])]
    OBVIOUS
  <2>3. ASSUME NEW k \in 0 .. m + 1
        PROVE  g[k] = IF k = 0 THEN Blank ELSE Effect(g[k - 1], p[k])
    <3>1. CASE k = 0
      BY <2>1, <2>2, <3>1
    <3>2. CASE k # 0 /\ k <= m
      <4>1. k - 1 \in 0 .. m + 1 /\ k - 1 <= m /\ k \in 0 .. m
        BY <3>2
      <4>2. g[k] = f[k] /\ g[k - 1] = f[k - 1]
        BY <2>2, <3>2, <4>1
      <4> QED BY <2>1, <3>2, <4>1, <4>2
    <3>3. CASE k = m + 1
      <4>1. k - 1 = m /\ m \in 0 .. m + 1 /\ k # 0 /\ ~(k <= m)
        BY <3>3
      <4>2. g[k - 1] = f[m] /\ g[k] = Effect(f[m], p[m + 1])
        BY <2>2, <4>1
      <4> QED BY <3>3, <4>1, <4>2
    <3> QED BY <3>1, <3>2, <3>3
  <2>4. g = [k \in 0 .. m + 1 |-> IF k = 0 THEN Blank ELSE Effect(g[k - 1], p[k])]
    BY <2>2, <2>3
  <2> QED BY <2>4
<1>3. Nat \subseteq T
  <2> HIDE DEF T
  <2> QED BY <1>1, <1>2, Induction
<1>4. \E f : Def(f, Len(p))
  BY <1>3
<1>5. PICK g : g = CHOOSE f : Def(f, Len(p))
  OBVIOUS
<1>6. Def(g, Len(p))
  <2> HIDE DEF Def
  <2> QED BY <1>4, <1>5
<1>7. Paper(p) = g
  BY <1>5 DEF Paper
<1>8. g = [k \in 0 .. Len(p) |-> IF k = 0 THEN Blank ELSE Effect(g[k - 1], p[k])]
  BY <1>6
<1>9. 0 \in 0 .. Len(p) /\ \A k \in 1 .. Len(p) : k \in 0 .. Len(p) /\ k # 0
  OBVIOUS
<1> HIDE DEF Def
<1> QED BY <1>7, <1>8, <1>9

\* A state on paper: the input data are known, and an open index may be stored to.
OnPaperOK(state) ==
    /\ state = [ram |-> state.ram, answers |-> state.answers, index |-> state.index,
                open |-> state.open]
    /\ 0 .. Len(Inputs) - 1 \subseteq DOMAIN state.ram
    /\ \A a \in DOMAIN state.ram : a \in 0 .. Size - 1
    /\ Inputted(state.ram)
    /\ state.answers \in Seq(Nat)
    /\ state.open \in BOOLEAN
    /\ state.open => state.index \in Destinations

\* Storing away from the input data.
LEMMA StoredKnown ==
    ASSUME NEW state, OnPaperOK(state), state.open, NEW v,
           NEW ram, ram = Stored(state.ram, state.index, v)
    PROVE  /\ 0 .. Len(Inputs) - 1 \subseteq DOMAIN ram
           /\ \A a \in DOMAIN ram : a \in 0 .. Size - 1
           /\ Inputted(ram)
<1>1. PICK n, x, known : n = Len(Inputs) /\ x = state.index /\ known = state.ram
  OBVIOUS
<1>2. n \in Nat /\ x \in n .. Size - 1 /\ Size \in Nat
  BY <1>1, Amounts DEF OnPaperOK, Destinations
<1>3. ram = [i \in DOMAIN known \cup {x} |-> IF i = x THEN v ELSE known[i]]
  BY <1>1 DEF Stored
<1>4. /\ 0 .. n - 1 \subseteq DOMAIN known /\ \A a \in DOMAIN known : a \in 0 .. Size - 1
      /\ \A i \in 0 .. n - 1 : known[i] = Inputs[i + 1]
  BY <1>1 DEF OnPaperOK, Inputted
<1>5. \A i \in 0 .. n - 1 : i # x
  BY <1>2
<1>6. x \in 0 .. Size - 1
  BY <1>2
<1>7. 0 .. n - 1 \subseteq DOMAIN ram /\ \A a \in DOMAIN ram : a \in 0 .. Size - 1
  BY <1>3, <1>4, <1>6
<1>8. \A i \in 0 .. n - 1 : ram[i] = Inputs[i + 1]
  BY <1>3, <1>4, <1>5
<1> QED BY <1>1, <1>7, <1>8 DEF Inputted

Pause(s, t) == t = s
Asks(s, operation, t) ==
    /\ operation.op = "send" /\ operation.to = "readIndex"
    /\ operation.value \in 0 .. Len(Inputs) - 1
    /\ t.answers = Append(s.answers, Inputs[operation.value + 1])
    /\ t.ram = s.ram /\ t.index = s.index /\ t.open = s.open
Opens(s, operation, t) ==
    /\ operation.op = "send" /\ operation.to = "writeIndex"
    /\ ~s.open /\ operation.value \in Destinations
    /\ t.open /\ t.index = operation.value /\ t.ram = s.ram /\ t.answers = s.answers
Stores(s, operation, t) ==
    /\ operation.op = "send" /\ operation.to = "writeData" /\ operation.value \in Nat
    /\ s.open /\ ~t.open /\ t.ram = Stored(s.ram, s.index, operation.value)
    /\ t.answers = s.answers
Forwards(s, operation, t) ==
    /\ operation.op = "forward" /\ operation.to = "writeData"
    /\ s.answers # << >>
    /\ s.open /\ ~t.open /\ t.ram = Stored(s.ram, s.index, Head(s.answers))
    /\ t.answers = Tail(s.answers)

\* What an orderly operation does on paper.
LEMMA Effects ==
    ASSUME NEW s, OnPaperOK(s), NEW operation, Orderly(s, operation),
           NEW t, t = Effect(s, operation)
    PROVE  /\ OnPaperOK(t)
           /\ operation.op # "halt"
           /\ \/ operation.op = "nop" /\ t = s
              \/ Asks(s, operation, t) \/ Opens(s, operation, t)
              \/ Stores(s, operation, t) \/ Forwards(s, operation, t)
<1>0. s = [ram |-> s.ram, answers |-> s.answers, index |-> s.index, open |-> s.open]
  BY DEF OnPaperOK
<1>1. CASE operation = Idle
  <2>1. operation.op = "nop"
    BY <1>1 DEF Idle
  <2>2. t = s
    BY <2>1 DEF Effect
  <2> QED BY <2>1, <2>2
<1>2. CASE operation \in [op : {"send"}, to : {"readIndex"}, value : 0 .. Len(Inputs) - 1]
  <2>1. operation.op = "send" /\ operation.to = "readIndex" /\ operation.value \in 0 .. Len(Inputs) - 1
    BY <1>2
  <2>2. t = [s EXCEPT !.answers = Append(@, s.ram[operation.value])]
    BY <2>1 DEF Effect
  <2>3. s.ram[operation.value] = Inputs[operation.value + 1]
    BY <2>1 DEF OnPaperOK, Inputted
  <2>4. t = [ram |-> s.ram, answers |-> Append(s.answers, Inputs[operation.value + 1]),
             index |-> s.index, open |-> s.open]
    BY <1>0, <2>2, <2>3
  <2>5. Inputs[operation.value + 1] \in Nat
    <3>1. operation.value + 1 \in 1 .. Len(Inputs)
      BY <2>1, Amounts
    <3> QED BY <3>1, Amounts
  <2>6. Append(s.answers, Inputs[operation.value + 1]) \in Seq(Nat)
    BY <2>5 DEF OnPaperOK
  <2>7. OnPaperOK(t)
    BY <2>4, <2>6 DEF OnPaperOK
  <2> QED BY <2>1, <2>4, <2>7 DEF Asks
<1>3. CASE ~s.open /\ operation \in [op : {"send"}, to : {"writeIndex"}, value : Len(Inputs) .. Size - 1]
  <2>1. operation.op = "send" /\ operation.to = "writeIndex" /\ operation.value \in Destinations
    BY <1>3 DEF Destinations
  <2>2. t = [s EXCEPT !.index = operation.value, !.open = TRUE]
    BY <2>1 DEF Effect
  <2>3. t = [ram |-> s.ram, answers |-> s.answers, index |-> operation.value, open |-> TRUE]
    BY <1>0, <2>2
  <2>4. OnPaperOK(t)
    BY <2>1, <2>3 DEF OnPaperOK
  <2> QED BY <1>3, <2>1, <2>3, <2>4 DEF Opens
<1>4. CASE s.open /\ operation \in [op : {"send"}, to : {"writeData"}, value : Nat]
  <2>1. operation.op = "send" /\ operation.to = "writeData" /\ operation.value \in Nat
    BY <1>4
  <2>2. t = [s EXCEPT !.ram = Stored(@, s.index, operation.value), !.open = FALSE]
    BY <2>1 DEF Effect
  <2>3. PICK ram : ram = Stored(s.ram, s.index, operation.value)
    OBVIOUS
  <2>4. t = [ram |-> ram, answers |-> s.answers, index |-> s.index, open |-> FALSE]
    BY <1>0, <2>2, <2>3
  <2>5. OnPaperOK(t)
    <3>1. /\ 0 .. Len(Inputs) - 1 \subseteq DOMAIN ram
          /\ \A a \in DOMAIN ram : a \in 0 .. Size - 1
          /\ Inputted(ram)
      BY <1>4, <2>3, StoredKnown
    <3> QED BY <2>4, <3>1 DEF OnPaperOK
  <2> QED BY <1>4, <2>1, <2>3, <2>4, <2>5 DEF Stores
<1>5. CASE s.open /\ s.answers # << >> /\ operation = Forwarding
  <2>1. operation.op = "forward" /\ operation.to = "writeData"
    BY <1>5 DEF Forwarding
  <2>2. t = [s EXCEPT !.ram = Stored(@, s.index, Head(s.answers)), !.answers = Tail(@),
                      !.open = FALSE]
    BY <2>1 DEF Effect
  <2>3. PICK ram, rest : ram = Stored(s.ram, s.index, Head(s.answers)) /\ rest = Tail(s.answers)
    OBVIOUS
  <2>4. t = [ram |-> ram, answers |-> rest, index |-> s.index, open |-> FALSE]
    BY <1>0, <2>2, <2>3
  <2>5. rest \in Seq(Nat)
    BY <1>5, <2>3 DEF OnPaperOK
  <2>6. OnPaperOK(t)
    <3>1. /\ 0 .. Len(Inputs) - 1 \subseteq DOMAIN ram
          /\ \A a \in DOMAIN ram : a \in 0 .. Size - 1
          /\ Inputted(ram)
      BY <1>5, <2>3, StoredKnown
    <3> QED BY <2>4, <2>5, <3>1 DEF OnPaperOK
  <2> QED BY <1>5, <2>1, <2>3, <2>4, <2>6 DEF Forwards
<1> QED BY <1>1, <1>2, <1>3, <1>4, <1>5 DEF Orderly

\* Every state on paper before the last operation is such a state.
LEMMA PaperOK ==
    ASSUME NEW p, WellFormed(p)
    PROVE  \A k \in 0 .. Len(p) - 1 : OnPaperOK(Paper(p)[k])
<1>1. Len(p) \in Nat \ {0}
  BY DEF WellFormed
<1> DEFINE T == {k \in Nat : k \in 0 .. Len(p) - 1 => OnPaperOK(Paper(p)[k])}
<1>2. 0 \in T
  <2>1. Paper(p)[0] = Blank
    BY <1>1, PaperStates
  <2>2. OnPaperOK(Blank)
    <3>1. DOMAIN Blank.ram = 0 .. Len(Inputs) - 1 /\ Inputted(Blank.ram)
      BY DEF Blank, Inputted
    <3>2. \A a \in 0 .. Len(Inputs) - 1 : a \in 0 .. Size - 1
      BY Amounts
    <3>3. Blank.answers \in Seq(Nat) /\ Blank.open = FALSE
      BY DEF Blank
    <3>4. Blank = [ram |-> Blank.ram, answers |-> Blank.answers, index |-> Blank.index,
                   open |-> Blank.open]
      BY DEF Blank
    <3> QED BY <3>1, <3>2, <3>3, <3>4 DEF OnPaperOK
  <2> QED BY <2>1, <2>2
<1>3. ASSUME NEW k \in Nat, k \in T PROVE k + 1 \in T
  <2> SUFFICES ASSUME k + 1 \in 0 .. Len(p) - 1 PROVE OnPaperOK(Paper(p)[k + 1])
    OBVIOUS
  <2>1. k \in 0 .. Len(p) - 1 /\ k + 1 \in 1 .. Len(p) /\ k + 1 \in 1 .. Len(p) - 1 /\ (k + 1) - 1 = k
    BY <1>1
  <2>2. OnPaperOK(Paper(p)[k])
    BY <1>3, <2>1
  <2>3. Paper(p)[k + 1] = Effect(Paper(p)[k], p[k + 1])
    BY <1>1, <2>1, PaperStates
  <2>4. Orderly(Paper(p)[k], p[k + 1])
    <3>1. Orderly(Paper(p)[(k + 1) - 1], p[k + 1])
      BY <2>1 DEF WellFormed
    <3> QED BY <2>1, <3>1
  <2> QED BY <2>2, <2>3, <2>4, Effects
<1>4. Nat \subseteq T
  <2> HIDE DEF T
  <2> QED BY <1>2, <1>3, Induction
<1> QED BY <1>1, <1>4

-----------------------------------------------------------------------------
(* Two channels, one behind the other, are one queue.                      *)

\* A concatenation, element by element.
LEMMA Concatenated ==
    ASSUME NEW S, NEW s \in Seq(S), NEW t \in Seq(S)
    PROVE  /\ s \o t \in Seq(S) /\ Len(s \o t) = Len(s) + Len(t) /\ Len(s) \in Nat /\ Len(t) \in Nat
           /\ \A x \in 1 .. Len(s) + Len(t) :
                 (s \o t)[x] = IF x <= Len(s) THEN s[x] ELSE t[x - Len(s)]
<1>1. PICK j : j = s \o t
  OBVIOUS
<1>2. j \in Seq(S) /\ Len(j) = Len(s) + Len(t) /\ Len(s) \in Nat /\ Len(t) \in Nat
  BY <1>1
<1>3. \A x \in 1 .. Len(j) : j[x] = IF x <= Len(s) THEN s[x] ELSE t[x - Len(s)]
  BY <1>1, <1>2
<1> QED BY <1>1, <1>2, <1>3

\* What is left when the head is taken, element by element.
LEMMA Remaining ==
    ASSUME NEW S, NEW s \in Seq(S), s # << >>
    PROVE  /\ Tail(s) \in Seq(S) /\ Len(Tail(s)) = Len(s) - 1 /\ Len(s) \in Nat \ {0}
           /\ Head(s) = s[1] /\ Head(s) \in S
           /\ \A x \in 1 .. Len(s) - 1 : Tail(s)[x] = s[x + 1]
<1>1. Len(s) \in Nat \ {0} /\ Len(Tail(s)) = Len(s) - 1 /\ Tail(s) \in Seq(S)
  OBVIOUS
<1>2. Head(s) = s[1] /\ s[1] \in S
  BY <1>1
<1>3. \A x \in 1 .. Len(s) - 1 : Tail(s)[x] = s[x + 1]
  BY <1>1
<1> QED BY <1>1, <1>2, <1>3

\* Sequences that agree element by element are equal.
LEMMA SameSequence ==
    ASSUME NEW S, NEW s \in Seq(S), NEW t \in Seq(S), Len(s) = Len(t),
           \A x \in 1 .. Len(s) : s[x] = t[x]
    PROVE  s = t
<1>1. /\ Len(s) \in Nat
      /\ s = [x \in 1 .. Len(s) |-> s[x]] /\ t = [x \in 1 .. Len(t) |-> t[x]]
  OBVIOUS
<1> QED BY <1>1

\* What is appended stays behind the rest.
LEMMA TailOfMore ==
    ASSUME NEW S, NEW s \in Seq(S), NEW t \in Seq(S), s # << >>
    PROVE  Tail(s \o t) = Tail(s) \o t
<1>1. s \o t # << >>
  OBVIOUS
<1>2. PICK r, u, v : r = Tail(s) /\ u = Tail(s \o t) /\ v = r \o t
  OBVIOUS
<1>3. r \in Seq(S) /\ Len(r) = Len(s) - 1 /\ \A x \in 1 .. Len(s) - 1 : r[x] = s[x + 1]
  BY <1>2, Remaining
<1>4. /\ v \in Seq(S) /\ Len(v) = Len(r) + Len(t) /\ Len(r) \in Nat /\ Len(t) \in Nat
      /\ \A x \in 1 .. Len(r) + Len(t) : v[x] = IF x <= Len(r) THEN r[x] ELSE t[x - Len(r)]
  BY <1>2, <1>3, Concatenated
<1>5. PICK w : w = s \o t
  OBVIOUS
<1>6. /\ w \in Seq(S) /\ Len(w) = Len(s) + Len(t) /\ Len(s) \in Nat
      /\ \A x \in 1 .. Len(s) + Len(t) : w[x] = IF x <= Len(s) THEN s[x] ELSE t[x - Len(s)]
  BY <1>5, Concatenated
<1>7. u \in Seq(S) /\ Len(u) = Len(w) - 1 /\ \A x \in 1 .. Len(w) - 1 : u[x] = w[x + 1]
  BY <1>1, <1>2, <1>5, <1>6, Remaining
<1>8. Len(u) = Len(v)
  BY <1>3, <1>4, <1>6, <1>7
<1>9. ASSUME NEW x \in 1 .. Len(u) PROVE u[x] = v[x]
  <2>1. u[x] = w[x + 1] /\ x + 1 \in 1 .. Len(s) + Len(t) /\ x \in 1 .. Len(r) + Len(t)
    BY <1>3, <1>4, <1>6, <1>7
  <2>2. CASE x <= Len(r)
    <3>1. x \in 1 .. Len(s) - 1 /\ x + 1 <= Len(s)
      BY <1>3, <1>6, <2>2
    <3> QED BY <1>3, <1>4, <1>6, <2>1, <2>2, <3>1
  <2>3. CASE ~(x <= Len(r))
    <3>1. ~(x + 1 <= Len(s)) /\ (x + 1) - Len(s) = x - Len(r)
      BY <1>3, <1>6, <2>3
    <3> QED BY <1>4, <1>6, <2>1, <2>3, <3>1
  <2> QED BY <2>2, <2>3
<1>10. u = v
  BY <1>4, <1>7, <1>8, <1>9, SameSequence
<1> QED BY <1>2, <1>10

\* Two channels, one ahead of the other, and what comes in behind them.
Queued(S, front, back, new) == front \in Seq(S) /\ back \in Seq(S) /\ new \in Seq(S)

\* A word passes from one channel to the one ahead of it, or does not: the two together
\* are the same queue, and gain what is new.
LEMMA Passing ==
    ASSUME NEW S, NEW front, NEW back, NEW new, Queued(S, front, back, new)
    PROVE  /\ back # << >> =>
                 (front \o << Head(back) >>) \o (Tail(back) \o new) = (front \o back) \o new
           /\ front \o << >> = front
           /\ front \o (back \o new) = (front \o back) \o new
           /\ front # << >> => (Tail(front) \o back) \o new = Tail((front \o back) \o new)
<1>0. front \in Seq(S) /\ back \in Seq(S) /\ new \in Seq(S)
  BY DEF Queued
<1>1. ASSUME back # << >>
      PROVE  (front \o << Head(back) >>) \o (Tail(back) \o new) = (front \o back) \o new
  <2>1. PICK h, t : h = << Head(back) >> /\ t = Tail(back)
    OBVIOUS
  <2>2. h \in Seq(S) /\ t \in Seq(S) /\ back = h \o t
    BY <1>0, <1>1, <2>1
  <2>3. (front \o h) \o (t \o new) = (front \o (h \o t)) \o new
    BY <1>0, <2>2
  <2> QED BY <2>1, <2>2, <2>3
<1>2. front \o << >> = front
  BY <1>0
<1>3. front \o (back \o new) = (front \o back) \o new
  BY <1>0
<1>4. ASSUME front # << >> PROVE (Tail(front) \o back) \o new = Tail((front \o back) \o new)
  <2>1. PICK w : w = front \o back
    OBVIOUS
  <2>2. w \in Seq(S) /\ w # << >>
    BY <1>0, <1>4, <2>1
  <2>3. Tail(w) = Tail(front) \o back
    <3>1. front \in Seq(S) /\ back \in Seq(S)
      BY <1>0
    <3> QED BY <1>4, <2>1, <3>1, TailOfMore
  <2>4. Tail(w \o new) = Tail(w) \o new
    <3>1. new \in Seq(S)
      BY <1>0
    <3> QED BY <2>2, <3>1, TailOfMore
  <2> QED BY <2>1, <2>3, <2>4
<1> QED BY <1>1, <1>2, <1>3, <1>4

-----------------------------------------------------------------------------
(* The channels while the element executes.                                *)

\* Nothing is being reset, and the host is not at the memory.
AtWork ==
    /\ Shaped /\ Edge
    /\ ~AtCore.reset /\ AtCore.enable /\ AtCore.execute /\ ~control.reset
    /\ Offered(Ram) = {} /\ Asked(Ram) = {}

\* What the core sends on a channel in this cycle, and whether the memory takes a word of it.
Emitted(n) ==
    If(Triggers(0) /\ Operation(0).op \in {"send", "forward"} /\ Operation(0).to = n,
       << IF Operation(0).op = "forward" THEN Head(channel["readData"]) ELSE Operation(0).value >>)
Taken(n) == IF n = "readIndex" THEN memory.answering ELSE Writing

Flowing(n) == channel[n] \in Seq(Nat) /\ port[n] \in Seq(Nat) /\ Emitted(n) \in Seq(Nat)

\* The core sends at one end, the memory takes at the other.
LEMMA SentMoves ==
    ASSUME System = "element", AtWork, NEW n \in Outgoing, Flowing(n), Taken(n) => port[n] # << >>
    PROVE  /\ channel'[n] \in Seq(Nat) /\ port'[n] \in Seq(Nat)
           /\ Taken(n) => Sent(n)' = Tail(Sent(n) \o Emitted(n))
           /\ ~Taken(n) => Sent(n)' = Sent(n) \o Emitted(n)
           /\ ~Taken(n) /\ port[n] # << >> =>
                 port'[n] # << >> /\ Head(port'[n]) = Head(port[n])
<1>1. n \in Names /\ n \in Channels /\ n # "readData"
  BY DEF AtWork, Channels, Shaped, Names, Outgoing
<1>3. PICK front, back, new : front = port[n] /\ back = channel[n] /\ new = Emitted(n)
  OBVIOUS
<1>2. Owner(n) = 0
  BY OneOwner
<1>4. channel'[n] = Rest(back, ~IsFull(front)) \o new
  BY <1>1, <1>2, <1>3 DEF AtWork, Edge, ClockChannels, Emitted
<1>5. port'[n] = Rest(front, Taken(n)) \o If(back # << >> /\ ~IsFull(front), << Head(back) >>)
  BY <1>1, <1>3 DEF AtWork, Edge, ClockPorts, Taken
<1>6. PICK rest : rest = Rest(front, Taken(n))
  OBVIOUS
<1>7. /\ Taken(n) => front # << >> /\ rest = Tail(front)
      /\ ~Taken(n) => rest = front
  BY <1>3, <1>6 DEF Rest
<1>0. PICK S : S = Nat
  OBVIOUS
<1>8. front \in Seq(S) /\ back \in Seq(S) /\ new \in Seq(S) /\ rest \in Seq(S)
  <2>1. front \in Seq(S) /\ back \in Seq(S) /\ new \in Seq(S)
    BY <1>0, <1>3 DEF Flowing
  <2>2. CASE Taken(n)
    <3>1. front # << >> /\ rest = Tail(front)
      BY <1>7, <2>2
    <3> QED BY <2>1, <3>1
  <2>3. CASE ~Taken(n)
    <3>1. rest = front
      BY <1>7, <2>3
    <3> QED BY <2>1, <3>1
  <2> QED BY <2>2, <2>3
<1>13. Queued(S, rest, back, new) /\ Queued(S, front, back, new)
  BY <1>8 DEF Queued
<1>9. /\ channel'[n] \in Seq(S) /\ port'[n] \in Seq(S)
      /\ port'[n] \o channel'[n] = (rest \o back) \o new
  <2>1. CASE back # << >> /\ ~IsFull(front)
    <3>1. channel'[n] = Tail(back) \o new /\ port'[n] = rest \o << Head(back) >>
      BY <1>4, <1>5, <1>6, <2>1 DEF Rest, If
    <3>2. (rest \o << Head(back) >>) \o (Tail(back) \o new) = (rest \o back) \o new
      BY <1>13, <2>1, Passing
    <3>3. rest \o << Head(back) >> \in Seq(S) /\ Tail(back) \o new \in Seq(S)
      <4>1. << Head(back) >> \in Seq(S) /\ Tail(back) \in Seq(S)
        BY <1>8, <2>1
      <4> QED BY <1>8, <4>1
    <3> QED BY <3>1, <3>2, <3>3
  <2>2. CASE ~(back # << >> /\ ~IsFull(front))
    <3>1. channel'[n] = back \o new /\ port'[n] = rest \o << >>
      BY <1>4, <1>5, <1>6, <2>2 DEF Rest, If
    <3>2. rest \o << >> = rest /\ rest \o (back \o new) = (rest \o back) \o new
      BY <1>13, Passing
    <3>3. channel'[n] \in Seq(S) /\ port'[n] \in Seq(S)
      BY <1>8, <3>1, <3>2
    <3> QED BY <3>1, <3>2, <3>3
  <2> QED BY <2>1, <2>2
<1>10. Taken(n) => Sent(n)' = Tail(Sent(n) \o Emitted(n))
  <2> HAVE Taken(n)
  <2>1. front # << >> /\ rest = Tail(front)
    BY <1>7
  <2>2. (rest \o back) \o new = Tail((front \o back) \o new)
    BY <1>13, <2>1, Passing
  <2> QED BY <1>3, <1>9, <2>2 DEF Sent
<1>11. ~Taken(n) => Sent(n)' = Sent(n) \o Emitted(n)
  BY <1>3, <1>7, <1>9 DEF Sent
<1>12. ~Taken(n) /\ port[n] # << >> => port'[n] # << >> /\ Head(port'[n]) = Head(port[n])
  <2> HAVE ~Taken(n) /\ port[n] # << >>
  <2>1. PICK more : more = If(back # << >> /\ ~IsFull(front), << Head(back) >>)
    OBVIOUS
  <2>2. port'[n] = front \o more /\ front # << >>
    BY <1>3, <1>5, <1>6, <1>7, <2>1
  <2>3. more \in Seq(S)
    BY <1>8, <2>1 DEF If
  <2>4. front \o more # << >> /\ Head(front \o more) = Head(front)
    BY <1>8, <2>2, <2>3
  <2> QED BY <1>3, <2>2, <2>4
<1> QED BY <1>0, <1>9, <1>10, <1>11, <1>12

\* Whether the core takes an answer in this cycle, and what the memory answers.
Consumed == Triggers(0) /\ Operation(0).op = "forward"
Answer   == If(memory.answering, << memory.out >>)

Returning == channel["readData"] \in Seq(Nat) /\ port["readData"] \in Seq(Nat) /\ Answer \in Seq(Nat)

\* The memory answers at one end, the core takes at the other.
LEMMA ReturnedMoves ==
    ASSUME System = "element", AtWork, Returning
    PROVE  /\ channel'["readData"] \in Seq(Nat) /\ port'["readData"] \in Seq(Nat)
           /\ Consumed =>
                 /\ channel["readData"] # << >> /\ Returned # << >>
                 /\ Head(Returned) = Head(channel["readData"])
                 /\ Returned' = Tail(Returned \o Answer)
           /\ ~Consumed => Returned' = Returned \o Answer
<1>1. "readData" \in Names /\ "readData" \in Channels /\ "readData" \notin Outgoing
  BY DEF AtWork, Channels, Shaped, Names, Outgoing
<1>3. PICK front, back, new : front = channel["readData"] /\ back = port["readData"] /\ new = Answer
  OBVIOUS
<1>4. port'["readData"] = Rest(back, ~IsFull(front)) \o new
  BY <1>1, <1>3 DEF AtWork, Edge, ClockPorts, Answer
<1>13. Owner("readData") = 0
  BY OneOwner
<1>5. channel'["readData"] = Rest(front, Consumed) \o If(back # << >> /\ ~IsFull(front), << Head(back) >>)
  BY <1>1, <1>13, <1>3 DEF AtWork, Edge, ClockChannels, Consumed
<1>6. PICK rest : rest = Rest(front, Consumed)
  OBVIOUS
<1>2. Consumed => front # << >>
  BY <1>3 DEF Consumed, Triggers
<1>7. /\ Consumed => front # << >> /\ rest = Tail(front)
      /\ ~Consumed => rest = front
  BY <1>2, <1>6 DEF Rest
<1>0. PICK S : S = Nat
  OBVIOUS
<1>8. front \in Seq(S) /\ back \in Seq(S) /\ new \in Seq(S) /\ rest \in Seq(S)
  <2>1. front \in Seq(S) /\ back \in Seq(S) /\ new \in Seq(S)
    BY <1>0, <1>3 DEF Returning
  <2>2. CASE Consumed
    <3>1. front # << >> /\ rest = Tail(front)
      BY <1>7, <2>2
    <3> QED BY <2>1, <3>1
  <2>3. CASE ~Consumed
    <3>1. rest = front
      BY <1>7, <2>3
    <3> QED BY <2>1, <3>1
  <2> QED BY <2>2, <2>3
<1>12. Queued(S, rest, back, new) /\ Queued(S, front, back, new)
  BY <1>8 DEF Queued
<1>9. /\ channel'["readData"] \in Seq(S) /\ port'["readData"] \in Seq(S)
      /\ channel'["readData"] \o port'["readData"] = (rest \o back) \o new
  <2>1. CASE back # << >> /\ ~IsFull(front)
    <3>1. port'["readData"] = Tail(back) \o new /\ channel'["readData"] = rest \o << Head(back) >>
      BY <1>4, <1>5, <1>6, <2>1 DEF Rest, If
    <3>2. (rest \o << Head(back) >>) \o (Tail(back) \o new) = (rest \o back) \o new
      BY <1>12, <2>1, Passing
    <3>3. rest \o << Head(back) >> \in Seq(S) /\ Tail(back) \o new \in Seq(S)
      <4>1. << Head(back) >> \in Seq(S) /\ Tail(back) \in Seq(S)
        BY <1>8, <2>1
      <4> QED BY <1>8, <4>1
    <3> QED BY <3>1, <3>2, <3>3
  <2>2. CASE ~(back # << >> /\ ~IsFull(front))
    <3>1. port'["readData"] = back \o new /\ channel'["readData"] = rest \o << >>
      BY <1>4, <1>5, <1>6, <2>2 DEF Rest, If
    <3>2. rest \o << >> = rest /\ rest \o (back \o new) = (rest \o back) \o new
      BY <1>12, Passing
    <3>3. channel'["readData"] \in Seq(S) /\ port'["readData"] \in Seq(S)
      BY <1>8, <3>1, <3>2
    <3> QED BY <3>1, <3>2, <3>3
  <2> QED BY <2>1, <2>2
<1>10. ASSUME Consumed
       PROVE  /\ channel["readData"] # << >> /\ Returned # << >>
              /\ Head(Returned) = Head(channel["readData"])
              /\ Returned' = Tail(Returned \o Answer)
  <2>1. front # << >> /\ rest = Tail(front)
    BY <1>7, <1>10
  <2>2. (rest \o back) \o new = Tail((front \o back) \o new)
    BY <1>12, <2>1, Passing
  <2>3. front \o back # << >> /\ Head(front \o back) = Head(front)
    BY <1>8, <2>1
  <2> QED BY <1>3, <1>9, <2>1, <2>2, <2>3 DEF Returned
<1>11. ~Consumed => Returned' = Returned \o Answer
  BY <1>3, <1>7, <1>9 DEF Returned
<1> QED BY <1>0, <1>9, <1>10, <1>11

-----------------------------------------------------------------------------
(* The words on their way, and the memory and the paper.                   *)

\* The memory takes the oldest index and the oldest data: the newest still count.
LEMMA WritesTaken ==
    ASSUME NEW I, NEW D, NEW ram, NEW s, OnPaperOK(s), Writes(I, D, ram, s),
           I # << >>, D # << >>, DOMAIN ram = 0 .. Size - 1,
           NEW more, more = [ram EXCEPT ![Head(I) % Reach] = Head(D)]
    PROVE  Writes(Tail(I), Tail(D), more, s)
<1>1. PICK n, size, known, x, v, R : /\ n = Len(Inputs) /\ size = Size /\ known = s.ram
                                     /\ x = I[1] /\ v = D[1] /\ R = Destinations
  OBVIOUS
<1>2. PICK i0, d0 : i0 = Len(I) /\ d0 = Len(D)
  OBVIOUS
<1>3. I \in Seq(R) /\ D \in Seq(Nat)
  BY <1>1 DEF Writes
<1>4. /\ Tail(I) \in Seq(R) /\ Len(Tail(I)) = i0 - 1 /\ i0 \in Nat \ {0} /\ Head(I) = x /\ x \in R
      /\ \A k \in 1 .. i0 - 1 : Tail(I)[k] = I[k + 1]
  BY <1>1, <1>2, <1>3, Remaining
<1>5. /\ Tail(D) \in Seq(Nat) /\ Len(Tail(D)) = d0 - 1 /\ d0 \in Nat \ {0} /\ Head(D) = v
      /\ \A k \in 1 .. d0 - 1 : Tail(D)[k] = D[k + 1]
  <2>1. PICK S : S = Nat
    OBVIOUS
  <2>2. D \in Seq(S)
    BY <1>3, <2>1
  <2>3. /\ Tail(D) \in Seq(S) /\ Len(Tail(D)) = d0 - 1 /\ d0 \in Nat \ {0} /\ Head(D) = v
        /\ \A k \in 1 .. d0 - 1 : Tail(D)[k] = D[k + 1]
    BY <1>1, <1>2, <2>2, Remaining
  <2> QED BY <2>1, <2>3
<1>6. n \in Nat /\ size \in Nat /\ x \in n .. size - 1 /\ x \in 0 .. size - 1 /\ x % Reach = x
  <2>1. n \in Nat /\ size \in Nat /\ x \in n .. size - 1 /\ Reach \in Nat /\ size <= Reach
    BY <1>1, <1>4, Amounts DEF Destinations
  <2> QED BY <2>1
<1>7. /\ \A a \in DOMAIN known : a \in 0 .. size - 1
      /\ DOMAIN ram = 0 .. size - 1
      /\ more = [ram EXCEPT ![x] = v]
      /\ s.open \in BOOLEAN
  BY <1>1, <1>4, <1>5, <1>6 DEF OnPaperOK
<1>8. /\ \A a \in DOMAIN known :
            /\ (\A k \in 1 .. d0 : I[k] # a) => ram[a] = known[a]
            /\ \A k \in 1 .. d0 : I[k] = a /\ (\A j \in k + 1 .. d0 : I[j] # a) => D[k] = known[a]
      /\ i0 = d0 + (IF s.open THEN 1 ELSE 0)
      /\ s.open => I[i0] = s.index
      /\ \A i \in 0 .. n - 1 : ram[i] = Inputs[i + 1]
  BY <1>1, <1>2 DEF Writes, Agree, Inputted
<1>9. \A k \in 1 .. d0 - 1 : k \in 1 .. i0 - 1 /\ Tail(I)[k] = I[k + 1] /\ k + 1 \in 1 .. d0
  BY <1>4, <1>5, <1>7, <1>8
<1>10. ASSUME NEW a \in DOMAIN known, \A k \in 1 .. d0 - 1 : Tail(I)[k] # a
       PROVE  more[a] = known[a]
  <2>1. ASSUME NEW j \in 2 .. d0 PROVE I[j] # a
    <3>1. j - 1 \in 1 .. d0 - 1 /\ (j - 1) + 1 = j
      BY <1>5
    <3> QED BY <1>9, <1>10, <3>1
  <2>2. CASE a = x
    <3>1. 1 \in 1 .. d0 /\ I[1] = a /\ \A j \in 1 + 1 .. d0 : I[j] # a
      BY <1>1, <1>5, <2>1, <2>2
    <3>2. D[1] = known[a]
      BY <1>8, <3>1
    <3> QED BY <1>1, <1>7, <2>2, <3>2
  <2>3. CASE a # x
    <3>1. ASSUME NEW k \in 1 .. d0 PROVE I[k] # a
      <4>1. k = 1 \/ k \in 2 .. d0
        BY <1>5
      <4> QED BY <1>1, <2>1, <2>3, <4>1
    <3> QED BY <1>7, <1>8, <2>3, <3>1
  <2> QED BY <2>2, <2>3
<1>11. ASSUME NEW a \in DOMAIN known, NEW k \in 1 .. d0 - 1, Tail(I)[k] = a,
              \A j \in k + 1 .. d0 - 1 : Tail(I)[j] # a
       PROVE  Tail(D)[k] = known[a]
  <2>1. k + 1 \in 1 .. d0 /\ I[k + 1] = a /\ Tail(D)[k] = D[k + 1]
    BY <1>5, <1>9, <1>11
  <2>2. ASSUME NEW j \in (k + 1) + 1 .. d0 PROVE I[j] # a
    <3>1. j - 1 \in k + 1 .. d0 - 1 /\ (j - 1) + 1 = j /\ j - 1 \in 1 .. d0 - 1
      BY <1>5
    <3> QED BY <1>9, <1>11, <3>1
  <2> QED BY <1>8, <2>1, <2>2
<1>12. Agree(Tail(I), Tail(D), more, known)
  BY <1>5, <1>10, <1>11 DEF Agree
<1>13. Inputted(more)
  <2>1. ASSUME NEW i \in 0 .. n - 1 PROVE more[i] = Inputs[i + 1]
    <3>1. i # x /\ i \in 0 .. size - 1
      BY <1>6
    <3> QED BY <1>7, <1>8, <3>1
  <2> QED BY <1>1, <2>1 DEF Inputted
<1>14. Len(Tail(I)) = Len(Tail(D)) + (IF s.open THEN 1 ELSE 0)
  BY <1>4, <1>5, <1>7, <1>8
<1>15. s.open => Tail(I)[Len(Tail(I))] = s.index
  <2> HAVE s.open
  <2>1. i0 = d0 + 1 /\ I[i0] = s.index
    BY <1>8
  <2>2. i0 - 1 \in 1 .. i0 - 1 /\ (i0 - 1) + 1 = i0
    BY <1>4, <1>5, <2>1
  <2> QED BY <1>4, <2>1, <2>2
<1> QED
  BY <1>1, <1>4, <1>5, <1>12, <1>13, <1>14, <1>15 DEF Writes

\* An index is sent: it waits for its data.
LEMMA IndexSent ==
    ASSUME NEW I, NEW D, NEW ram, NEW s, NEW t, NEW operation,
           Writes(I, D, ram, s), Opens(s, operation, t)
    PROVE  Writes(I \o << operation.value >>, D, ram, t)
<1>1. PICK x, R, J : x = operation.value /\ R = Destinations /\ J = I \o << operation.value >>
  OBVIOUS
<1>2. I \in Seq(R) /\ x \in R /\ Len(I) = Len(D) /\ Len(I) \in Nat
  BY <1>1 DEF Writes, Opens
<1>3. << x >> \in Seq(R) /\ Len(<< x >>) = 1 /\ << x >>[1] = x
  BY <1>2
<1>4. /\ J \in Seq(R) /\ Len(J) = Len(I) + 1
      /\ \A k \in 1 .. Len(I) : J[k] = I[k]
      /\ J[Len(I) + 1] = x
  <2>1. J = I \o << x >>
    BY <1>1
  <2> QED BY <1>2, <1>3, <2>1
<1>5. \A k \in 1 .. Len(D) : J[k] = I[k]
  BY <1>2, <1>4
<1>6. Agree(J, D, ram, t.ram)
  <2>1. Agree(I, D, ram, s.ram) /\ t.ram = s.ram
    BY DEF Writes, Opens
  <2>2. \A k \in 1 .. Len(D) : \A j \in k + 1 .. Len(D) : j \in 1 .. Len(D)
    BY <1>2
  <2> QED BY <1>5, <2>1, <2>2 DEF Agree
<1> QED
  BY <1>1, <1>2, <1>4, <1>6 DEF Writes, Opens

\* Data are sent: they are for the index that waits.
LEMMA DataSent ==
    ASSUME NEW I, NEW D, NEW ram, NEW s, NEW t, NEW v \in Nat,
           Writes(I, D, ram, s), s.open, ~t.open, t.ram = Stored(s.ram, s.index, v)
    PROVE  Writes(I, D \o << v >>, ram, t)
<1>1. PICK x, known, E, d0 : x = s.index /\ known = s.ram /\ E = D \o << v >> /\ d0 = Len(D)
  OBVIOUS
<1>2. D \in Seq(Nat) /\ Len(I) = d0 + 1 /\ I[d0 + 1] = x /\ d0 \in Nat
  <2>1. D \in Seq(Nat) /\ Len(I) = Len(D) + 1 /\ I[Len(I)] = s.index
    BY DEF Writes
  <2> QED BY <1>1, <2>1
<1>3. /\ E \in Seq(Nat) /\ Len(E) = d0 + 1
      /\ \A k \in 1 .. d0 : E[k] = D[k]
      /\ E[d0 + 1] = v
  BY <1>1, <1>2
<1>4. t.ram = [i \in DOMAIN known \cup {x} |-> IF i = x THEN v ELSE known[i]]
  BY <1>1 DEF Stored
<1>5. \A a \in DOMAIN known :
          /\ (\A k \in 1 .. d0 : I[k] # a) => ram[a] = known[a]
          /\ \A k \in 1 .. d0 : I[k] = a /\ (\A j \in k + 1 .. d0 : I[j] # a) => D[k] = known[a]
  BY <1>1 DEF Writes, Agree
<1>6. ASSUME NEW a \in DOMAIN t.ram, \A k \in 1 .. d0 + 1 : I[k] # a PROVE ram[a] = t.ram[a]
  <2>1. d0 + 1 \in 1 .. d0 + 1 /\ \A k \in 1 .. d0 : k \in 1 .. d0 + 1
    BY <1>2
  <2>2. a # x /\ a \in DOMAIN known
    BY <1>2, <1>4, <1>6, <2>1
  <2> QED BY <1>4, <1>5, <1>6, <2>1, <2>2
<1>7. ASSUME NEW a \in DOMAIN t.ram, NEW k \in 1 .. d0 + 1, I[k] = a,
             \A j \in k + 1 .. d0 + 1 : I[j] # a
      PROVE  E[k] = t.ram[a]
  <2>1. CASE k = d0 + 1
    BY <1>2, <1>3, <1>4, <1>7, <2>1
  <2>2. CASE k # d0 + 1
    <3>1. k \in 1 .. d0 /\ d0 + 1 \in k + 1 .. d0 + 1 /\ \A j \in k + 1 .. d0 : j \in k + 1 .. d0 + 1
      BY <1>2, <2>2
    <3>2. a # x /\ a \in DOMAIN known
      BY <1>2, <1>4, <1>7, <3>1
    <3>3. D[k] = known[a]
      BY <1>5, <1>7, <3>1, <3>2
    <3> QED BY <1>3, <1>4, <3>1, <3>2, <3>3
  <2> QED BY <2>1, <2>2
<1>8. Agree(I, E, ram, t.ram)
  BY <1>3, <1>6, <1>7 DEF Agree
<1> QED
  BY <1>1, <1>2, <1>3, <1>8 DEF Writes

\* Anything else leaves the words on their way what they are.
LEMMA NothingSent ==
    ASSUME NEW I, NEW D, NEW ram, NEW s, NEW t, Writes(I, D, ram, s),
           t.open = s.open, t.index = s.index, t.ram = s.ram
    PROVE  Writes(I, D, ram, t)
BY DEF Writes

-----------------------------------------------------------------------------
(* The questions and the answers on their way.                             *)

\* What the memory has for one more index, and for one less.
LEMMA ToldMore ==
    ASSUME NEW A \in Seq(0 .. Len(Inputs) - 1), NEW a \in 0 .. Len(Inputs) - 1
    PROVE  Told(A \o << a >>) = Told(A) \o << Inputs[a + 1] >>
<1>1. PICK R, n : R = 0 .. Len(Inputs) - 1 /\ n = Len(A)
  OBVIOUS
<1>2. A \in Seq(R) /\ << a >> \in Seq(R) /\ Len(<< a >>) = 1 /\ << a >>[1] = a /\ n \in Nat
  BY <1>1
<1>3. PICK B : B = A \o << a >>
  OBVIOUS
<1>4. Len(B) = n + 1 /\ (\A k \in 1 .. n : B[k] = A[k]) /\ B[n + 1] = a
  <2>1. /\ Len(B) = n + 1
        /\ \A k \in 1 .. n + 1 : B[k] = IF k <= n THEN A[k] ELSE << a >>[k - n]
    BY <1>1, <1>2, <1>3, Concatenated
  <2>2. \A k \in 1 .. n : k \in 1 .. n + 1 /\ k <= n
    BY <1>2
  <2>3. n + 1 \in 1 .. n + 1 /\ ~(n + 1 <= n) /\ (n + 1) - n = 1
    BY <1>2
  <2> QED BY <1>2, <2>1, <2>2, <2>3
<1>5. PICK p, q : p = Told(A) /\ q = << Inputs[a + 1] >>
  OBVIOUS
<1>6. PICK S : S = {p[k] : k \in 1 .. n} \cup {Inputs[a + 1]}
  OBVIOUS
<1>7. p \in Seq(S) /\ Len(p) = n /\ \A k \in 1 .. n : p[k] = Inputs[A[k] + 1]
  <2>1. p = [k \in 1 .. n |-> Inputs[A[k] + 1]]
    BY <1>1, <1>5 DEF Told
  <2>2. \A k \in 1 .. n : p[k] \in S
    BY <1>6
  <2>3. p = [k \in 1 .. n |-> p[k]]
    BY <2>1
  <2> QED BY <1>2, <2>1, <2>2, <2>3
<1>8. q \in Seq(S) /\ Len(q) = 1 /\ q[1] = Inputs[a + 1]
  BY <1>5, <1>6
<1>9. PICK r : r = p \o q
  OBVIOUS
<1>10. /\ r \in Seq(S) /\ Len(r) = n + 1
       /\ \A k \in 1 .. n + 1 : r[k] = IF k <= n THEN p[k] ELSE q[k - n]
  <2>1. /\ p \o q \in Seq(S) /\ Len(p \o q) = Len(p) + Len(q)
        /\ \A k \in 1 .. Len(p) + Len(q) :
              (p \o q)[k] = IF k <= Len(p) THEN p[k] ELSE q[k - Len(p)]
    BY <1>7, <1>8, Concatenated
  <2> QED BY <1>7, <1>8, <1>9, <2>1
<1>11. r = [k \in 1 .. n + 1 |-> r[k]]
  BY <1>2, <1>10
<1>12. ASSUME NEW k \in 1 .. n + 1 PROVE r[k] = Inputs[B[k] + 1]
  <2>1. CASE k <= n
    <3>1. k \in 1 .. n
      BY <1>2, <2>1
    <3> QED BY <1>4, <1>7, <1>10, <2>1, <3>1
  <2>2. CASE ~(k <= n)
    <3>1. k = n + 1 /\ k - n = 1
      BY <1>2, <2>2
    <3> QED BY <1>4, <1>8, <1>10, <2>2, <3>1
  <2> QED BY <2>1, <2>2
<1>13. Told(B) = [k \in 1 .. n + 1 |-> Inputs[B[k] + 1]]
  BY <1>4 DEF Told
<1>14. Told(B) = r
  BY <1>11, <1>12, <1>13
<1> QED BY <1>3, <1>5, <1>9, <1>14

\* What the memory has are words.
LEMMA ToldType ==
    ASSUME NEW A \in Seq(0 .. Len(Inputs) - 1)
    PROVE  Told(A) \in Seq(Nat)
<1>1. PICK n : n = Len(A)
  OBVIOUS
<1>2. n \in Nat /\ \A k \in 1 .. n : A[k] \in 0 .. Len(Inputs) - 1
  BY <1>1
<1>3. \A k \in 1 .. n : A[k] + 1 \in 1 .. Len(Inputs)
  BY <1>2, Amounts
<1>4. \A k \in 1 .. n : Inputs[A[k] + 1] \in Nat
  BY <1>3, Amounts
<1>5. Told(A) = [k \in 1 .. n |-> Inputs[A[k] + 1]]
  BY <1>1 DEF Told
<1> QED BY <1>2, <1>4, <1>5

\* What the memory has for the oldest index asked for, and for the rest.
LEMMA ToldLess ==
    ASSUME NEW A \in Seq(0 .. Len(Inputs) - 1), A # << >>
    PROVE  /\ Head(A) \in 0 .. Len(Inputs) - 1 /\ Tail(A) \in Seq(0 .. Len(Inputs) - 1)
           /\ Told(A) = << Inputs[Head(A) + 1] >> \o Told(Tail(A))
<1>1. PICK R, n, B, x : R = 0 .. Len(Inputs) - 1 /\ n = Len(A) /\ B = Tail(A) /\ x = Inputs[Head(A) + 1]
  OBVIOUS
<1>2. /\ B \in Seq(R) /\ Len(B) = n - 1 /\ n \in Nat \ {0} /\ Head(A) = A[1] /\ Head(A) \in R
      /\ \A k \in 1 .. n - 1 : B[k] = A[k + 1]
  <2>1. A \in Seq(R)
    BY <1>1
  <2> QED BY <1>1, <2>1, Remaining
<1>3. PICK p, q, r : p = Told(A) /\ q = << x >> /\ r = Told(B)
  OBVIOUS
<1>4. /\ p = [k \in 1 .. n |-> Inputs[A[k] + 1]]
      /\ r = [k \in 1 .. n - 1 |-> Inputs[B[k] + 1]]
  BY <1>1, <1>2, <1>3 DEF Told
<1>5. PICK S : S = {r[k] : k \in 1 .. n - 1} \cup {x}
  OBVIOUS
<1>6. r \in Seq(S) /\ Len(r) = n - 1
  <2>1. \A k \in 1 .. n - 1 : r[k] \in S
    BY <1>5
  <2>2. r = [k \in 1 .. n - 1 |-> r[k]] /\ n - 1 \in Nat
    BY <1>2, <1>4
  <2> QED BY <2>1, <2>2
<1>7. q \in Seq(S) /\ Len(q) = 1 /\ q[1] = x
  BY <1>3, <1>5
<1>8. PICK j : j = q \o r
  OBVIOUS
<1>9. /\ j \in Seq(S) /\ Len(j) = n
      /\ \A k \in 1 .. n : j[k] = IF k <= 1 THEN q[k] ELSE r[k - 1]
  <2>1. /\ q \o r \in Seq(S) /\ Len(q \o r) = Len(q) + Len(r)
        /\ \A k \in 1 .. Len(q) + Len(r) :
              (q \o r)[k] = IF k <= Len(q) THEN q[k] ELSE r[k - Len(q)]
    BY <1>6, <1>7, Concatenated
  <2>2. Len(q) + Len(r) = n
    BY <1>2, <1>6, <1>7
  <2> QED BY <1>7, <1>8, <2>1, <2>2
<1>10. j = [k \in 1 .. n |-> j[k]]
  BY <1>2, <1>9
<1>11. ASSUME NEW k \in 1 .. n PROVE j[k] = Inputs[A[k] + 1]
  <2>1. CASE k <= 1
    <3>1. k = 1
      BY <1>2, <2>1
    <3>2. j[k] = x
      BY <1>7, <1>9, <3>1
    <3> QED BY <1>1, <1>2, <3>1, <3>2
  <2>2. CASE ~(k <= 1)
    <3>1. k - 1 \in 1 .. n - 1 /\ (k - 1) + 1 = k
      BY <1>2, <2>2
    <3>2. j[k] = r[k - 1] /\ B[k - 1] = A[k]
      BY <1>2, <1>9, <2>2, <3>1
    <3> QED BY <1>4, <3>1, <3>2
  <2> QED BY <2>1, <2>2
<1>12. p = j
  BY <1>4, <1>10, <1>11
<1> QED BY <1>1, <1>2, <1>3, <1>8, <1>12

\* The core asks for a word.
LEMMA ReadAsked ==
    ASSUME NEW A, NEW back, NEW s, NEW t, NEW operation, Reads(A, back, s), Asks(s, operation, t)
    PROVE  Reads(A \o << operation.value >>, back, t)
<1>1. PICK a, x, R : a = operation.value /\ x = Inputs[operation.value + 1] /\ R = 0 .. Len(Inputs) - 1
  OBVIOUS
<1>2. A \in Seq(R) /\ back \in Seq(Nat) /\ s.answers = back \o Told(A) /\ a \in R
      /\ t.answers = Append(s.answers, x)
  BY <1>1 DEF Reads, Asks
<1>3. Told(A \o << a >>) = Told(A) \o << x >> /\ Told(A) \in Seq(Nat)
  BY <1>1, <1>2, ToldMore, ToldType
<1>4. x \in Nat
  <2>1. a + 1 \in 1 .. Len(Inputs)
    BY <1>1, <1>2, Amounts
  <2> QED BY <1>1, <2>1, Amounts
<1>5. Append(back \o Told(A), x) = back \o (Told(A) \o << x >>)
  <2>1. PICK p : p = Told(A)
    OBVIOUS
  <2>2. p \in Seq(Nat)
    BY <1>3, <2>1
  <2>3. Append(back \o p, x) = (back \o p) \o << x >>
    BY <1>2, <1>4, <2>2
  <2>4. (back \o p) \o << x >> = back \o (p \o << x >>)
    <3>1. PICK q, S : q = << x >> /\ S = Nat
      OBVIOUS
    <3>2. Queued(S, back, p, q)
      BY <1>2, <1>4, <2>2, <3>1 DEF Queued
    <3>3. back \o (p \o q) = (back \o p) \o q
      BY <3>2, Passing
    <3> QED BY <3>1, <3>3
  <2> QED BY <2>1, <2>3, <2>4
<1>6. A \o << a >> \in Seq(R)
  BY <1>2
<1> QED BY <1>1, <1>2, <1>3, <1>5, <1>6 DEF Reads

\* The core forwards the oldest answer that has come back.
LEMMA ReadForwarded ==
    ASSUME NEW A, NEW back, NEW s, NEW t, Reads(A, back, s), back # << >>,
           t.answers = Tail(s.answers)
    PROVE  Reads(A, Tail(back), t) /\ Head(s.answers) = Head(back) /\ Head(back) \in Nat
<1>1. back \in Seq(Nat) /\ s.answers = back \o Told(A) /\ Told(A) \in Seq(Nat)
  BY ToldType DEF Reads
<1>2. PICK p, S : p = Told(A) /\ S = Nat
  OBVIOUS
<1>3. back \in Seq(S) /\ p \in Seq(S)
  BY <1>1, <1>2
<1>4. Tail(back \o p) = Tail(back) \o p
  BY <1>3, TailOfMore
<1>5. Head(back \o p) = Head(back) /\ Head(back) \in S /\ Tail(back) \in Seq(S)
  BY <1>3
<1> QED BY <1>1, <1>2, <1>4, <1>5 DEF Reads

\* The memory answers the oldest question.
LEMMA QuestionAnswered ==
    ASSUME NEW A, NEW back, NEW s, Reads(A, back, s), A # << >>
    PROVE  /\ Reads(Tail(A), back \o << Inputs[Head(A) + 1] >>, s)
           /\ Inputs[Head(A) + 1] \in Nat /\ Head(A) \in 0 .. Len(Inputs) - 1
<1>1. PICK x, R, p : x = Inputs[Head(A) + 1] /\ R = 0 .. Len(Inputs) - 1 /\ p = Told(Tail(A))
  OBVIOUS
<1>2. A \in Seq(R) /\ back \in Seq(Nat) /\ s.answers = back \o Told(A)
  BY <1>1 DEF Reads
<1>3. Head(A) \in R /\ Tail(A) \in Seq(R) /\ Told(A) = << x >> \o p
  BY <1>1, <1>2, ToldLess
<1>4. x \in Nat
  <2>1. Head(A) + 1 \in 1 .. Len(Inputs)
    BY <1>1, <1>3, Amounts
  <2> QED BY <1>1, <2>1, Amounts
<1>5. p \in Seq(Nat)
  BY <1>1, <1>3, ToldType
<1>6. back \o (<< x >> \o p) = (back \o << x >>) \o p
  <2>1. PICK q, S : q = << x >> /\ S = Nat
    OBVIOUS
  <2>2. Queued(S, back, q, p)
    BY <1>2, <1>4, <1>5, <2>1 DEF Queued
  <2>3. back \o (q \o p) = (back \o q) \o p
    BY <2>2, Passing
  <2> QED BY <2>1, <2>3
<1>7. back \o << x >> \in Seq(Nat)
  BY <1>2, <1>4
<1>8. PICK B, more : B = Tail(A) /\ more = back \o << x >>
  OBVIOUS
<1>9. s.answers = more \o Told(B) /\ B \in Seq(0 .. Len(Inputs) - 1) /\ more \in Seq(Nat)
  BY <1>1, <1>2, <1>3, <1>6, <1>7, <1>8
<1>10. Reads(B, more, s)
  BY <1>9 DEF Reads
<1> QED BY <1>1, <1>3, <1>4, <1>8, <1>10

-----------------------------------------------------------------------------
(* A step of the core, and the paper.                                      *)

\* What an operation sends on a channel; word is what it would forward.
Emission(operation, n, word) ==
    If(operation.op \in {"send", "forward"} /\ operation.to = n,
       << IF operation.op = "forward" THEN word ELSE operation.value >>)

\* Nothing is added by nothing.
LEMMA NothingAdded ==
    ASSUME NEW S, NEW s \in Seq(S)
    PROVE  s \o << >> = s
<1>1. Queued(S, s, << >>, << >>)
  BY DEF Queued
<1> QED BY <1>1, Passing

\* The words on their way and the paper gain the same by an orderly operation.
LEMMA OperationCarried ==
    ASSUME NEW I, NEW D, NEW A, NEW back, NEW ram, NEW s, NEW t, NEW operation, NEW word,
           OnPaperOK(s), Writes(I, D, ram, s), Reads(A, back, s),
           Orderly(s, operation), t = Effect(s, operation),
           operation.op = "forward" => back # << >> /\ word = Head(back)
    PROVE  /\ OnPaperOK(t) /\ operation.op # "halt"
           /\ \A n \in Outgoing : Emission(operation, n, word) \in Seq(Nat)
           /\ Writes(I \o Emission(operation, "writeIndex", word),
                     D \o Emission(operation, "writeData", word), ram, t)
           /\ Reads(A \o Emission(operation, "readIndex", word),
                    IF operation.op = "forward" THEN Tail(back) ELSE back, t)
<1>1. /\ OnPaperOK(t) /\ operation.op # "halt"
      /\ \/ operation.op = "nop" /\ t = s
         \/ Asks(s, operation, t) \/ Opens(s, operation, t)
         \/ Stores(s, operation, t) \/ Forwards(s, operation, t)
  BY Effects
<1>2. PICK i, d, a : /\ i = Emission(operation, "writeIndex", word)
                     /\ d = Emission(operation, "writeData", word)
                     /\ a = Emission(operation, "readIndex", word)
  OBVIOUS
<1>3. I \o << >> = I /\ D \o << >> = D /\ A \o << >> = A
  <2>1. PICK R, S : R = Destinations /\ S = 0 .. Len(Inputs) - 1
    OBVIOUS
  <2>2. I \in Seq(R) /\ D \in Seq(Nat) /\ A \in Seq(S)
    BY <2>1 DEF Writes, Reads
  <2> QED BY <2>2, NothingAdded
<1>4. SUFFICES /\ i \in Seq(Nat) /\ d \in Seq(Nat) /\ a \in Seq(Nat)
               /\ Writes(I \o i, D \o d, ram, t)
               /\ Reads(A \o a, IF operation.op = "forward" THEN Tail(back) ELSE back, t)
  BY <1>1, <1>2 DEF Outgoing
<1>5. << >> \in Seq(Nat)
  OBVIOUS
<1>6. CASE operation.op = "nop" /\ t = s
  <2>1. i = << >> /\ d = << >> /\ a = << >>
    BY <1>2, <1>6 DEF Emission, If
  <2> QED BY <1>3, <1>5, <1>6, <2>1
<1>7. CASE Asks(s, operation, t)
  <2>1. operation.op = "send" /\ operation.to = "readIndex" /\ operation.value \in 0 .. Len(Inputs) - 1
    BY <1>7 DEF Asks
  <2>2. i = << >> /\ d = << >> /\ a = << operation.value >>
    BY <1>2, <2>1 DEF Emission, If
  <2>3. a \in Seq(Nat)
    BY <2>1, <2>2, Amounts
  <2>4. Writes(I, D, ram, t)
    BY <1>7, NothingSent DEF Asks
  <2>5. Reads(A \o << operation.value >>, back, t)
    BY <1>7, ReadAsked
  <2> QED BY <1>3, <1>5, <2>1, <2>2, <2>3, <2>4, <2>5
<1>8. CASE Opens(s, operation, t)
  <2>1. operation.op = "send" /\ operation.to = "writeIndex" /\ operation.value \in Destinations
    BY <1>8 DEF Opens
  <2>2. i = << operation.value >> /\ d = << >> /\ a = << >>
    BY <1>2, <2>1 DEF Emission, If
  <2>3. i \in Seq(Nat)
    BY <2>1, <2>2, Amounts DEF Destinations
  <2>4. Writes(I \o << operation.value >>, D, ram, t)
    BY <1>8, IndexSent
  <2>5. Reads(A, back, t)
    BY <1>8 DEF Opens, Reads
  <2> QED BY <1>3, <1>5, <2>1, <2>2, <2>3, <2>4, <2>5
<1>9. CASE Stores(s, operation, t)
  <2>1. operation.op = "send" /\ operation.to = "writeData" /\ operation.value \in Nat
    BY <1>9 DEF Stores
  <2>2. i = << >> /\ d = << operation.value >> /\ a = << >>
    BY <1>2, <2>1 DEF Emission, If
  <2>3. d \in Seq(Nat)
    BY <2>1, <2>2
  <2>4. PICK v \in Nat : v = operation.value
    BY <2>1
  <2>5. s.open /\ ~t.open /\ t.ram = Stored(s.ram, s.index, v)
    BY <1>9, <2>4 DEF Stores
  <2>6. Writes(I, D \o << v >>, ram, t)
    BY <2>5, DataSent
  <2>7. Reads(A, back, t)
    BY <1>9 DEF Stores, Reads
  <2> QED BY <1>3, <1>5, <2>1, <2>2, <2>3, <2>4, <2>6, <2>7
<1>10. CASE Forwards(s, operation, t)
  <2>1. operation.op = "forward" /\ operation.to = "writeData" /\ t.answers = Tail(s.answers)
    BY <1>10 DEF Forwards
  <2>2. i = << >> /\ d = << word >> /\ a = << >>
    BY <1>2, <2>1 DEF Emission, If
  <2>3. Reads(A, Tail(back), t) /\ Head(s.answers) = word /\ word \in Nat
    BY <2>1, ReadForwarded
  <2>4. s.open /\ ~t.open /\ t.ram = Stored(s.ram, s.index, word)
    BY <1>10, <2>3 DEF Forwards
  <2>5. Writes(I, D \o << word >>, ram, t)
    BY <2>3, <2>4, DataSent
  <2>6. d \in Seq(Nat)
    BY <2>2, <2>3
  <2> QED BY <1>3, <1>5, <2>1, <2>2, <2>3, <2>5, <2>6
<1> QED BY <1>1, <1>6, <1>7, <1>8, <1>9, <1>10

\* The core in one cycle: it stays on the paper.
LEMMA CoreCarries ==
    ASSUME System = "element", WellFormed(program[0]), AtWork, Behaved, ClockRaised,
           program' = program
    PROVE  /\ core'[0].step \in 1 .. Len(program[0])
           /\ core'[0].halted => core'[0].step = Len(program[0])
           /\ OnPaperOK(OnPaper) /\ OnPaperOK(OnPaper')
           /\ \A n \in Outgoing : Emitted(n) \in Seq(Nat)
           /\ Writes(Sent("writeIndex") \o Emitted("writeIndex"),
                     Sent("writeData") \o Emitted("writeData"), memory.ram, OnPaper')
           /\ Reads(Sent("readIndex") \o Emitted("readIndex"),
                    IF Consumed THEN Tail(Returned) ELSE Returned, OnPaper')
<1>1. PICK p, k, s, t : p = program[0] /\ k = core[0].step /\ s = OnPaper /\ t = OnPaper'
  OBVIOUS
<1>2. /\ Len(p) \in Nat \ {0} /\ p[Len(p)] = Halt /\ k \in 1 .. Len(p)
      /\ \A j \in 1 .. Len(p) - 1 : Orderly(Paper(p)[j - 1], p[j])
  BY <1>1 DEF WellFormed, Behaved
<1>3. s = Paper(p)[k - 1] /\ t = Paper(p)[core'[0].step - 1]
  BY <1>1 DEF OnPaper
<1>4. OnPaperOK(s)
  <2>1. k - 1 \in 0 .. Len(p) - 1 /\ WellFormed(p)
    BY <1>1, <1>2
  <2> QED BY <1>3, <2>1, PaperOK
<1>5. core'[0].step = IF Triggers(0) /\ p[k].op # "halt" THEN k + 1 ELSE k
  BY <1>1, CoreMoves DEF AtWork, Edge, Operation
<1>6. core'[0].halted => core[0].halted \/ (Triggers(0) /\ p[k].op = "halt")
  BY <1>1, CoreHalts DEF AtWork, Edge, Operation
<1>7. PICK I, D, A, back, ram : /\ I = Sent("writeIndex") /\ D = Sent("writeData")
                                /\ A = Sent("readIndex") /\ back = Returned /\ ram = memory.ram
  OBVIOUS
<1>8. Writes(I, D, ram, s) /\ Reads(A, back, s)
  BY <1>1, <1>7 DEF Behaved
<1>9. core[0].halted => k = Len(p) /\ ~Triggers(0)
  BY <1>1 DEF Behaved, Triggers
<1>10. CASE Triggers(0) /\ k # Len(p)
  <2>1. k \in 1 .. Len(p) - 1 /\ k \in 1 .. Len(p) /\ (k + 1) - 1 = k /\ k + 1 \in 1 .. Len(p)
    BY <1>2, <1>10
  <2>2. Orderly(s, p[k])
    BY <1>2, <1>3, <2>1
  <2>3. PICK operation : operation = p[k]
    OBVIOUS
  <2>4. PICK word : word = Head(channel["readData"])
    OBVIOUS
  <2>5. operation.op = "forward" => back # << >> /\ word = Head(back)
    <3> HAVE operation.op = "forward"
    <3>1. Consumed
      BY <1>1, <1>10, <2>3 DEF Consumed, Operation
    <3>2. channel["readData"] # << >>
      BY <3>1 DEF Consumed, Triggers
    <3>3. "readData" \in Names
      BY DEF Names
    <3>4. PICK f, b, S : f = channel["readData"] /\ b = port["readData"] /\ S = Nat
      OBVIOUS
    <3>5. f \in Seq(S) /\ b \in Seq(S) /\ f # << >>
      BY <3>2, <3>3, <3>4 DEF Behaved
    <3>6. f \o b # << >> /\ Head(f \o b) = Head(f)
      BY <3>5
    <3> QED BY <1>7, <2>4, <3>4, <3>6 DEF Returned
  <2>6. PICK u : u = Effect(s, operation)
    OBVIOUS
  <2>7. /\ OnPaperOK(u) /\ operation.op # "halt"
        /\ \A n \in Outgoing : Emission(operation, n, word) \in Seq(Nat)
        /\ Writes(I \o Emission(operation, "writeIndex", word),
                  D \o Emission(operation, "writeData", word), ram, u)
        /\ Reads(A \o Emission(operation, "readIndex", word),
                 IF operation.op = "forward" THEN Tail(back) ELSE back, u)
    BY <1>4, <1>8, <2>2, <2>3, <2>5, <2>6, OperationCarried
  <2>8. \A n : Emitted(n) = Emission(operation, n, word)
    BY <1>1, <1>10, <2>3, <2>4 DEF Emitted, Emission, Operation
  <2>9. Consumed <=> operation.op = "forward"
    BY <1>1, <1>10, <2>3 DEF Consumed, Operation
  <2>10. core'[0].step = k + 1 /\ ~core'[0].halted
    BY <1>5, <1>6, <1>9, <1>10, <2>3, <2>7
  <2>11. t = u
    <3>1. Paper(p)[k] = Effect(Paper(p)[k - 1], p[k])
      BY <1>2, <2>1, PaperStates
    <3> QED BY <1>3, <2>1, <2>3, <2>6, <2>10, <3>1
  <2>12. Reads(A \o Emitted("readIndex"), IF Consumed THEN Tail(back) ELSE back, t)
    BY <2>7, <2>8, <2>9, <2>11
  <2>13. Writes(I \o Emitted("writeIndex"), D \o Emitted("writeData"), ram, t)
    BY <2>7, <2>8, <2>11
  <2>14. OnPaperOK(t) /\ \A n \in Outgoing : Emitted(n) \in Seq(Nat)
    BY <2>7, <2>8, <2>11
  <2> QED BY <1>1, <1>4, <1>7, <2>1, <2>10, <2>12, <2>13, <2>14
<1>11. CASE ~Triggers(0) \/ k = Len(p)
  <2>1. k = Len(p) => p[k].op = "halt"
    BY <1>2 DEF Halt
  <2>2. core'[0].step = k /\ t = s
    BY <1>3, <1>5, <1>11, <2>1
  <2>3. core'[0].halted => k = Len(p)
    BY <1>6, <1>9, <1>11
  <2>4. ~Consumed /\ \A n : Emitted(n) = << >>
    BY <1>1, <1>11, <2>1 DEF Consumed, Emitted, If, Operation
  <2>5. I \o << >> = I /\ D \o << >> = D /\ A \o << >> = A
    <3>1. PICK R, S : R = Destinations /\ S = 0 .. Len(Inputs) - 1
      OBVIOUS
    <3>2. I \in Seq(R) /\ D \in Seq(Nat) /\ A \in Seq(S)
      BY <1>8, <3>1 DEF Writes, Reads
    <3> QED BY <3>2, NothingAdded
  <2>6. Reads(A \o Emitted("readIndex"), IF Consumed THEN Tail(back) ELSE back, t)
    BY <1>8, <2>2, <2>4, <2>5
  <2>7. Writes(I \o Emitted("writeIndex"), D \o Emitted("writeData"), ram, t)
    BY <1>8, <2>2, <2>4, <2>5
  <2>8. OnPaperOK(t) /\ \A n \in Outgoing : Emitted(n) \in Seq(Nat)
    <3>1. << >> \in Seq(Nat)
      OBVIOUS
    <3> QED BY <1>4, <2>2, <2>4, <3>1
  <2> QED BY <1>1, <1>2, <1>4, <1>7, <2>2, <2>3, <2>6, <2>7, <2>8
<1> QED BY <1>10, <1>11

\* The oldest word of a channel and of what is behind it.
LEMMA OldestSent ==
    ASSUME Behaved, NEW n \in Outgoing, Emitted(n) \in Seq(Nat), port[n] # << >>
    PROVE  /\ Sent(n) \o Emitted(n) # << >>
           /\ Head(Sent(n) \o Emitted(n)) = Head(port[n])
<1>1. PICK f, b, e, S : f = port[n] /\ b = channel[n] /\ e = Emitted(n) /\ S = Nat
  OBVIOUS
<1>2. n \in Names
  BY DEF Names
<1>3. f \in Seq(S) /\ b \in Seq(S) /\ e \in Seq(S) /\ f # << >>
  BY <1>1, <1>2 DEF Behaved
<1>4. f \o b \in Seq(S) /\ f \o b # << >> /\ Head(f \o b) = Head(f)
  BY <1>3
<1>5. (f \o b) \o e # << >> /\ Head((f \o b) \o e) = Head(f \o b)
  <2>1. PICK g : g = f \o b
    OBVIOUS
  <2>2. g \in Seq(S) /\ g # << >>
    BY <1>4, <2>1
  <2>3. g \o e # << >> /\ Head(g \o e) = Head(g)
    BY <1>3, <2>2
  <2> QED BY <2>1, <2>3
<1> QED BY <1>1, <1>4, <1>5 DEF Sent

\* While the element executes, what is on its way still makes up the difference.
LEMMA BehavedKept ==
    ASSUME System = "element", WellFormed(program[0]), AtWork, Behaved, ClockRaised,
           program' = program
    PROVE  Behaved'
<1>1. PICK t, ram : t = OnPaper' /\ ram = memory.ram
  OBVIOUS
<1>2. PICK I, D, A, back : /\ I = Sent("writeIndex") \o Emitted("writeIndex")
                           /\ D = Sent("writeData") \o Emitted("writeData")
                           /\ A = Sent("readIndex") \o Emitted("readIndex")
                           /\ back = IF Consumed THEN Tail(Returned) ELSE Returned
  OBVIOUS
<1>3. /\ core'[0].step \in 1 .. Len(program[0])
      /\ core'[0].halted => core'[0].step = Len(program[0])
      /\ OnPaperOK(t)
      /\ Emitted("writeIndex") \in Seq(Nat) /\ Emitted("writeData") \in Seq(Nat)
      /\ Emitted("readIndex") \in Seq(Nat)
      /\ Writes(I, D, ram, t) /\ Reads(A, back, t)
  <2>1. "writeIndex" \in Outgoing /\ "writeData" \in Outgoing /\ "readIndex" \in Outgoing
    BY DEF Outgoing
  <2> QED BY <1>1, <1>2, <2>1, CoreCarries
<1>4. /\ \A n \in Names : channel[n] \in Seq(Nat) /\ port[n] \in Seq(Nat)
      /\ Inputted(ram)
      /\ Answering
  BY <1>1 DEF Behaved, Writes
<1>5. /\ "writeIndex" \in Outgoing \cap Names /\ "writeData" \in Outgoing \cap Names
      /\ "readIndex" \in Outgoing \cap Names /\ "readData" \in Names
      /\ Names = {"writeIndex", "writeData", "readIndex", "readData"}
  BY DEF Names, Outgoing
<1>6. /\ memory.answering => port["readIndex"] # << >>
      /\ Writing => port["writeIndex"] # << >> /\ port["writeData"] # << >>
  BY <1>4 DEF Answering, Writing
<1>7. /\ channel'["writeIndex"] \in Seq(Nat) /\ port'["writeIndex"] \in Seq(Nat)
      /\ Writing => Sent("writeIndex")' = Tail(I)
      /\ ~Writing => Sent("writeIndex")' = I
  BY <1>2, <1>3, <1>4, <1>5, <1>6, SentMoves DEF Taken, Flowing
<1>8. /\ channel'["writeData"] \in Seq(Nat) /\ port'["writeData"] \in Seq(Nat)
      /\ Writing => Sent("writeData")' = Tail(D)
      /\ ~Writing => Sent("writeData")' = D
  BY <1>2, <1>3, <1>4, <1>5, <1>6, SentMoves DEF Taken, Flowing
<1>9. /\ channel'["readIndex"] \in Seq(Nat) /\ port'["readIndex"] \in Seq(Nat)
      /\ memory.answering => Sent("readIndex")' = Tail(A)
      /\ ~memory.answering => Sent("readIndex")' = A
      /\ ~memory.answering /\ port["readIndex"] # << >> =>
            port'["readIndex"] # << >> /\ Head(port'["readIndex"]) = Head(port["readIndex"])
  BY <1>2, <1>3, <1>4, <1>5, <1>6, SentMoves DEF Taken, Flowing
<1>10. port["readIndex"] # << >> => A # << >> /\ Head(A) = Head(port["readIndex"])
  BY <1>2, <1>3, <1>5, OldestSent
<1>11. port["readIndex"] # << >> =>
          /\ Reads(Tail(A), back \o << Inputs[Head(A) + 1] >>, t)
          /\ Inputs[Head(A) + 1] \in Nat /\ Head(A) \in 0 .. Len(Inputs) - 1
  BY <1>3, <1>10, QuestionAnswered
<1>12. /\ memory.answering => Answer = << Inputs[Head(A) + 1] >>
       /\ ~memory.answering => Answer = << >>
       /\ Answer \in Seq(Nat)
  <2>1. memory.answering => Answer = << memory.out >> /\ memory.out = Inputs[Head(A) + 1]
    BY <1>4, <1>6, <1>10 DEF Answer, If, Answering
  <2>2. ~memory.answering => Answer = << >>
    BY DEF Answer, If
  <2>3. CASE memory.answering
    <3>1. PICK v : v = Inputs[Head(A) + 1]
      OBVIOUS
    <3>2. v \in Nat /\ Answer = << v >>
      BY <1>6, <1>11, <2>1, <2>3, <3>1
    <3>3. Answer \in Seq(Nat)
      BY <3>2
    <3> QED BY <2>1, <2>2, <3>3
  <2>4. CASE ~memory.answering
    <3>1. << >> \in Seq(Nat)
      OBVIOUS
    <3> QED BY <2>2, <2>4, <3>1
  <2> QED BY <2>3, <2>4
<1>13. /\ channel'["readData"] \in Seq(Nat) /\ port'["readData"] \in Seq(Nat)
       /\ Returned' = back \o Answer
  <2>1. /\ channel'["readData"] \in Seq(Nat) /\ port'["readData"] \in Seq(Nat)
        /\ Consumed => Returned # << >> /\ Returned' = Tail(Returned \o Answer)
        /\ ~Consumed => Returned' = Returned \o Answer
    BY <1>4, <1>5, <1>12, ReturnedMoves DEF Returning
  <2>2. PICK r, a, S : r = Returned /\ a = Answer /\ S = Nat
    OBVIOUS
  <2>3. r \in Seq(S) /\ a \in Seq(S)
    BY <1>12, <2>2 DEF Behaved, Reads
  <2>4. r # << >> => Tail(r \o a) = Tail(r) \o a
    BY <2>3, TailOfMore
  <2> QED BY <1>2, <2>1, <2>2, <2>4
<1>14. Reads(Sent("readIndex")', Returned', t)
  <2>1. CASE memory.answering
    BY <1>6, <1>9, <1>11, <1>12, <1>13, <2>1
  <2>2. CASE ~memory.answering
    <3>1. back \o << >> = back
      <4>1. back \in Seq(Nat)
        BY <1>3 DEF Reads
      <4> QED BY <4>1, NothingAdded
    <3> QED BY <1>3, <1>9, <1>12, <1>13, <2>2, <3>1
  <2> QED BY <2>1, <2>2
<1>15. DOMAIN ram = 0 .. Size - 1
  BY <1>1 DEF AtWork, Shaped
<1>16. Writes(Sent("writeIndex")', Sent("writeData")', memory'.ram, t)
  <2>1. CASE Writing
    <3>1. I # << >> /\ Head(I) = Head(port["writeIndex"])
      BY <1>2, <1>3, <1>5, <1>6, <2>1, OldestSent
    <3>2. D # << >> /\ Head(D) = Head(port["writeData"])
      BY <1>2, <1>3, <1>5, <1>6, <2>1, OldestSent
    <3>3. memory'.ram = [ram EXCEPT ![Head(I) % Reach] = Head(D)]
      BY <1>1, <2>1, <3>1, <3>2 DEF AtWork, Edge, ClockMemory
    <3>4. Writes(Tail(I), Tail(D), memory'.ram, t)
      BY <1>3, <1>15, <3>1, <3>2, <3>3, WritesTaken
    <3> QED BY <1>7, <1>8, <2>1, <3>4
  <2>2. CASE ~Writing
    <3>1. memory'.ram = ram
      BY <1>1, <2>2 DEF AtWork, Edge, ClockMemory
    <3> QED BY <1>3, <1>7, <1>8, <2>2, <3>1
  <2> QED BY <2>1, <2>2
<1>17. Answering'
  <2> SUFFICES ASSUME memory'.answering
               PROVE  /\ port'["readIndex"] # << >>
                      /\ memory'.out = Inputs[Head(port'["readIndex"]) + 1]
    BY DEF Answering
  <2>1. ~memory.answering /\ port["readIndex"] # << >>
    BY DEF AtWork, Edge, ClockMemory
  <2>2. PICK a : a = Head(port["readIndex"])
    OBVIOUS
  <2>3. a \in 0 .. Len(Inputs) - 1 /\ port'["readIndex"] # << >> /\ Head(port'["readIndex"]) = a
    BY <1>9, <1>10, <1>11, <2>1, <2>2
  <2>4. memory'.out = ram[a % Reach]
    BY <1>1, <2>1, <2>2 DEF AtWork, Edge, ClockMemory
  <2>5. a % Reach = a
    <3>1. a \in 0 .. Size - 1
      BY <2>3, Amounts
    <3> QED BY <3>1, Amounts
  <2>6. ram[a] = Inputs[a + 1]
    BY <1>4, <2>3 DEF Inputted
  <2> QED BY <2>3, <2>4, <2>5, <2>6
<1>18. \A n \in Names : channel'[n] \in Seq(Nat) /\ port'[n] \in Seq(Nat)
  BY <1>5, <1>7, <1>8, <1>9, <1>13
<1> QED BY <1>1, <1>3, <1>14, <1>16, <1>17, <1>18 DEF Behaved

-----------------------------------------------------------------------------
(* The run, seen from the data.                                            *)

\* While the host polls, an element that executes has everything the host wrote.
LEMMA ExecutesWhenDone ==
    /\ System = "element" /\ Progress /\ driver.at = Begin + 1 /\ AtCore.execute
    => Done(Begin)
<1> SUFFICES ASSUME System = "element", Progress, driver.at = Begin + 1, AtCore.execute
             PROVE  Done(Begin)
  OBVIOUS
<1>1. PICK n : n = Begin
  OBVIOUS
<1>2. n \in Int /\ n > 5 /\ driver.at - 1 = n /\ n - 1 \in Int /\ n # 1 /\ n - 1 # 0
  BY <1>1, BeginIsLate
<1>3. ~Gives(AtCore, n - 1)
  <2>1. ~(n - 1 >= n)
    BY <1>2
  <2> QED BY <1>1, <2>1 DEF Gives
<1>4. ~Landed(n - 1)
  BY <1>2, <1>3 DEF Landed, Signals
<1>5. ~Crossing(n) /\ ~Entering(n) /\ ~Switching(n) /\ ~Clearing(n)
  BY <1>2, <1>3, <1>4 DEF Crossing, Entering, Switching, Clearing
<1> QED BY <1>1, <1>2, <1>5 DEF Progress

\* From the third access on the element is either waiting or executes for good, and it
\* does not execute before the host has said so.
LEMMA WaitsOrExecutes ==
    ASSUME System = "element", Progress, driver.at \in Nat, driver.at >= 3
    PROVE  /\ Waiting
           /\ AtCore.execute => control.execute /\ driver.at > Begin
<1>1. PICK n \in Nat : n = driver.at - 1 /\ n >= 2
  <2>1. driver.at - 1 \in Nat /\ driver.at - 1 >= 2
    OBVIOUS
  <2> QED BY <2>1
<1>2. n # 0 /\ n # 1 /\ n - 1 # 0 /\ n - 1 \in Nat /\ Begin \in Int
  BY <1>1, BeginIsLate
<1>3. \/ Gives(control, n) /\ Gives(AtCore, n) /\ Waiting
      \/ Gives(control, n - 1) /\ Gives(AtCore, n - 1) /\ Waiting
      \/ Gives(control, n) /\ Gives(AtCore, n - 1) /\ Waiting
  <2>1. CASE Done(n)
    BY <1>2, <2>1 DEF Done, Landed, Signals
  <2>2. CASE Crossing(n) \/ Entering(n)
    BY <1>2, <2>2 DEF Crossing, Entering, Landed, Signals
  <2>3. CASE Switching(n)
    BY <1>2, <2>3 DEF Switching
  <2>4. ~Clearing(n)
    BY <1>2 DEF Clearing
  <2> QED BY <1>1, <2>1, <2>2, <2>3, <2>4 DEF Progress
<1>4. AtCore.execute => control.execute /\ n >= Begin
  <2>1. (n - 1 >= Begin) => (n >= Begin)
    BY <1>2
  <2> QED BY <1>3, <2>1 DEF Gives
<1> QED BY <1>1, <1>2, <1>3, <1>4

\* While the host polls it is not at the memory.
LEMMA PollingIsElsewhere ==
    ASSUME System = "element", Shaped, Turns, Progress, Pathed, Edge, ClockDriver,
           driver.at = Begin + 1, AtCore.execute
    PROVE  AtWork
<1>1. Done(Begin) /\ Begin \in Int /\ Begin > 5
  BY ExecutesWhenDone, BeginIsLate
<1>2. Nothing /\ Gives(control, Begin) /\ Gives(AtCore, Begin)
  BY <1>1 DEF Done, Landed, Signals
<1>3. ~AtCore.reset /\ AtCore.enable /\ ~control.reset
  BY <1>1, <1>2 DEF Gives
<1>4. Offered(Ram) = {}
  <2>1. ~axi.bvalid
    <3> SUFFICES ASSUME axi.bvalid PROVE FALSE
      OBVIOUS
    <3>1. IsWrite(driver.at)
      BY HostMoves
    <3> QED BY <1>1, <3>1, LastWrite
  <2>2. WritesMove /\ buffer[Host].writes = << >>
    BY <2>1, ClockMovesWrites DEF Turns, HostQueue, Edge
  <2> QED BY <1>2, <2>2, NothingComes
<1>5. Asked(Ram) = {}
  <2> SUFFICES ASSUME buffer[Memory].reading PROVE FALSE
    BY ReadIsOnItsWay
  <2>1. buffer[Host].reading /\ Stop.to = Memory
    BY DEF Pathed
  <2>2. axi.read_req
    BY <2>1 DEF Pathed
  <2>3. HostTurn /\ Running /\ Access.kind # "write"
    BY <2>2 DEF Turns, HostTurn, ReadTurn
  <2>4. Stop = Mapped(Control, HaltedReg)
    <3>1. \A i \in 1 .. Len(Inputs) :
             Begin + 1 # 3 + RegisterWords + InstructionWords + Len(Inputs) + i
      BY Amounts DEF Begin
    <3>2. \A i \in 1 .. NumOutputs : Begin + 1 # Begin + 1 + i
      BY <1>1, Amounts
    <3>3. ~(Begin + 1 > Begin + 1 + NumOutputs)
      BY <1>1, Amounts
    <3> QED BY <2>3, <3>1, <3>2, <3>3, ReadInProgress
  <2>5. Control # Memory
    BY BuffersDiffer
  <2> QED BY <2>1, <2>4, <2>5 DEF Mapped
<1> QED BY <1>3, <1>4, <1>5 DEF AtWork

\* What the element starts with: nothing on its way, and the input data in the memory.
LEMMA BehavedFirst ==
    ASSUME System = "element", WellFormed(program[0]), Shaped, Progress, Edge, ClockRaised,
           program' = program, driver.at \in Nat, driver.at >= 3,
           ~AtCore.execute, ~core[0].halted, Done(Begin)'
    PROVE  Behaved'
<1>1. core[0].step = 1 /\ ~Triggers(0)
  BY WaitsOrExecutes DEF Waiting, Triggers
<1>2. core'[0].step = 1 /\ ~core'[0].halted
  BY <1>1, CoreMoves, CoreHalts DEF Edge
<1>3. Words(Begin)' /\ Waiting'
  BY BeginIsLate DEF Done, Landed, Signals
<1>4. /\ \A n \in Names : channel'[n] = << >> /\ port'[n] = << >>
      /\ ~memory'.answering
  BY <1>2, <1>3 DEF Waiting, AtRest
<1>5. PICK ram, n : ram = memory'.ram /\ n = Len(Inputs)
  OBVIOUS
<1>6. \A i \in 1 .. n : ram[i - 1] = Inputs[i]
  <2>1. \A i \in 1 .. n : 3 + RegisterWords + InstructionWords + i <= Begin
    BY <1>5, Amounts DEF Begin
  <2> QED BY <1>2, <1>3, <1>5, <2>1 DEF Words
<1>7. \A i \in 0 .. n - 1 : ram[i] = Inputs[i + 1]
  <2>1. n \in Nat
    BY <1>5, Amounts
  <2>2. \A i \in 0 .. n - 1 : i + 1 \in 1 .. n /\ (i + 1) - 1 = i
    BY <2>1
  <2> QED BY <1>6, <2>2
<1>8. OnPaper' = Blank
  <2>1. Len(program[0]) \in Nat
    BY DEF WellFormed
  <2>2. OnPaper' = Paper(program[0])[1 - 1]
    BY <1>2 DEF OnPaper
  <2> QED BY <2>1, <2>2, PaperStates
<1>9. /\ Blank.open = FALSE /\ Blank.answers = << >>
      /\ DOMAIN Blank.ram = 0 .. n - 1 /\ \A a \in 0 .. n - 1 : Blank.ram[a] = Inputs[a + 1]
  BY <1>5 DEF Blank
<1>10. << >> \in Seq(Nat) /\ << >> \in Seq(Destinations) /\ << >> \in Seq(0 .. Len(Inputs) - 1)
       /\ << >> \o << >> = << >> /\ Len(<< >>) = 0
  OBVIOUS
<1>11. Writes(<< >>, << >>, ram, Blank)
  <2>1. Agree(<< >>, << >>, ram, Blank.ram)
    BY <1>7, <1>9, <1>10 DEF Agree
  <2> QED BY <1>5, <1>7, <1>9, <1>10, <2>1 DEF Writes, Inputted
<1>12. Reads(<< >>, << >>, Blank)
  <2>1. Told(<< >>) = << >>
    BY <1>10 DEF Told
  <2> QED BY <1>9, <1>10, <2>1 DEF Reads
<1>13. /\ \A n1 \in Outgoing : Sent(n1)' = << >>
       /\ Returned' = << >>
  BY <1>4, <1>10 DEF Sent, Returned, Names
<1>14. Sent("writeIndex")' = << >> /\ Sent("writeData")' = << >> /\ Sent("readIndex")' = << >>
  BY <1>13 DEF Outgoing
<1>15. core'[0].step \in 1 .. Len(program[0])
  BY <1>2 DEF WellFormed
<1> QED
  BY <1>2, <1>4, <1>5, <1>8, <1>10, <1>11, <1>12, <1>13, <1>14, <1>15 DEF Behaved, Answering

\* When nothing more is written the memory has what the program leaves in it.
LEMMA BehavedToTheEnd ==
    ASSUME WellFormed(program[0]), Behaved, Final
    PROVE  \A a \in DOMAIN Outcome : memory.ram[a] = Outcome[a]
<1>1. PICK p, m, s : p = program[0] /\ m = Len(program[0]) /\ s = OnPaper
  OBVIOUS
<1>2. m \in Nat \ {0} /\ p[m] = Halt /\ core[0].step = m
  BY <1>1 DEF WellFormed, Behaved, Final
<1>3. s = Paper(p)[m - 1]
  BY <1>1, <1>2 DEF OnPaper
<1>4. Paper(p)[m] = s
  <2>1. m \in 1 .. Len(p) /\ Len(p) \in Nat
    BY <1>1, <1>2
  <2>2. Paper(p)[m] = Effect(s, Halt)
    BY <1>2, <1>3, <2>1, PaperStates
  <2> QED BY <2>2 DEF Effect, Halt
<1>5. Outcome = s.ram
  BY <1>1, <1>4 DEF Outcome
<1>6. Sent("writeData") = << >>
  BY DEF Final, Drained, Emptied, Sent
<1>7. Agree(Sent("writeIndex"), << >>, memory.ram, s.ram)
  BY <1>1, <1>6 DEF Behaved, Writes
<1> QED BY <1>5, <1>7 DEF Agree

-----------------------------------------------------------------------------
(* The invariant of the data is kept.                                      *)

\* An edge leaves interrupted as it is.
LEMMA InterruptedStays ==
    ASSUME System = "element", Shaped, Turns, ClockDriver
    PROVE  driver'.interrupted = driver.interrupted
<1>1. \A value : Running => Advance(value).interrupted = driver.interrupted
  <2> SUFFICES ASSUME NEW value, Running PROVE Advance(value).interrupted = driver.interrupted
    OBVIOUS
  <2>1. Access.kind \in {"write", "check", "poll", "read", "count"}
    BY AccessInProgress DEF Turns
  <2> QED BY <2>1 DEF Advance, Shaped
<1>2. CASE axi.bvalid
  BY <1>1, <1>2, HostMoves
<1>3. CASE axi.rvalid
  BY <1>1, <1>3, HostMoves
<1>4. CASE ~axi.bvalid /\ ~axi.rvalid
  BY <1>4, HostMoves
<1> QED BY <1>2, <1>3, <1>4

\* An element that is not executing has not halted, after the reset.
LEMMA NotHaltedBefore ==
    ASSUME System = "element", Shaped, Turns, Progress, Cleared, Edge, ClockDriver, ClockRaised,
           DataInv, ~driver.interrupted, driver'.at >= 3, ~control.execute
    PROVE  ~core'[0].halted
<1> SUFFICES ASSUME core'[0].halted PROVE FALSE
  OBVIOUS
<1>1. ~AtCore.reset /\ (core[0].halted \/ AtCore.execute)
  BY CoreHalts DEF Edge, Triggers
<1>2. driver.at \in Nat \ {0} /\ driver'.at \in {driver.at, driver.at + 1}
  BY HostMoves
<1>3. CASE driver.at >= 3
  <2>1. ~AtCore.execute
    BY <1>2, <1>3, WaitsOrExecutes
  <2> QED BY <1>1, <1>3, <2>1 DEF DataInv
<1>4. CASE ~(driver.at >= 3)
  <2>1. driver.at = 2 /\ driver'.at # driver.at
    BY <1>2, <1>4
  <2>2. axi.bvalid \/ axi.rvalid
    BY <2>1, HostMoves
  <2>3. Done(1)
    BY <2>1, <2>2 DEF Cleared, Fresh0, Fresh1, Fresh2
  <2>4. AtCore.reset
    BY <2>3 DEF Done, Landed, Signals, Gives
  <2> QED BY <1>1, <2>4
<1> QED BY <1>3, <1>4

\* When the host stops polling nothing more is written, and from then on nothing changes.
LEMMA OutcomeReached ==
    ASSUME System = "element", WellFormed(program[0]), Shaped, Turns, Progress, ReadInv, Edge,
           ClockDriver, ClockRaised, DataInv, ~driver.interrupted,
           ~driver'.interrupted, driver'.at > Begin + 1
    PROVE  \A a \in DOMAIN Outcome : memory'.ram[a] = Outcome[a]
<1>1. /\ driver.at \in Nat \ {0} /\ driver'.at \in {driver.at, driver.at + 1}
      /\ Begin \in Int /\ Begin > 5
  BY HostMoves, BeginIsLate
<1>2. driver.at >= 3
  BY <1>1
<1>3. Answers /\ Results
  BY DEF ReadInv
<1>4. CASE driver.at > Begin + 1
  <2>1. \A a \in DOMAIN Outcome : memory.ram[a] = Outcome[a]
    BY <1>2, <1>4 DEF DataInv
  <2>2. Settled
    BY <1>4, ReadsAreSettled
  <2>3. memory'.ram = memory.ram
    BY <1>3, <1>4, <2>2, FinalStays DEF Results, Settled
  <2> QED BY <2>1, <2>3
<1>5. CASE ~(driver.at > Begin + 1)
  <2>1. driver.at = Begin + 1 /\ driver'.at = driver.at + 1
    BY <1>1, <1>5
  <2>2. axi.rvalid
    <3>1. ~axi.bvalid
      <4> SUFFICES ASSUME axi.bvalid PROVE FALSE
        OBVIOUS
      <4>1. IsWrite(driver.at)
        BY HostMoves
      <4> QED BY <1>1, <2>1, <4>1, LastWrite
    <3>2. driver' # driver
      BY <1>1, <2>1
    <3> QED BY <3>1, <3>2, HostMoves
  <2>3. Settled /\ Running /\ HostTurn /\ Access.kind # "write" /\ driver' = Advance(axi.rdata)
    BY <2>2, ReadsAreSettled, HostMoves DEF Turns, ReadTurn
  <2>4. Access.kind = "poll"
    <3>1. \A i \in 1 .. Len(Inputs) :
             Begin + 1 # 3 + RegisterWords + InstructionWords + Len(Inputs) + i
      BY Amounts DEF Begin
    <3>2. \A i \in 1 .. NumOutputs : Begin + 1 # Begin + 1 + i
      BY <1>1, Amounts
    <3>3. ~(Begin + 1 > Begin + 1 + NumOutputs)
      BY <1>1, Amounts
    <3> QED BY <2>1, <2>3, <3>1, <3>2, <3>3, ReadInProgress
  <2>5. axi.rdata # 0
    <3>1. driver'.at # driver.at
      BY <1>1, <2>1
    <3> QED BY <2>3, <2>4, <3>1, HostKeeps
  <2>6. Final
    BY <1>3, <2>2, <2>4, <2>5 DEF Answers, Truthful
  <2>7. AtCore.execute
    BY <1>2, <2>6 DEF DataInv, Final
  <2>8. Behaved
    BY <1>2, <2>1, <2>7 DEF DataInv
  <2>9. \A a \in DOMAIN Outcome : memory.ram[a] = Outcome[a]
    BY <2>6, <2>8, BehavedToTheEnd
  <2>10. memory'.ram = memory.ram
    BY <2>3, <2>6, FinalStays DEF Settled
  <2> QED BY <2>9, <2>10
<1> QED BY <1>4, <1>5

\* An edge: the element starts, executes, or has been seen halted.
LEMMA ClockKeepsDataInv ==
    ASSUME System = "element", WellFormed(program[0]), RunInv, ReadInv, RunInv', DataInv, Clock
    PROVE  DataInv'
<1>1. /\ Shaped /\ Turns /\ Progress /\ Edge /\ ClockBridge /\ ClockDriver /\ ClockRaised
      /\ Cleared /\ Pathed /\ program' = program
  BY DEF RunInv, ReadInv, Clock, Edge
<1>2. driver'.interrupted = driver.interrupted
  BY <1>1, InterruptedStays
<1>3. AtCore' = control
  <2>1. stage' = << control >>
    BY <1>1, OneStage DEF Shaped, Edge
  <2> QED
    BY <2>1 DEF AtCore, LastStage
<1> SUFFICES ASSUME ~driver'.interrupted, driver'.at >= 3
             PROVE  /\ ~AtCore'.execute => ~core'[0].halted
                    /\ AtCore'.execute /\ driver'.at = Begin + 1 => Behaved'
                    /\ driver'.at > Begin + 1 =>
                          \A a \in DOMAIN Outcome : memory'.ram[a] = Outcome[a]
  BY <1>1 DEF DataInv, Outcome
<1>4. /\ driver.at \in Nat \ {0} /\ driver'.at \in {driver.at, driver.at + 1}
      /\ Begin \in Int /\ Begin > 5
  BY <1>1, HostMoves, BeginIsLate
<1>5. ~AtCore'.execute => ~core'[0].halted
  BY <1>1, <1>2, <1>3, NotHaltedBefore
<1>6. ASSUME AtCore'.execute, driver'.at = Begin + 1 PROVE Behaved'
  <2>1. driver.at >= 3
    BY <1>4, <1>6
  <2>2. CASE AtCore.execute
    <3>1. driver.at = Begin + 1
      BY <1>1, <1>4, <1>6, <2>1, <2>2, WaitsOrExecutes
    <3>2. Behaved
      BY <1>2, <2>1, <2>2, <3>1 DEF DataInv
    <3>3. AtWork
      BY <1>1, <2>2, <3>1, PollingIsElsewhere
    <3> QED BY <1>1, <3>2, <3>3, BehavedKept
  <2>3. CASE ~AtCore.execute
    <3>1. ~core[0].halted
      BY <1>2, <2>1, <2>3 DEF DataInv
    <3>2. Progress'
      BY DEF RunInv
    <3>3. Done(Begin)'
      <4>1. (/\ System = "element" /\ Progress /\ driver.at = Begin + 1 /\ AtCore.execute
             => Done(Begin))'
        BY ExecutesWhenDone, PTL
      <4> QED BY <1>6, <3>2, <4>1
    <3> QED BY <1>1, <1>4, <2>1, <2>3, <3>1, <3>3, BehavedFirst
  <2> QED BY <2>2, <2>3
<1>7. ASSUME driver'.at > Begin + 1
      PROVE  \A a \in DOMAIN Outcome : memory'.ram[a] = Outcome[a]
  BY <1>1, <1>2, <1>7, OutcomeReached
<1> QED BY <1>5, <1>6, <1>7

\* The host's steps between two edges change nothing of it.
LEMMA DataInvSame ==
    ASSUME DataInv, driver'.at = driver.at, driver.interrupted => driver'.interrupted,
           UNCHANGED << program, stage, core, channel, port, memory >>
    PROVE  DataInv'
<1>1. AtCore' = AtCore /\ Outcome' = Outcome
  BY DEF AtCore, LastStage, Outcome
<1>2. Behaved => Behaved'
  <2>1. /\ \A n : Sent(n)' = Sent(n)
        /\ Returned' = Returned /\ OnPaper' = OnPaper
    BY DEF Sent, Returned, OnPaper
  <2> QED BY <2>1 DEF Behaved, Answering
<1> QED BY <1>1, <1>2 DEF DataInv

\* What the host program has retrieved is what the program leaves in the memory.
LEMMA DataInvShows ==
    ASSUME System = "element", WellFormed(program[0]), RunInv, ReadInv, DataInv
    PROVE  ResultsAreRead
<1> SUFFICES ASSUME ~driver.interrupted, NEW j \in 1 .. Len(driver.output)
             PROVE  driver.output[j] = Outcome[Len(Inputs) + j - 1]
  BY DEF ResultsAreRead
<1>1. /\ driver.at \in Nat /\ Begin \in Int /\ Begin > 5 /\ NumOutputs \in Nat
  <2>1. Len(Main) \in Nat
    BY Amounts, WholeProgram
  <2> QED BY <2>1, BeginIsLate, Amounts DEF RunInv, Turns, HostTurn
<1>2. Results
  BY DEF ReadInv
<1>3. PICK r : r = Retrieved(driver.at) /\ r = Len(driver.output)
  BY <1>2 DEF Results
<1>4. r = IF driver.at <= Begin + 2 THEN 0
          ELSE IF driver.at <= Begin + 2 + NumOutputs THEN driver.at - (Begin + 2) ELSE NumOutputs
  BY <1>3 DEF Retrieved
<1>5. j \in 1 .. r
  BY <1>3
<1>6. driver.at > Begin + 1 /\ driver.at >= 3 /\ j \in 1 .. NumOutputs
  BY <1>1, <1>4, <1>5
<1>7. driver.output[j] = memory.ram[Len(Inputs) + j - 1]
  BY <1>2, <1>3, <1>5 DEF Results
<1>8. Len(Inputs) + j - 1 \in DOMAIN Outcome
  BY <1>6 DEF WellFormed, Outcome
<1> QED BY <1>6, <1>7, <1>8 DEF DataInv

\* On the test system of one element, for every program that has an outcome: the host
\* that was not interrupted retrieves what the program computes from the input data, with
\* any number of inputs and results, channels of any depth and however the host and the
\* element interleave.
THEOREM ResultsAreOutcome ==
    System = "element" /\ (\A p \in Programs[0] : WellFormed(p)) => (Spec => []ResultsAreRead)
<1> SUFFICES ASSUME System = "element", \A p \in Programs[0] : WellFormed(p)
             PROVE  Spec => []ResultsAreRead
  OBVIOUS
<1> DEFINE AllInv == WellFormed(program[0]) /\ RunInv /\ ReadInv /\ DataInv
<1>1. Init => AllInv
  <2> SUFFICES ASSUME Init PROVE AllInv
    OBVIOUS
  <2>1. program[0] \in Programs[0]
    BY BuffersDiffer DEF Init
  <2>2. DataInv
    BY DEF Init, DataInv
  <2> QED BY <2>1, <2>2, RunInvInit, ReadInvInit
<1>2. AllInv /\ [Next]_vars => AllInv'
  <2> SUFFICES ASSUME AllInv, [Next]_vars PROVE AllInv'
    OBVIOUS
  <2>1. RunInv' /\ Shaped
    BY RunInvKept DEF RunInv
  <2>2. program' = program
    BY DEF Next, IssueAddress, IssueData, Interrupt, Clock, vars
  <2>3. CASE IssueAddress \/ IssueData \/ Interrupt
    <3>1. /\ driver'.at = driver.at /\ (driver.interrupted => driver'.interrupted)
          /\ UNCHANGED << program, stage, core, channel, port, memory >>
      BY <2>1, <2>3 DEF IssueAddress, IssueData, Interrupt, hardware, Shaped
    <3>2. ReadInv' /\ DataInv'
      BY <2>3, <3>1, HostStepsKeepReadInv, DataInvSame
    <3> QED BY <2>1, <2>2, <3>2
  <2>4. CASE Clock
    <3>1. ReadInv' /\ DataInv'
      BY <2>1, <2>4, ClockKeepsReadInv, ClockKeepsDataInv
    <3> QED BY <2>1, <2>2, <3>1
  <2>5. CASE UNCHANGED vars
    <3>1. UNCHANGED << program, driver, axi, buffer, control, stage, core, raised, channel,
                       port, memory >>
      BY <2>5 DEF vars, hardware
    <3>2. ReadInv' /\ DataInv'
      BY <3>1, ReadInvSame, DataInvSame
    <3> QED BY <2>1, <2>2, <3>2
  <2> QED BY <2>3, <2>4, <2>5 DEF Next
<1>3. AllInv => ResultsAreRead
  BY DataInvShows
<1> QED
  BY <1>1, <1>2, <1>3, PTL DEF Spec
=============================================================================
