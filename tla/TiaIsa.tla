------------------------------ MODULE TiaIsa ------------------------------
(***************************************************************************)
(* The triggered instruction set: instructions, triggers, the datapath     *)
(* operations and the update of the architectural state, as pure operators *)
(* shared by the machine a programmer sees (TiaMachine) and the pipelined  *)
(* cores (IntegerCore).                                                    *)
(*                                                                         *)
(* A set of predicates is the set of those that are 1.  Words are integers *)
(* modulo 2^WordWidth.  A packet queue is a sequence, oldest packet first: *)
(* ChannelBuffers shows that the ring buffers behave as such.              *)
(***************************************************************************)
EXTENDS Integers, Sequences

CONSTANTS
    WordWidth,       \* TIA_WORD_WIDTH
    Registers,       \* register indices
    Predicates,      \* predicate indices
    InputChannels,   \* input channel indices
    OutputChannels,  \* output channel indices
    Tags,            \* tag values a packet can carry
    ScratchpadDepth, \* TIA_NUM_SCRATCHPAD_WORDS, a power of two
    ChannelDepth     \* TIA_CHANNEL_BUFFER_FIFO_DEPTH

ASSUME SizesAssumption ==
    /\ WordWidth \in Nat \ {0} /\ 2 ^ WordWidth \in Nat \ {0, 1}
    /\ ScratchpadDepth \in Nat \ {0}
    /\ ChannelDepth \in Nat \ {0}

ASSUME NonEmptyAssumption == Tags # {} /\ Registers # {}

Word   == 0 .. 2 ^ WordWidth - 1
Packet == [tag : Tags, data : Word]
Queue  == Seq(Packet)

-----------------------------------------------------------------------------
(* Instructions.                                                           *)

\* A representative of every class the control logic tells apart: single-cycle
\* ALU operations, the halt, the two-cycle multiplier and scratchpad operations.
SingleCycleOps == {"nop", "mov", "add", "sub", "eq", "ult", "halt"}
TwoCycleOps    == {"lmul", "mac", "lsw", "ssw"}

Source == [type : {"null", "immediate", "channel", "register"},
           index : Registers \cup InputChannels]

\* One input channel condition of a trigger: the channel must hold a packet
\* whose tag is (or is not) the given one.
Check == [channel : InputChannels, tag : Tags, is : BOOLEAN]

Instruction ==
    [vi   : BOOLEAN,              \* valid bit
     on   : SUBSET Predicates,    \* predicates the trigger requires to be 1
     off  : SUBSET Predicates,    \* predicates the trigger requires to be 0
     checks : SUBSET Check,       \* ici, ictb, ictv
     op   : SingleCycleOps \cup TwoCycleOps,
     src  : [1 .. 3 -> Source],   \* st, si
     imm  : Word,
     dt   : {"null", "channel", "register", "predicate"},
     di   : Registers \cup Predicates,
     oci  : SUBSET OutputChannels,
     oct  : Tags,
     icd  : SUBSET InputChannels, \* input channels to dequeue
     set  : SUBSET Predicates,    \* predicate update mask, ones
     unset : SUBSET Predicates]   \* predicate update mask, zeroes

NoSource == [type |-> "null", index |-> CHOOSE r \in Registers : TRUE]

\* The all-zero instruction a flushed pipeline register holds.
Bubble == [vi |-> FALSE, on |-> {}, off |-> {}, checks |-> {}, op |-> "nop",
           src |-> [k \in 1 .. 3 |-> NoSource], imm |-> 0,
           dt |-> "null", di |-> CHOOSE r \in Registers : TRUE,
           oci |-> {}, oct |-> CHOOSE t \in Tags : TRUE, icd |-> {},
           set |-> {}, unset |-> {}]

TwoCycle(ins)        == ins.op \in TwoCycleOps
WritesPredicate(ins) == ins.dt = "predicate"
Checked(ins)         == {k.channel : k \in ins.checks}

\* What programs must respect for their instructions to mean the same on every
\* core.  The assembler does not check that dequeued and read channels are in
\* the trigger, nor that the mask spares the predicate the result is written to
\* (Instruction.validate is a TODO): here it is a condition on the programs.
WellFormed(ins) ==
    /\ ins \in Instruction /\ ins.vi
    /\ (ins.dt = "channel") = (ins.oci # {})
    /\ ins.op = "ssw" => ins.dt = "null"
    /\ ins.icd \subseteq Checked(ins)
    /\ \A k \in 1 .. 3 :
          /\ ins.src[k].type = "channel" => ins.src[k].index \in Checked(ins)
          /\ ins.src[k].type = "register" => ins.src[k].index \in Registers
    /\ WritesPredicate(ins) => ins.di \in Predicates \ (ins.set \cup ins.unset)
    /\ ins.dt = "register" => ins.di \in Registers

-----------------------------------------------------------------------------
(* Trigger resolution.                                                     *)

\* Whether an instruction may fire, seeing these predicates, these channels as
\* empty or full, and these tags at the heads of the others.
Triggered(ins, predicates, empty, full, tag) ==
    /\ ins.vi
    /\ ins.on \subseteq predicates
    /\ ins.off \cap predicates = {}
    /\ \A k \in ins.checks : k.channel \notin empty /\ (tag[k.channel] = k.tag) = k.is
    /\ ins.oci \cap full = {}

\* The priority encoder: the lowest index wins.
Lowest(indices) == CHOOSE i \in indices : \A j \in indices : i <= j

-----------------------------------------------------------------------------
(* Datapath.                                                               *)

Modulo(n) == n % 2 ^ WordWidth
Truth(b)  == IF b THEN 1 ELSE 0

\* A scratchpad index is the low bits of the operand.
Address(word) == word % ScratchpadDepth

\* The word the head of an input channel shows.  What an empty buffer shows is
\* a stale packet; no well-formed instruction looks at it.
HeadData(inq, c) == IF inq[c] = << >> THEN 0 ELSE Head(inq[c]).data

Operand(ins, k, regs, inq) ==
    CASE ins.src[k].type = "register"  -> regs[ins.src[k].index]
      [] ins.src[k].type = "channel"   -> HeadData(inq, ins.src[k].index)
      [] ins.src[k].type = "immediate" -> ins.imm
      [] OTHER -> 0

Operands(ins, regs, inq) == [k \in 1 .. 3 |-> Operand(ins, k, regs, inq)]

\* The result of an operation on its operands.
Result(op, x, spad) ==
    CASE op = "mov"  -> x[1]
      [] op = "add"  -> Modulo(x[1] + x[2])
      [] op = "sub"  -> Modulo(x[1] - x[2])
      [] op = "eq"   -> Truth(x[1] = x[2])
      [] op = "ult"  -> Truth(x[1] < x[2])
      [] op = "lmul" -> Modulo(x[1] * x[2])
      [] op = "mac"  -> Modulo(x[1] + x[2] * x[3])
      [] op = "lsw"  -> spad[Address(x[1])]
      [] OTHER -> 0

-----------------------------------------------------------------------------
(* Effects on the architectural state, a record of registers, predicates,  *)
(* scratchpad, input queues and output queues.                             *)

\* The store of an ssw: operand 1 goes to the address in operand 2.
Stored(ins, x, spad) ==
    IF ins.op = "ssw" THEN [spad EXCEPT ![Address(x[2])] = x[1]] ELSE spad

\* The queues after dequeuing some channels; an empty one has nothing to give.
Dequeued(inq, icd) ==
    [c \in InputChannels |->
        IF c \in icd /\ inq[c] # << >> THEN Tail(inq[c]) ELSE inq[c]]

RegistersWith(regs, ins, value) ==
    IF ins.dt = "register" THEN [regs EXCEPT ![ins.di] = value] ELSE regs

PredicatesWith(predicates, ins, value) ==
    IF ~WritesPredicate(ins) THEN predicates
    ELSE IF value # 0 THEN predicates \cup {ins.di} ELSE predicates \ {ins.di}

Enqueued(outq, ins, value) ==
    [c \in OutputChannels |->
        IF c \in ins.oci THEN Append(outq[c], [tag |-> ins.oct, data |-> value])
                         ELSE outq[c]]

\* The predicate update mask of an instruction; a 0 wins over a 1.
Masked(predicates, ins) == (predicates \cup ins.set) \ ins.unset

\* Retirement: the result reaches its destination.
WriteBack(ins, value, s) ==
    [s EXCEPT !.regs  = RegistersWith(s.regs, ins, value),
              !.preds = PredicatesWith(s.preds, ins, value),
              !.outq  = Enqueued(s.outq, ins, value)]

\* Operand fetch, store, dequeue and write-back of one instruction: everything
\* but its predicate update mask.
Perform(ins, s) ==
    LET x == Operands(ins, s.regs, s.inq)
        consumed == [s EXCEPT !.spad = Stored(ins, x, s.spad),
                              !.inq  = Dequeued(s.inq, ins.icd)]
    IN  WriteBack(ins, Result(ins.op, x, s.spad), consumed)

\* The whole instruction.
Execute(ins, s) ==
    LET done == Perform(ins, s)
    IN  [done EXCEPT !.preds = Masked(done.preds, ins)]
=============================================================================
