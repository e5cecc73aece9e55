--------------------------- MODULE CoreUnits_proofs ---------------------------
(***************************************************************************)
(* Lemmas about the instruction set, what its operators return for every   *)
(* word width and every instruction; and about the units of a core, for    *)
(* every way a core may connect them to its pipeline: what the trigger     *)
(* stage takes fits the channel status it was shown, and every unit keeps  *)
(* the types of its registers.                                             *)
(***************************************************************************)
EXTENDS CoreUnits, SequenceTheorems, WellFoundedInduction, TLAPS

-----------------------------------------------------------------------------
(* Instructions and their selection.                                       *)

\* The fields of a flushed pipeline register.
LEMMA BubbleFields ==
    /\ Bubble.vi = FALSE /\ Bubble.op = "nop" /\ Bubble.dt = "null"
    /\ Bubble.icd = {} /\ Bubble.oci = {} /\ Bubble.set = {} /\ Bubble.unset = {}
    /\ ~TwoCycle(Bubble) /\ ~WritesPredicate(Bubble)
  BY DEF Bubble, TwoCycle, TwoCycleOps, WritesPredicate

\* The priority encoder picks one of the indices it is given, and none is lower.
LEMMA LowestIsMember ==
    ASSUME NEW indices, indices \subseteq Nat, indices # {}
    PROVE  Lowest(indices) \in indices /\ \A j \in indices : Lowest(indices) <= j
<1> DEFINE Less == {pair \in Nat \X Nat : pair[1] < pair[2]}
<1>1. PICK i \in indices : \A j \in indices : << j, i >> \notin Less
  <2>1. IsWellFoundedOn(Less, Nat)
    BY NatLessThanWellFounded DEF OpToRel
  <2> HIDE DEF Less
  <2> QED
    BY <2>1, WFMin
<1>2. ASSUME NEW j \in indices PROVE i <= j
  <2>1. ~(j < i)
    BY <1>1
  <2> QED
    BY <2>1
<1> QED
  BY <1>1, <1>2 DEF Lowest

-----------------------------------------------------------------------------
(* Words.                                                                  *)

LEMMA SmallWords == 0 \in Word /\ 1 \in Word
  BY SizesAssumption DEF Word

\* Arithmetic wraps around at the word width.
LEMMA ModuloType == ASSUME NEW n \in Int PROVE Modulo(n) \in Word
<1> DEFINE size == 2 ^ WordWidth
<1>1. size \in Nat /\ size > 0
  BY SizesAssumption
<1> HIDE DEF size
<1>2. n % size \in 0 .. size - 1
  BY <1>1
<1> QED
  BY <1>2 DEF Modulo, Word, size

LEMMA WordIsNat == Word \subseteq Nat /\ Word \subseteq Int
<1> DEFINE size == 2 ^ WordWidth
<1>1. size \in Nat
  BY SizesAssumption
<1> HIDE DEF size
<1>2. 0 .. size - 1 \subseteq Nat
  BY <1>1
<1> QED
  BY <1>2 DEF Word, size

\* Every scratchpad address falls inside the scratchpad.
LEMMA AddressType == ASSUME NEW w \in Word PROVE Address(w) \in 0 .. ScratchpadDepth - 1
<1>1. w \in Int
  BY WordIsNat
<1>2. ScratchpadDepth \in Nat /\ ScratchpadDepth > 0
  BY SizesAssumption
<1> QED
  BY <1>1, <1>2 DEF Address

-----------------------------------------------------------------------------
(* Types of what the datapath computes.                                    *)

LEMMA BubbleType == Bubble \in Instruction
<1>1. (CHOOSE r \in Registers : TRUE) \in Registers /\ (CHOOSE t \in Tags : TRUE) \in Tags
  BY NonEmptyAssumption
<1>2. NoSource \in Source
  BY <1>1 DEF NoSource, Source
<1> QED
  BY <1>1, <1>2, SmallWords DEF Bubble, Instruction, SingleCycleOps

\* Instructions a pipeline register can hold.
InFlight(ins) == ins = Bubble \/ WellFormed(ins)

LEMMA InFlightType == ASSUME NEW ins, InFlight(ins) PROVE ins \in Instruction
  BY BubbleType DEF InFlight, WellFormed

\* A well-formed instruction reads registers and channels that exist.
LEMMA OperandsType ==
    ASSUME NEW ins, InFlight(ins),
           NEW r \in [Registers -> Word], NEW i \in [InputChannels -> Queue]
    PROVE  Operands(ins, r, i) \in [1 .. 3 -> Word]
<1> SUFFICES ASSUME NEW k \in 1 .. 3
             PROVE  Operand(ins, k, r, i) \in Word
  BY DEF Operands
<1>1. ins.imm \in Word
  BY InFlightType DEF Instruction
<1>2. ASSUME ins.src[k].type = "channel"
      PROVE  HeadData(i, ins.src[k].index) \in Word
  <2> DEFINE c == ins.src[k].index
  <2>1. WellFormed(ins)
    BY <1>2 DEF InFlight, Bubble, NoSource
  <2>2. c \in InputChannels
    BY <1>2, <2>1 DEF WellFormed, Checked, Instruction, Check
  <2>3. i[c] # << >> => Head(i[c]) \in Packet
    BY <2>2 DEF Queue
  <2> QED
    BY <2>2, <2>3, SmallWords DEF HeadData, Packet
<1>3. ASSUME ins.src[k].type = "register"
      PROVE  r[ins.src[k].index] \in Word
  <2>1. WellFormed(ins)
    BY <1>3 DEF InFlight, Bubble, NoSource
  <2> QED
    BY <1>3, <2>1 DEF WellFormed
<1> QED
  BY <1>1, <1>2, <1>3, SmallWords DEF Operand

LEMMA ResultType ==
    ASSUME NEW op, NEW x \in [1 .. 3 -> Word],
           NEW m \in [0 .. ScratchpadDepth - 1 -> Word]
    PROVE  Result(op, x, m) \in Word
<1>1. x[1] \in Word /\ x[1] \in Int /\ x[2] \in Int /\ x[3] \in Int
  <2>1. x[1] \in Word /\ x[2] \in Word /\ x[3] \in Word
    OBVIOUS
  <2> QED
    BY <2>1, WordIsNat
<1>2. Modulo(x[1] + x[2]) \in Word /\ Modulo(x[1] - x[2]) \in Word
  BY <1>1, ModuloType
<1>3. Modulo(x[1] * x[2]) \in Word /\ Modulo(x[1] + x[2] * x[3]) \in Word
  <2>1. x[1] * x[2] \in Int /\ x[1] + x[2] * x[3] \in Int
    BY <1>1
  <2> QED
    BY <2>1, ModuloType
<1>4. m[Address(x[1])] \in Word
  BY <1>1, AddressType
<1>5. Truth(x[1] = x[2]) \in Word /\ Truth(x[1] < x[2]) \in Word
  BY SmallWords DEF Truth
<1> QED
  BY <1>1, <1>2, <1>3, <1>4, <1>5, SmallWords DEF Result

LEMMA StoredType ==
    ASSUME NEW ins, NEW x \in [1 .. 3 -> Word],
           NEW m \in [0 .. ScratchpadDepth - 1 -> Word]
    PROVE  Stored(ins, x, m) \in [0 .. ScratchpadDepth - 1 -> Word]
  BY AddressType DEF Stored

LEMMA RegistersWithType ==
    ASSUME NEW ins, NEW value \in Word, NEW r \in [Registers -> Word]
    PROVE  RegistersWith(r, ins, value) \in [Registers -> Word]
  BY DEF RegistersWith

-----------------------------------------------------------------------------
(* Effects on the architectural state.                                     *)

\* The architectural state with these components.
State(r, p, m, i, o) == [regs |-> r, preds |-> p, spad |-> m, inq |-> i, outq |-> o]

\* The result of an instruction that finds these registers, packets and words.
Value(ins, r, i, m) == Result(ins.op, Operands(ins, r, i), m)

LEMMA StateFields ==
    ASSUME NEW r, NEW p, NEW m, NEW i, NEW o
    PROVE  /\ State(r, p, m, i, o).regs = r /\ State(r, p, m, i, o).preds = p
           /\ State(r, p, m, i, o).spad = m
           /\ State(r, p, m, i, o).inq = i /\ State(r, p, m, i, o).outq = o
  BY DEF State

LEMMA WriteBackState ==
    ASSUME NEW ins, NEW value, NEW r, NEW p, NEW m, NEW i, NEW o
    PROVE  WriteBack(ins, value, State(r, p, m, i, o)) =
             State(RegistersWith(r, ins, value), PredicatesWith(p, ins, value), m, i,
                   Enqueued(o, ins, value))
<1> SUFFICES ASSUME NEW s, s = State(r, p, m, i, o),
                    NEW done, done = WriteBack(ins, value, s),
                    NEW r1, r1 = RegistersWith(r, ins, value),
                    NEW p1, p1 = PredicatesWith(p, ins, value),
                    NEW o1, o1 = Enqueued(o, ins, value)
             PROVE  done = State(r1, p1, m, i, o1)
  OBVIOUS
<1>1. s.regs = r /\ s.preds = p /\ s.outq = o
  BY StateFields
<1>2. done = [s EXCEPT !.regs = r1, !.preds = p1, !.outq = o1]
  BY <1>1 DEF WriteBack
<1> QED
  BY <1>2 DEF State

LEMMA PerformState ==
    ASSUME NEW ins, NEW r, NEW p, NEW m, NEW i, NEW o
    PROVE  Perform(ins, State(r, p, m, i, o)) =
             State(RegistersWith(r, ins, Value(ins, r, i, m)),
                   PredicatesWith(p, ins, Value(ins, r, i, m)),
                   Stored(ins, Operands(ins, r, i), m), Dequeued(i, ins.icd),
                   Enqueued(o, ins, Value(ins, r, i, m)))
<1> SUFFICES ASSUME NEW s, s = State(r, p, m, i, o),
                    NEW m1, m1 = Stored(ins, Operands(ins, r, i), m),
                    NEW i1, i1 = Dequeued(i, ins.icd),
                    NEW consumed, consumed = [s EXCEPT !.spad = m1, !.inq = i1]
             PROVE  Perform(ins, s) =
                      State(RegistersWith(r, ins, Value(ins, r, i, m)),
                            PredicatesWith(p, ins, Value(ins, r, i, m)), m1, i1,
                            Enqueued(o, ins, Value(ins, r, i, m)))
  OBVIOUS
<1>1. s.regs = r /\ s.spad = m /\ s.inq = i
  BY StateFields
<1>2. Perform(ins, s) = WriteBack(ins, Value(ins, r, i, m), consumed)
  BY <1>1 DEF Perform, Value
<1>3. consumed = State(r, p, m1, i1, o)
  BY DEF State
<1> QED
  BY <1>2, <1>3, WriteBackState

LEMMA ExecuteState ==
    ASSUME NEW ins, NEW r, NEW p, NEW m, NEW i, NEW o
    PROVE  Execute(ins, State(r, p, m, i, o)) =
             State(RegistersWith(r, ins, Value(ins, r, i, m)),
                   Masked(PredicatesWith(p, ins, Value(ins, r, i, m)), ins),
                   Stored(ins, Operands(ins, r, i), m), Dequeued(i, ins.icd),
                   Enqueued(o, ins, Value(ins, r, i, m)))
<1> SUFFICES ASSUME NEW r1, r1 = RegistersWith(r, ins, Value(ins, r, i, m)),
                    NEW p1, p1 = PredicatesWith(p, ins, Value(ins, r, i, m)),
                    NEW m1, m1 = Stored(ins, Operands(ins, r, i), m),
                    NEW i1, i1 = Dequeued(i, ins.icd),
                    NEW o1, o1 = Enqueued(o, ins, Value(ins, r, i, m)),
                    NEW done, done = Perform(ins, State(r, p, m, i, o)),
                    NEW p2, p2 = Masked(p1, ins)
             PROVE  Execute(ins, State(r, p, m, i, o)) = State(r1, p2, m1, i1, o1)
  OBVIOUS
<1>1. done = State(r1, p1, m1, i1, o1)
  BY PerformState
<1>2. done.preds = p1
  BY <1>1, StateFields
<1>3. Execute(ins, State(r, p, m, i, o)) = [done EXCEPT !.preds = p2]
  BY <1>2 DEF Execute
<1> QED
  BY <1>1, <1>3 DEF State

\* A bubble has no effects.
LEMMA BubbleEffects ==
    ASSUME NEW r, NEW p, NEW m, NEW value, NEW x,
           NEW i \in [InputChannels -> Queue], NEW o \in [OutputChannels -> Queue]
    PROVE  /\ RegistersWith(r, Bubble, value) = r
           /\ PredicatesWith(p, Bubble, value) = p
           /\ Stored(Bubble, x, m) = m
           /\ Dequeued(i, Bubble.icd) = i
           /\ Enqueued(o, Bubble, value) = o
           /\ Masked(p, Bubble) = p \/ p \notin SUBSET Predicates
<1>1. RegistersWith(r, Bubble, value) = r /\ PredicatesWith(p, Bubble, value) = p
      /\ Stored(Bubble, x, m) = m
  BY BubbleFields DEF RegistersWith, PredicatesWith, Stored
<1>2. Dequeued(i, {}) = i
  BY DEF Dequeued
<1>3. Enqueued(o, Bubble, value) = o
  BY BubbleFields DEF Enqueued
<1>4. p \in SUBSET Predicates => Masked(p, Bubble) = p
  BY BubbleFields DEF Masked
<1> QED
  BY <1>1, <1>2, <1>3, <1>4, BubbleFields

\* The mask and the result of an instruction touch different predicates.
LEMMA MaskCommutes ==
    ASSUME NEW ins, WellFormed(ins), NEW p, NEW value
    PROVE  /\ PredicatesWith(Masked(p, ins), ins, value) =
                 Masked(PredicatesWith(p, ins, value), ins)
           /\ WritesPredicate(ins) =>
                 Masked(PredicatesWith(p, ins, value), ins) =
                    IF value # 0 THEN Masked(p, ins) \cup {ins.di}
                                 ELSE Masked(p, ins) \ {ins.di}
<1>1. CASE ~WritesPredicate(ins)
  BY <1>1 DEF PredicatesWith
<1>2. CASE WritesPredicate(ins)
  <2>1. ins.di \notin ins.set /\ ins.di \notin ins.unset
    BY <1>2 DEF WellFormed
  <2> QED
    BY <1>2, <2>1 DEF PredicatesWith, Masked
<1> QED
  BY <1>1, <1>2

-----------------------------------------------------------------------------
(* Queues between two edges.                                               *)

\* A queue and the packets behind the first.
LEMMA QueueFront ==
    ASSUME NEW q \in Queue
    PROVE  /\ Len(q) \in Nat /\ q = << >> <=> Len(q) = 0
           /\ q # << >> => /\ Tail(q) \in Queue /\ Len(Tail(q)) = Len(q) - 1
                           /\ (Tail(q) = << >>) <=> Len(q) <= 1
           /\ Len(q) > 1 => Tail(q)[1] = q[2]
<1> DEFINE P == Packet
<1>1. q \in Seq(P)
  BY DEF Queue
<1> HIDE DEF P
<1>2. Len(q) \in Nat /\ (q = << >> <=> Len(q) = 0)
  BY <1>1
<1>3. q # << >> => Tail(q) \in Seq(P) /\ Len(Tail(q)) = Len(q) - 1
  BY <1>1
<1>4. q # << >> => ((Tail(q) = << >>) <=> Len(q) <= 1)
  <2> DEFINE rest == Tail(q)
  <2>1. \A s \in Seq(P) : s = << >> <=> Len(s) = 0
    OBVIOUS
  <2>2. q # << >> => (rest = << >> <=> Len(rest) = 0)
    BY <1>3, <2>1
  <2>3. q # << >> => Len(rest) = Len(q) - 1 /\ Len(q) > 0
    BY <1>2, <1>3
  <2> HIDE DEF rest
  <2>4. q # << >> => (rest = << >> <=> Len(q) <= 1)
    BY <1>2, <2>2, <2>3
  <2> QED
    BY <2>4 DEF rest
<1>5. ASSUME Len(q) > 1 PROVE Tail(q)[1] = q[2]
  <2>1. 1 \in 1 .. Len(q) - 1
    BY <1>2, <1>5
  <2> QED
    BY <1>1, <1>2, <1>5, <2>1
<1> QED
  BY <1>2, <1>3, <1>4, <1>5 DEF Queue, P

LEMMA QueueBack ==
    ASSUME NEW q \in Queue, NEW p \in Packet, NEW enqueue \in BOOLEAN,
           NEW next, next = IF enqueue THEN Append(q, p) ELSE q
    PROVE  next \in Queue /\ Len(q) \in Nat /\ Len(next) = Len(q) + (IF enqueue THEN 1 ELSE 0)
<1> DEFINE P == Packet
<1>1. q \in Seq(P) /\ p \in P
  BY DEF Queue
<1> HIDE DEF P
<1>2. next \in Seq(P) /\ Len(q) \in Nat /\ Len(next) = Len(q) + (IF enqueue THEN 1 ELSE 0)
  BY <1>1
<1> QED
  BY <1>2 DEF Queue, P

\* A queue that may have received a packet at its back, and one that may have lost
\* the packet at its front.
Grows(q, next)   == next = q \/ \E p \in Packet : next = Append(q, p)
Shrinks(q, next) == next = q \/ (q # << >> /\ next = Tail(q))

InputsGrow(i, next)    == \A c \in InputChannels : Grows(i[c], next[c])
OutputsShrink(o, next) == \A c \in OutputChannels : Shrinks(o[c], next[c])

LEMMA GrowingQueue ==
    ASSUME NEW q \in Queue, NEW next, Grows(q, next), q # << >>
    PROVE  /\ next # << >> /\ Head(next) = Head(q) /\ Grows(Tail(q), Tail(next))
<1>1. CASE next = q
  BY <1>1 DEF Grows
<1>2. ASSUME NEW p \in Packet, next = Append(q, p)
      PROVE  next # << >> /\ Head(next) = Head(q) /\ Tail(next) = Append(Tail(q), p)
  <2>1. q \in Seq(Packet) /\ Len(q) >= 1
    BY DEF Queue
  <2>2. Tail(Append(q, p)) = Append(Tail(q), p)
    BY <2>1
  <2> QED
    BY <1>2, <2>1, <2>2
<1> QED
  BY <1>1, <1>2 DEF Grows

LEMMA ShrinkingQueue ==
    ASSUME NEW q \in Queue, NEW next, Shrinks(q, next), NEW p \in Packet
    PROVE  /\ next \in Queue /\ Shrinks(Append(q, p), Append(next, p))
<1>1. CASE next = q
  BY <1>1 DEF Shrinks
<1>2. CASE q # << >> /\ next = Tail(q)
  <2>1. q \in Seq(Packet) /\ Len(q) >= 1
    BY <1>2 DEF Queue
  <2>2. Tail(Append(q, p)) = Append(Tail(q), p) /\ Append(q, p) # << >>
    BY <2>1
  <2>3. Tail(q) \in Queue
    BY <2>1 DEF Queue
  <2> QED
    BY <1>2, <2>2, <2>3 DEF Shrinks
<1> QED
  BY <1>1, <1>2 DEF Shrinks

LEMMA DequeuedGrows ==
    ASSUME NEW i \in [InputChannels -> Queue], NEW next, InputsGrow(i, next),
           NEW icd, \A c \in icd : c \in InputChannels => i[c] # << >>
    PROVE  InputsGrow(Dequeued(i, icd), Dequeued(next, icd))
<1> SUFFICES ASSUME NEW c \in InputChannels
             PROVE  Grows(Dequeued(i, icd)[c], Dequeued(next, icd)[c])
  BY DEF InputsGrow
<1>1. Grows(i[c], next[c]) /\ i[c] \in Queue
  BY DEF InputsGrow
<1>2. CASE c \in icd
  <2>1. i[c] # << >> /\ next[c] # << >> /\ Grows(Tail(i[c]), Tail(next[c]))
    BY <1>1, <1>2, GrowingQueue
  <2> QED
    BY <1>2, <2>1 DEF Dequeued
<1>3. CASE c \notin icd
  BY <1>1, <1>3 DEF Dequeued
<1> QED
  BY <1>2, <1>3

LEMMA EnqueuedShrinks ==
    ASSUME NEW o \in [OutputChannels -> Queue], NEW next, OutputsShrink(o, next),
           NEW ins, InFlight(ins), NEW value \in Word
    PROVE  OutputsShrink(Enqueued(o, ins, value), Enqueued(next, ins, value))
<1> SUFFICES ASSUME NEW c \in OutputChannels
             PROVE  Shrinks(Enqueued(o, ins, value)[c], Enqueued(next, ins, value)[c])
  BY DEF OutputsShrink
<1>1. Shrinks(o[c], next[c]) /\ o[c] \in Queue
  BY DEF OutputsShrink
<1>2. [tag |-> ins.oct, data |-> value] \in Packet
  BY InFlightType DEF Instruction, Packet
<1> QED
  BY <1>1, <1>2, ShrinkingQueue DEF Enqueued

LEMMA EnqueuedType ==
    ASSUME NEW o \in [OutputChannels -> Queue], NEW ins, InFlight(ins), NEW value \in Word
    PROVE  Enqueued(o, ins, value) \in [OutputChannels -> Queue]
<1>1. [tag |-> ins.oct, data |-> value] \in Packet
  BY InFlightType DEF Instruction, Packet
<1>2. \A c \in OutputChannels : Append(o[c], [tag |-> ins.oct, data |-> value]) \in Queue
  BY <1>1 DEF Queue
<1> QED
  BY <1>2 DEF Enqueued

LEMMA EnqueuedLength ==
    ASSUME NEW o \in [OutputChannels -> Queue], NEW ins, InFlight(ins), NEW value \in Word,
           NEW c \in OutputChannels
    PROVE  /\ Len(o[c]) \in Nat
           /\ c \in ins.oci => Len(Enqueued(o, ins, value)[c]) = Len(o[c]) + 1
           /\ c \notin ins.oci => Len(Enqueued(o, ins, value)[c]) = Len(o[c])
<1> DEFINE packet == [tag |-> ins.oct, data |-> value]
           q == o[c]
           next == Enqueued(o, ins, value)[c]
           enqueue == c \in ins.oci
<1>1. q \in Queue /\ packet \in Packet /\ enqueue \in BOOLEAN
  BY InFlightType DEF Instruction, Packet
<1>2. next = IF enqueue THEN Append(q, packet) ELSE q
  BY DEF Enqueued
<1> HIDE DEF packet, q, next, enqueue
<1>3. Len(q) \in Nat /\ Len(next) = Len(q) + (IF enqueue THEN 1 ELSE 0)
  BY <1>1, <1>2, QueueBack
<1>4. (enqueue => Len(next) = Len(q) + 1) /\ (~enqueue => Len(next) = Len(q))
  BY <1>3
<1> QED
  BY <1>3, <1>4 DEF q, next, enqueue

LEMMA DequeuedType ==
    ASSUME NEW i \in [InputChannels -> Queue], NEW icd
    PROVE  Dequeued(i, icd) \in [InputChannels -> Queue]
<1>1. \A c \in InputChannels : i[c] # << >> => Tail(i[c]) \in Queue
  BY DEF Queue
<1> QED
  BY <1>1 DEF Dequeued

\* An instruction reads the heads of the channels its trigger has checked, and those
\* do not change when a packet arrives behind them.
LEMMA OperandsKept ==
    ASSUME NEW ins, WellFormed(ins), NEW i \in [InputChannels -> Queue], NEW next,
           InputsGrow(i, next), \A c \in Checked(ins) : i[c] # << >>, NEW r
    PROVE  Operands(ins, r, next) = Operands(ins, r, i)
<1>1. ASSUME NEW k \in 1 .. 3, ins.src[k].type = "channel"
      PROVE  HeadData(next, ins.src[k].index) = HeadData(i, ins.src[k].index)
  <2> DEFINE c == ins.src[k].index
  <2>1. c \in Checked(ins)
    BY <1>1 DEF WellFormed
  <2>2. c \in InputChannels
    BY <2>1 DEF WellFormed, Instruction, Check, Checked
  <2>3. i[c] \in Queue /\ i[c] # << >> /\ Grows(i[c], next[c])
    BY <2>1, <2>2 DEF InputsGrow
  <2> HIDE DEF c
  <2>4. next[c] # << >> /\ Head(next[c]) = Head(i[c])
    BY <2>3, GrowingQueue
  <2> QED
    BY <2>3, <2>4 DEF HeadData, c
<1>2. \A k \in 1 .. 3 : Operand(ins, k, r, next) = Operand(ins, k, r, i)
  BY <1>1 DEF Operand
<1> QED
  BY <1>2 DEF Operands

-----------------------------------------------------------------------------
(* Steps of the machine between two states.                                *)

\* What neighbours do to the queues of s in a cycle that ends in next, where out are
\* the output queues before it.
Surroundings(s, out, next) ==
    /\ \A c \in InputChannels : Grows(s.inq[c], next.inq[c])
    /\ \A c \in OutputChannels :
          \/ next.outq[c] = s.outq[c]
          \/ out[c] # << >> /\ next.outq[c] = Tail(s.outq[c])

LEMMA IdleSurroundings ==
    ASSUME NEW s, NEW t, InputsGrow(s.inq, t.inq), OutputsShrink(s.outq, t.outq)
    PROVE  Surroundings(s, s.outq, t)
  BY DEF Surroundings, InputsGrow, OutputsShrink, Shrinks

\* An instruction that performs on queues that have grown at the back since its
\* trigger does what it would have done before, and the queues differ as before.
LEMMA FiresLater ==
    ASSUME NEW ins, WellFormed(ins), NEW r, NEW m,
           NEW i \in [InputChannels -> Queue], NEW i2, InputsGrow(i, i2),
           \A c \in Checked(ins) : i[c] # << >>
    PROVE  /\ Operands(ins, r, i2) = Operands(ins, r, i)
           /\ Value(ins, r, i2, m) = Value(ins, r, i, m)
           /\ InputsGrow(Dequeued(i, ins.icd), Dequeued(i2, ins.icd))
<1>1. Operands(ins, r, i2) = Operands(ins, r, i)
  BY OperandsKept
<1>2. \A c \in ins.icd : c \in InputChannels => i[c] # << >>
  BY DEF WellFormed
<1> QED
  BY <1>1, <1>2, DequeuedGrows DEF Value

\* An instruction performs its effects while neighbours send and take packets.
LEMMA FireSurroundings ==
    ASSUME NEW ins, WellFormed(ins), NEW r \in [Registers -> Word], NEW p,
           NEW m \in [0 .. ScratchpadDepth - 1 -> Word],
           NEW i \in [InputChannels -> Queue], NEW i2, InputsGrow(Dequeued(i, ins.icd), i2),
           NEW o \in [OutputChannels -> Queue], NEW o2, OutputsShrink(o, o2),
           NEW v, v = Value(ins, r, i, m),
           NEW s, s = State(r, p, m, i, o),
           NEW t, t = State(RegistersWith(r, ins, v), Masked(PredicatesWith(p, ins, v), ins),
                            Stored(ins, Operands(ins, r, i), m), i2, Enqueued(o2, ins, v))
    PROVE  /\ t.regs = Execute(ins, s).regs /\ t.preds = Execute(ins, s).preds
           /\ t.spad = Execute(ins, s).spad
           /\ Surroundings(Execute(ins, s), s.outq, t)
<1>1. Execute(ins, s) = State(RegistersWith(r, ins, v), Masked(PredicatesWith(p, ins, v), ins),
                              Stored(ins, Operands(ins, r, i), m), Dequeued(i, ins.icd),
                              Enqueued(o, ins, v))
  BY ExecuteState
<1>2. /\ Execute(ins, s).inq = Dequeued(i, ins.icd) /\ Execute(ins, s).outq = Enqueued(o, ins, v)
      /\ t.inq = i2 /\ t.outq = Enqueued(o2, ins, v) /\ s.outq = o
  BY <1>1, StateFields
<1>3. v \in Word
  <2>1. Operands(ins, r, i) \in [1 .. 3 -> Word]
    BY OperandsType DEF InFlight
  <2> QED
    BY <2>1, ResultType DEF Value
<1>4. ASSUME NEW c \in OutputChannels
      PROVE  \/ Enqueued(o2, ins, v)[c] = Enqueued(o, ins, v)[c]
             \/ o[c] # << >> /\ Enqueued(o2, ins, v)[c] = Tail(Enqueued(o, ins, v)[c])
  <2> DEFINE packet == [tag |-> ins.oct, data |-> v]
  <2>1. packet \in Packet
    BY <1>3 DEF WellFormed, Instruction, Packet
  <2>2. o[c] \in Seq(Packet) /\ Shrinks(o[c], o2[c])
    BY DEF OutputsShrink, Queue
  <2> HIDE DEF packet
  <2>3. o[c] # << >> => Tail(Append(o[c], packet)) = Append(Tail(o[c]), packet)
    BY <2>1, <2>2
  <2> QED
    BY <2>2, <2>3 DEF Enqueued, Shrinks, packet
<1>5. Surroundings(Execute(ins, s), s.outq, t)
  BY <1>2, <1>4 DEF Surroundings, InputsGrow
<1> QED
  BY <1>1, <1>5, StateFields

-----------------------------------------------------------------------------
(* Trigger resolution.                                                     *)

\* The trigger stage yields a bubble or a well-formed instruction that fits the
\* channel status, and a bubble unless the core executes.
LEMMA TriggeredFits ==
    ASSUME prog \in Programs, NEW empty, NEW full, NEW tag,
           NEW T, T = TriggeredInstruction(empty, full, tag)
    PROVE  /\ InFlight(T)
           /\ T = Bubble \/ T.vi
           /\ T = Bubble \/ \E i \in DOMAIN prog : T = prog[i]
           /\ ~(internalEnable /\ execute /\ ~halted) => T = Bubble
           /\ \A c \in T.icd : c \in InputChannels /\ c \notin empty
           /\ \A c \in T.oci : c \notin full
<1> DEFINE indices == TriggeredIndices(empty, full, tag)
<1>1. CASE internalEnable /\ execute /\ ~halted /\ indices # {}
  <2>1. indices \subseteq DOMAIN prog /\ DOMAIN prog \subseteq Nat
    BY ProgramsAssumption DEF TriggeredIndices
  <2>2. Lowest(indices) \in indices
    BY <1>1, <2>1, LowestIsMember
  <2>3. T = prog[Lowest(indices)]
    BY <1>1 DEF TriggeredInstruction
  <2>4. PICK i \in indices : T = prog[i]
    BY <2>2, <2>3
  <2>5. i \in DOMAIN prog /\ Triggered(T, preds, empty, full, tag)
    BY <2>4 DEF TriggeredIndices
  <2>6. WellFormed(T)
    BY <2>4, <2>5, ProgramsAssumption
  <2>7. \A c \in T.icd : c \in InputChannels /\ c \in Checked(T)
    BY <2>6 DEF WellFormed, Instruction
  <2>8. \A c \in Checked(T) : c \notin empty
    BY <2>5 DEF Triggered, Checked
  <2> QED
    BY <1>1, <2>4, <2>5, <2>6, <2>7, <2>8 DEF Triggered, InFlight
<1>2. CASE ~(internalEnable /\ execute /\ ~halted /\ indices # {})
  <2>1. T = Bubble
    BY <1>2 DEF TriggeredInstruction
  <2> QED
    BY <2>1, BubbleFields DEF InFlight
<1> QED
  BY <1>1, <1>2

-----------------------------------------------------------------------------
(* Types.                                                                  *)

LEMMA UnitsInit == InitUnits => UnitsTypeOK
<1> SUFFICES ASSUME InitUnits PROVE UnitsTypeOK
  OBVIOUS
<1>1. \A q \in {<< >>} : q \in Queue /\ Len(q) = 0
  BY DEF Queue
<1>2. ChannelDepth \in Nat
  BY SizesAssumption
<1>3. prog \in Seq(Instruction)
  BY ProgramsAssumption DEF InitUnits
<1>4. regs \in [Registers -> Word] /\ spad \in [0 .. ScratchpadDepth - 1 -> Word]
  BY SmallWords DEF InitUnits
<1>5. inq \in [InputChannels -> Queue] /\ \A c \in InputChannels : Len(inq[c]) <= ChannelDepth
  BY <1>1, <1>2 DEF InitUnits
<1>6. outq \in [OutputChannels -> Queue] /\ \A c \in OutputChannels : Len(outq[c]) <= ChannelDepth
  BY <1>1, <1>2 DEF InitUnits
<1>7. /\ predictor \in [Predicates -> PredictorStates]
      /\ preds \in SUBSET Predicates /\ savedPreds \in SUBSET Predicates
  BY DEF InitUnits, PredictorStates
<1> QED
  BY <1>3, <1>4, <1>5, <1>6, <1>7 DEF InitUnits, UnitsTypeOK

LEMMA WriterIndex ==
    ASSUME NEW ins, InFlight(ins), WritesPredicate(ins)
    PROVE  ins.di \in Predicates
  BY BubbleFields DEF InFlight, WellFormed

LEMMA PredicateUnitType ==
    ASSUME UnitsTypeOK, NEW h, NEW r, NEW v \in BOOLEAN,
           InFlight(h), InFlight(r), PredicateUnit(h, r, v)
    PROVE  /\ preds' \in SUBSET Predicates
           /\ predictor' \in [Predicates -> PredictorStates]
           /\ speculating' \in BOOLEAN /\ savedPrediction' \in BOOLEAN
           /\ savedPreds' \in SUBSET Predicates
<1>1. h.set \subseteq Predicates /\ h.unset \subseteq Predicates
  BY InFlightType DEF Instruction
<1>2. NextPreds(h, r, v) \in SUBSET Predicates
  <2>1. WritesPredicate(r) => {r.di} \subseteq Predicates
    BY WriterIndex
  <2> QED
    BY <1>1, <2>1 DEF NextPreds, UnitsTypeOK
<1>3. BeginSpeculation(h, r, v) =>
        \A value \in BOOLEAN : WithPrediction(value, h, r, v) \in SUBSET Predicates
  <2>1. BeginSpeculation(h, r, v) => h.di \in Predicates
    BY WriterIndex DEF BeginSpeculation
  <2> QED
    BY <1>2, <2>1 DEF WithPrediction
<1>4. \A state \in PredictorStates : NextPrediction(state, v) \in PredictorStates
  BY DEF PredictorStates, NextPrediction
<1>5. Prediction(h) \in BOOLEAN
  BY DEF Prediction
<1>6. predictor' \in [Predicates -> PredictorStates]
  <2>1. predictor \in [Predicates -> PredictorStates]
    BY DEF UnitsTypeOK
  <2>2. CASE internalEnable /\ HasSpeculativePredicateUnit /\ WritesPredicate(r)
    <3>1. predictor' = [predictor EXCEPT ![r.di] = NextPrediction(@, v)]
      BY <2>2 DEF PredicateUnit
    <3>2. r.di \in Predicates
      BY <2>2, WriterIndex
    <3>3. NextPrediction(predictor[r.di], v) \in PredictorStates
      BY <1>4, <2>1, <3>2
    <3> QED
      BY <2>1, <3>1, <3>3
  <2>3. CASE ~(internalEnable /\ HasSpeculativePredicateUnit /\ WritesPredicate(r))
    BY <2>1, <2>3 DEF PredicateUnit, predicateUnit
  <2> QED
    BY <2>2, <2>3
<1>7. speculating' \in BOOLEAN
  BY DEF PredicateUnit, predicateUnit, BeginSpeculation, StillSpeculating, UnitsTypeOK
<1>8. savedPrediction' \in BOOLEAN
  BY <1>5 DEF PredicateUnit, predicateUnit, UnitsTypeOK
<1>9. savedPreds' \in SUBSET Predicates /\ preds' \in SUBSET Predicates
  BY <1>2, <1>3, <1>5 DEF PredicateUnit, predicateUnit, UnitsTypeOK
<1> QED
  BY <1>6, <1>7, <1>8, <1>9

\* An input channel buffer after an edge: it stays within its depth, and is not
\* empty if a packet stood behind the one dequeued.
LEMMA InputChannelStep ==
    ASSUME UnitsTypeOK, NEW c \in InputChannels, NEW dequeue \in BOOLEAN,
           NEW p \in Arriving \cup {NoPacket}
    PROVE  /\ InputChannelAfter(c, dequeue, p) \in Queue
           /\ Len(InputChannelAfter(c, dequeue, p)) <= ChannelDepth
           /\ Len(inq[c]) > (IF dequeue THEN 1 ELSE 0) =>
                 InputChannelAfter(c, dequeue, p) # << >>
<1> DEFINE q == inq[c]
           rest == IF dequeue THEN Tail(q) ELSE q
           after == InputChannelAfter(c, dequeue, p)
<1>1. q \in Queue /\ q \in Seq(Packet) /\ Len(q) \in Nat /\ Len(q) <= ChannelDepth
  BY DEF UnitsTypeOK, Queue
<1>2. p # NoPacket => p \in Packet
  BY PacketsAssumption
<1>3. ChannelDepth \in Nat /\ ChannelDepth > 0
  BY SizesAssumption
<1>4. q # << >> => Tail(q) \in Seq(Packet) /\ Len(Tail(q)) = Len(q) - 1 /\ Len(q) > 0
  BY <1>1
<1>5. \A s \in Seq(Packet) : p # NoPacket =>
        Append(s, p) \in Seq(Packet) /\ Len(Append(s, p)) = Len(s) + 1
  BY <1>2
<1>6. \A s \in Seq(Packet) : s = << >> <=> Len(s) = 0
  OBVIOUS
<1>7. << >> \in Seq(Packet) /\ Len(<< >>) = 0
  OBVIOUS
<1>8. CASE dequeue /\ q = << >>
  BY <1>1, <1>3, <1>6, <1>7, <1>8 DEF InputChannelAfter, Queue
<1>9. CASE ~(dequeue /\ q = << >>)
  <2>1. rest \in Seq(Packet) /\ Len(rest) = Len(q) - (IF dequeue THEN 1 ELSE 0)
    BY <1>1, <1>4, <1>9
  <2>2. after = IF p # NoPacket /\ Len(q) # ChannelDepth THEN Append(rest, p) ELSE rest
    BY <1>9 DEF InputChannelAfter
  <2>3. Len(rest) \in Nat
    BY <2>1
  <2> HIDE DEF q, rest, after
  <2>4. /\ after \in Queue /\ Len(after) <= ChannelDepth
        /\ Len(q) > (IF dequeue THEN 1 ELSE 0) => after # << >>
    BY <1>1, <1>3, <1>5, <1>6, <1>7, <2>1, <2>2, <2>3 DEF Queue
  <2> QED
    BY <2>4 DEF q, after
<1> QED
  BY <1>8, <1>9

\* An output channel buffer after an edge: it stays within its depth and grows
\* by at most the packet sent to it.
LEMMA OutputChannelStep ==
    ASSUME UnitsTypeOK, NEW c \in OutputChannels, NEW enqueue \in BOOLEAN,
           NEW packet \in Packet, NEW acknowledged \in BOOLEAN
    PROVE  /\ OutputChannelAfter(c, enqueue, packet, acknowledged) \in Queue
           /\ Len(OutputChannelAfter(c, enqueue, packet, acknowledged)) <= ChannelDepth
           /\ Len(OutputChannelAfter(c, enqueue, packet, acknowledged))
                <= Len(outq[c]) + (IF enqueue THEN 1 ELSE 0)
<1> DEFINE q == outq[c]
           rest == IF acknowledged /\ q # << >> THEN Tail(q) ELSE q
           after == OutputChannelAfter(c, enqueue, packet, acknowledged)
<1>1. q \in Queue /\ q \in Seq(Packet) /\ Len(q) \in Nat /\ Len(q) <= ChannelDepth
  BY DEF UnitsTypeOK, Queue
<1>2. ChannelDepth \in Nat
  BY SizesAssumption
<1>3. q # << >> => Tail(q) \in Seq(Packet) /\ Len(Tail(q)) = Len(q) - 1
  BY <1>1
<1>4. \A s \in Seq(Packet) :
        Append(s, packet) \in Seq(Packet) /\ Len(Append(s, packet)) = Len(s) + 1
  OBVIOUS
<1>5. rest \in Seq(Packet) /\ Len(rest) \in Nat /\ Len(rest) <= Len(q)
  BY <1>1, <1>3
<1>6. after = IF enqueue /\ Len(q) = ChannelDepth THEN q
              ELSE IF enqueue THEN Append(rest, packet) ELSE rest
  BY DEF OutputChannelAfter
<1> HIDE DEF q, rest, after
<1>7. after \in Queue
  BY <1>1, <1>4, <1>5, <1>6 DEF Queue
<1>8. Len(after) <= ChannelDepth
  BY <1>1, <1>2, <1>4, <1>5, <1>6
<1>9. Len(after) <= Len(q) + (IF enqueue THEN 1 ELSE 0)
  BY <1>1, <1>2, <1>4, <1>5, <1>6
<1> QED
  BY <1>7, <1>8, <1>9 DEF q, after

-----------------------------------------------------------------------------
(* Channels at an edge.                                                    *)

\* An edge that dequeues from channels that hold a packet.
LEMMA InputEdge ==
    ASSUME UnitsTypeOK, NEW icd, \A c \in icd : c \in InputChannels => inq[c] # << >>,
           NEW arriving \in [InputChannels -> Arriving \cup {NoPacket}]
    PROVE  InputsGrow(Dequeued(inq, icd),
                      [c \in InputChannels |-> InputChannelAfter(c, c \in icd, arriving[c])])
<1> SUFFICES ASSUME NEW c \in InputChannels
             PROVE  Grows(Dequeued(inq, icd)[c], InputChannelAfter(c, c \in icd, arriving[c]))
  BY DEF InputsGrow
<1>1. arriving[c] # NoPacket => arriving[c] \in Packet
  BY PacketsAssumption
<1>2. c \in icd => inq[c] # << >>
  OBVIOUS
<1> QED
  BY <1>1, <1>2 DEF InputChannelAfter, Dequeued, Grows

\* An edge that enqueues to channels with room.
LEMMA OutputEdge ==
    ASSUME UnitsTypeOK, NEW ins, InFlight(ins), NEW value \in Word,
           \A c \in ins.oci : Len(outq[c]) < ChannelDepth, NEW acknowledged
    PROVE  OutputsShrink(Enqueued(outq, ins, value),
                         [c \in OutputChannels |->
                            OutputChannelAfter(c, c \in ins.oci,
                                               [tag |-> ins.oct, data |-> value],
                                               c \in acknowledged)])
<1> DEFINE packet == [tag |-> ins.oct, data |-> value]
<1> SUFFICES ASSUME NEW c \in OutputChannels
             PROVE  Shrinks(Enqueued(outq, ins, value)[c],
                            OutputChannelAfter(c, c \in ins.oci, packet, c \in acknowledged))
  BY DEF OutputsShrink
<1>1. packet \in Packet
  BY InFlightType DEF Instruction, Packet
<1>2. outq[c] \in Queue /\ Len(outq[c]) \in Nat
  BY DEF UnitsTypeOK, Queue
<1>3. c \in ins.oci => Len(outq[c]) # ChannelDepth
  BY <1>2, SizesAssumption
<1> DEFINE rest == IF c \in acknowledged /\ outq[c] # << >> THEN Tail(outq[c]) ELSE outq[c]
<1>4. Shrinks(outq[c], rest)
  BY DEF Shrinks
<1>5. Shrinks(Append(outq[c], packet), Append(rest, packet))
  <2> HIDE DEF rest, packet
  <2> QED
    BY <1>1, <1>2, <1>4, ShrinkingQueue
<1>6. Enqueued(outq, ins, value)[c] = IF c \in ins.oci THEN Append(outq[c], packet) ELSE outq[c]
  BY DEF Enqueued
<1>7. OutputChannelAfter(c, c \in ins.oci, packet, c \in acknowledged) =
        IF c \in ins.oci THEN Append(rest, packet) ELSE rest
  BY <1>3 DEF OutputChannelAfter
<1> QED
  BY <1>4, <1>5, <1>6, <1>7

-----------------------------------------------------------------------------
(* The trigger stage.                                                      *)

Waits(ins) == ins.checks # {} \/ ins.oci # {}

\* The channels without a packet and without room, and the tags at the heads.
NoPackets(i) == {c \in InputChannels : i[c] = << >>}
NoRoom(o)    == {c \in OutputChannels : Len(o[c]) >= ChannelDepth}
HeadTags(i)  == [c \in InputChannels \ NoPackets(i) |-> Head(i[c]).tag]

\* The trigger stage takes an instruction the machine may fire on these queues, when
\* it has been shown their status: exactly, or with channels taken to be empty or
\* full that are not.
LEMMA TriggerAgrees ==
    ASSUME prog \in Programs, NEW empty, NEW full, NEW tag,
           NEW T, T = TriggeredInstruction(empty, full, tag), T # Bubble,
           NEW i, NEW o,
           NoPackets(i) \subseteq empty, NoRoom(o) \subseteq full,
           HasFullInformation => empty = NoPackets(i) /\ full = NoRoom(o),
           \A c \in InputChannels \ empty : tag[c] = Head(i[c]).tag
    PROVE  \E n \in DOMAIN prog :
              /\ T = prog[n]
              /\ Triggered(prog[n], preds, NoPackets(i), NoRoom(o), HeadTags(i))
              /\ \A j \in DOMAIN prog :
                    Triggered(prog[j], preds, NoPackets(i), NoRoom(o), HeadTags(i)) /\ j < n
                      => ~HasFullInformation /\ Waits(prog[j])
<1> DEFINE indices == TriggeredIndices(empty, full, tag)
           n == Lowest(indices)
<1>1. indices # {} /\ T = prog[n]
  BY DEF TriggeredInstruction
<1>2. indices \subseteq DOMAIN prog /\ DOMAIN prog \subseteq Nat
  BY ProgramsAssumption DEF TriggeredIndices
<1>3. n \in indices /\ \A j \in indices : n <= j
  BY <1>1, <1>2, LowestIsMember
<1> HIDE DEF n
<1>4. n \in DOMAIN prog /\ n \in Nat /\ Triggered(prog[n], preds, empty, full, tag)
  BY <1>2, <1>3 DEF TriggeredIndices
<1>5. \A c \in InputChannels \ empty : HeadTags(i)[c] = tag[c]
  BY DEF HeadTags, NoPackets
<1>6. \A j \in DOMAIN prog : \A k \in prog[j].checks : k.channel \in InputChannels
  BY ProgramsAssumption DEF WellFormed, Instruction, Check
<1>7. Triggered(prog[n], preds, NoPackets(i), NoRoom(o), HeadTags(i))
  <2>1. \A k \in prog[n].checks : /\ k.channel \notin NoPackets(i)
                                 /\ (HeadTags(i)[k.channel] = k.tag) = k.is
    BY <1>4, <1>5, <1>6 DEF Triggered
  <2> QED
    BY <1>4, <2>1 DEF Triggered
<1>8. ASSUME NEW j \in DOMAIN prog, j < n,
             Triggered(prog[j], preds, NoPackets(i), NoRoom(o), HeadTags(i))
      PROVE  ~HasFullInformation /\ Waits(prog[j])
  <2>1. ~Triggered(prog[j], preds, empty, full, tag)
    <3>1. j \in Nat
      BY <1>2
    <3>2. j \notin indices
      BY <1>3, <1>4, <1>8, <3>1
    <3> QED
      BY <3>2 DEF TriggeredIndices
  <2>2. ~HasFullInformation
    <3>1. HasFullInformation => Triggered(prog[j], preds, empty, full, tag)
      BY <1>5, <1>6, <1>8 DEF Triggered
    <3> QED
      BY <2>1, <3>1
  <2>3. Waits(prog[j])
    BY <1>8, <2>1 DEF Waits, Triggered
  <2> QED
    BY <2>2, <2>3
<1> QED
  BY <1>1, <1>4, <1>7, <1>8

\* The channels behind pending dequeues: which of them the status updater takes to be
\* empty, and the packets at the heads of the others.
LEMMA InputStatus ==
    ASSUME UnitsTypeOK, NEW icd, \A c \in icd : c \in InputChannels => inq[c] # << >>,
           NEW i, i = Dequeued(inq, icd)
    PROVE  /\ NoPackets(i) \subseteq EmptyBehind(icd)
           /\ HasFullInformation => EmptyBehind(icd) = NoPackets(i)
           /\ \A c \in InputChannels \ EmptyBehind(icd) :
                 Head(i[c]).tag = inq[c][IF c \in icd THEN 2 ELSE 1].tag
<1>1. ASSUME NEW c \in InputChannels
      PROVE  /\ (i[c] = << >>) <=> Len(inq[c]) <= (IF c \in icd THEN 1 ELSE 0)
             /\ i[c] = << >> => c \in EmptyChannels \cup icd
             /\ c \notin EmptyBehind(icd) => i[c][1] = inq[c][IF c \in icd THEN 2 ELSE 1]
  <2> DEFINE q == inq[c]
  <2>1. q \in Queue
    BY DEF UnitsTypeOK
  <2>2. i[c] = IF c \in icd THEN Tail(q) ELSE q
    BY DEF Dequeued
  <2>3. c \notin EmptyBehind(icd) => Len(q) > 1 \/ c \notin icd
    <3>1. Len(q) \in Nat
      BY <2>1, QueueFront
    <3> QED
      BY <3>1 DEF EmptyBehind, EmptyChannels
  <2>4. q = << >> => c \in EmptyChannels
    BY DEF EmptyChannels
  <2>5. c \in icd => q # << >>
    OBVIOUS
  <2> HIDE DEF q
  <2>6. CASE c \in icd
    <3>1. (i[c] = << >>) <=> Len(q) <= 1
      BY <2>1, <2>2, <2>5, <2>6, QueueFront
    <3>2. Len(q) > 1 => Tail(q)[1] = q[2]
      BY <2>1, QueueFront
    <3> QED
      BY <2>2, <2>3, <2>6, <3>1, <3>2 DEF q
  <2>7. CASE c \notin icd
    <3>1. (i[c] = << >>) <=> Len(q) <= 0
      <4>1. Len(q) \in Nat /\ (q = << >> <=> Len(q) = 0)
        BY <2>1, QueueFront
      <4>2. i[c] = q
        BY <2>2, <2>7
      <4> QED
        BY <4>1, <4>2
    <3> QED
      BY <2>2, <2>4, <2>7, <3>1 DEF q
  <2> QED
    BY <2>6, <2>7
<1>2. /\ NoPackets(i) \subseteq EmptyBehind(icd)
      /\ HasFullInformation => EmptyBehind(icd) = NoPackets(i)
  BY <1>1 DEF NoPackets, EmptyBehind
<1>3. ASSUME NEW c \in InputChannels \ EmptyBehind(icd)
      PROVE  Head(i[c]).tag = inq[c][IF c \in icd THEN 2 ELSE 1].tag
  <2>1. i \in [InputChannels -> Queue]
    BY DequeuedType DEF UnitsTypeOK
  <2>2. i[c] \in Seq(Packet) /\ i[c] # << >>
    BY <1>2, <2>1 DEF NoPackets, Queue
  <2> QED
    BY <1>1, <2>2
<1> QED
  BY <1>2, <1>3

-----------------------------------------------------------------------------
(* The predicate unit and the sequential order of effects.                 *)

\* Nothing but the mask counts unless a writer retires that was not predicted.
LEMMA MaskOnly ==
    ASSUME NEW h, NEW r, NEW v \in BOOLEAN, ~WritesPredicate(r) \/ EndSpeculation(r)
    PROVE  NextPreds(h, r, v) = Masked(preds, h)
  BY DEF NextPreds, Masked, EndSpeculation

\* A writer that was not predicted brings its result, with a bubble behind it.
LEMMA ResultOnly ==
    ASSUME preds \in SUBSET Predicates, NEW r, NEW value, ~EndSpeculation(r)
    PROVE  NextPreds(Bubble, r, value # 0) = PredicatesWith(preds, r, value)
  BY BubbleFields DEF NextPreds, PredicatesWith

\* A prediction that begins: whatever the value of the predicate turns out to be,
\* the predicates predicted or the ones saved are those of the sequential machine.
LEMMA PredictionBegins ==
    ASSUME internalEnable, NEW h, WellFormed(h), NEW r, NEW v \in BOOLEAN,
           ~WritesPredicate(r) \/ EndSpeculation(r),
           PredicateUnit(h, r, v), BeginSpeculation(h, r, v), NEW value
    PROVE  /\ speculating' = TRUE
           /\ (IF (value # 0) = savedPrediction' THEN preds' ELSE savedPreds') =
                 Masked(PredicatesWith(preds, h, value), h)
<1> DEFINE p == Prediction(h)
<1>1. p \in BOOLEAN
  BY DEF Prediction
<1>2. /\ speculating' = TRUE /\ savedPrediction' = p
      /\ savedPreds' = WithPrediction(~p, h, r, v) /\ preds' = WithPrediction(p, h, r, v)
  BY DEF PredicateUnit
<1>3. \A b \in BOOLEAN : WithPrediction(b, h, r, v) =
         IF b THEN Masked(preds, h) \cup {h.di} ELSE Masked(preds, h) \ {h.di}
  BY MaskOnly DEF WithPrediction
<1>4. WritesPredicate(h)
  BY DEF BeginSpeculation
<1> HIDE DEF p
<1>5. Masked(PredicatesWith(preds, h, value), h) = WithPrediction(value # 0, h, r, v)
  BY <1>3, <1>4, MaskCommutes
<1>6. CASE p
  BY <1>2, <1>5, <1>6
<1>7. CASE ~p
  BY <1>1, <1>2, <1>5, <1>7
<1> QED
  BY <1>2, <1>6, <1>7

\* No prediction begins.
LEMMA NoneBegins ==
    ASSUME internalEnable, NEW h, NEW r, NEW v,
           PredicateUnit(h, r, v), ~BeginSpeculation(h, r, v)
    PROVE  /\ speculating' = (speculating /\ ~EndSpeculation(r))
           /\ savedPrediction' = savedPrediction /\ savedPreds' = savedPreds
           /\ preds' = IF PredictionMiss(r, v) THEN savedPreds
                       ELSE IF TriggerOverride(h, r, v) THEN preds ELSE NextPreds(h, r, v)
  BY DEF PredicateUnit, StillSpeculating
=============================================================================
