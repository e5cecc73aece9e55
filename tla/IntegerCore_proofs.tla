------------------------- MODULE IntegerCore_proofs -------------------------
(***************************************************************************)
(* Proofs about IntegerCore for every program, every width and depth, and  *)
(* all four settings of the two knobs: speculation is resolved exactly by  *)
(* the instruction that opened it, what is annulled was reversible,        *)
(* instructions retire one at a time, and the core implements TiaMachine.  *)
(***************************************************************************)
EXTENDS IntegerCore, CoreUnits_proofs

-----------------------------------------------------------------------------
(* The control invariant.                                                  *)

\* What the pipeline registers may hold: bubbles or valid instructions in DX1,
\* bubbles or two-cycle instructions in X2, and nothing until the execution
\* control unit has enabled the core.
PipelineShape ==
    /\ prog \in Programs
    /\ speculating \in BOOLEAN
    /\ HasSpeculativePredicateUnit \/ ~speculating
    /\ dx1 = Bubble \/ dx1.vi
    /\ x2 = Bubble \/ TwoCycle(x2)
    /\ internalEnable => execute
    /\ ~halted /\ ~internalEnable => dx1 = Bubble /\ x2 = Bubble

\* The three safety invariants are inductive only together: that a prediction is
\* open exactly while its writer flies needs that no instruction is dropped.
ControlInv ==
    /\ PipelineShape
    /\ SingleRetirement
    /\ SpeculationTracksWriter
    /\ SpeculationIsReversible

\* The signals between the predicate unit and the pipeline.
Ends   == EndSpeculation(Retiring)
Hit    == PredictionHit(Retiring, DatapathTrue)
Begins == BeginSpeculation(HazardFree, Retiring, DatapathTrue)

LEMMA Signals ==
    /\ Ends <=> speculating /\ WritesPredicate(Retiring)
    /\ Hit <=> Ends /\ savedPrediction = DatapathTrue
    /\ Miss <=> Ends /\ savedPrediction # DatapathTrue
    /\ Override <=> /\ speculating
                    /\ \/ WritesPredicate(HazardFree) /\ ~Hit
                       \/ HazardFree.op = "ssw"
                       \/ HazardFree.icd # {} /\ ~Hit
    /\ Begins <=> /\ HasSpeculativePredicateUnit /\ (~speculating \/ Hit)
                  /\ WritesPredicate(HazardFree) /\ ~Override
    /\ Begins \in BOOLEAN
  BY DEF Ends, Hit, Miss, Override, Begins, EndSpeculation, PredictionHit, PredictionMiss,
         TriggerOverride, BeginSpeculation

\* When the predicate unit is clocked, a prediction is open if one begins or the
\* one that was open does not end.
LEMMA SpeculatingAfter ==
    ASSUME PredicateUnit(HazardFree, Retiring, DatapathTrue)
    PROVE  IF internalEnable THEN speculating' = (Begins \/ (speculating /\ ~Ends))
                             ELSE speculating' = speculating
  BY DEF PredicateUnit, predicateUnit, StillSpeculating, Begins, Ends

\* What leaves the trigger stage, before and after the override.
LEMMA IssueShape ==
    ASSUME prog \in Programs
    PROVE  /\ HazardFree = Bubble \/ HazardFree.vi
           /\ TwoCycle(dx1) => HazardFree = Bubble \/ TwoCycle(HazardFree)
           /\ ~HasSpeculativePredicateUnit /\ WritesPredicate(HazardFree) =>
                 ~WritesPredicate(dx1) /\ ~WritesPredicate(x2)
           /\ Issued = Bubble \/ (Issued = HazardFree /\ ~Override)
           /\ ~Override => Issued = HazardFree
           /\ ~(internalEnable /\ execute /\ ~halted) => Issued = Bubble
<1>1. /\ Triggering = Bubble \/ Triggering.vi
      /\ ~(internalEnable /\ execute /\ ~halted) => Triggering = Bubble
  BY TriggeredFits DEF Triggering
<1> QED
  BY <1>1, BubbleFields DEF HazardFree, Collision, ControlHazard, Issued

\* Which instruction retires, as far as predicate writers are concerned: one in
\* X2 retires now, one in DX1 retires unless it still has to pass through X2.
LEMMA RetiringWriter ==
    ASSUME PipelineShape, SingleRetirement
    PROVE  /\ WritesPredicate(x2) => Retiring = x2
           /\ WritesPredicate(dx1) /\ ~TwoCycle(dx1) => Retiring = dx1
           /\ ~WritesPredicate(x2) /\ (~WritesPredicate(dx1) \/ TwoCycle(dx1)) =>
                 ~WritesPredicate(Retiring)
  BY BubbleFields DEF PipelineShape, SingleRetirement, Retiring, X2Retires

\* The pipeline registers after an edge.
LEMMA PipelineAfter ==
    ASSUME PipelineRegisters
    PROVE  /\ dx1' = Bubble \/ (dx1' = Issued /\ ~Miss)
           /\ ~Miss => dx1' = Issued
           /\ x2' = Bubble \/ (x2' = dx1 /\ TwoCycle(dx1) /\ ~Miss)
           /\ ~Miss /\ TwoCycle(dx1) => x2' = dx1
  BY DEF PipelineRegisters

LEMMA ShapeKept ==
    ASSUME ControlInv, [Next]_vars
    PROVE  PipelineShape' /\ SingleRetirement'
<1>1. CASE Edge
  <2>1. PICK arriving, acknowledged : Clock(arriving, acknowledged)
    BY <1>1 DEF Edge
  <2>2. prog' = prog /\ execute' = execute /\ ExecutionControl(Retiring)
        /\ PipelineRegisters /\ PredicateUnit(HazardFree, Retiring, DatapathTrue)
    BY <2>1 DEF Clock
  <2>3. prog \in Programs
    BY DEF ControlInv, PipelineShape
  <2>4. speculating' \in BOOLEAN /\ (HasSpeculativePredicateUnit \/ ~speculating')
    BY <2>2, Signals, SpeculatingAfter DEF ControlInv, PipelineShape
  <2>5. dx1' = Bubble \/ dx1'.vi
    BY <2>2, <2>3, IssueShape, PipelineAfter
  <2>6. x2' = Bubble \/ TwoCycle(x2)'
    BY <2>2, PipelineAfter DEF TwoCycle
  <2>7. ~halted' /\ ~internalEnable' => dx1' = Bubble /\ x2' = Bubble
    <3>1. ~halted' /\ ~internalEnable' => ~halted /\ ~execute /\ ~internalEnable
      BY <2>2 DEF ExecutionControl, ControlInv, PipelineShape
    <3> QED
      BY <3>1, <2>2, <2>3, IssueShape, PipelineAfter, BubbleFields
      DEF ControlInv, PipelineShape
  <2>8. (internalEnable => execute)'
    BY <2>2 DEF ExecutionControl
  <2>9. SingleRetirement'
    <3>1. TwoCycle(x2)' => TwoCycle(dx1) /\ (dx1' = Bubble \/ dx1' = Issued)
      BY <2>2, PipelineAfter, BubbleFields DEF TwoCycle
    <3>2. TwoCycle(dx1) => Issued = Bubble \/ TwoCycle(Issued)
      BY <2>3, IssueShape
    <3> QED
      BY <3>1, <3>2, BubbleFields DEF SingleRetirement, TwoCycle
  <2> QED
    BY <2>2, <2>3, <2>4, <2>5, <2>6, <2>7, <2>8, <2>9 DEF PipelineShape
<1>2. CASE BeginExecution \/ UNCHANGED vars
  BY <1>2 DEF BeginExecution, vars, control, predicateUnit, pipeline, ControlInv,
              PipelineShape, SingleRetirement, TwoCycle
<1> QED
  BY <1>1, <1>2 DEF Next

\* How a prediction and its writer move, when the core runs.
LEMMA SpeculationStep ==
    ASSUME ControlInv, ~halted, internalEnable, PipelineRegisters,
           PredicateUnit(HazardFree, Retiring, DatapathTrue)
    PROVE  /\ ~(WritesPredicate(dx1') /\ WritesPredicate(x2'))
           /\ HasSpeculativePredicateUnit =>
                 speculating' = (WritesPredicate(dx1') \/ WritesPredicate(x2'))
           /\ speculating' /\ WritesPredicate(x2') =>
                 dx1'.icd = {} /\ dx1'.op # "ssw" /\ ~WritesPredicate(dx1')
<1> USE DEF ControlInv, PipelineShape, SpeculationTracksWriter
<1>0. /\ execute /\ prog \in Programs
      /\ speculating' = (Begins \/ (speculating /\ ~Ends))
  BY SpeculatingAfter
<1>1. CASE ~HasSpeculativePredicateUnit
  <2>1. ~speculating /\ ~speculating' /\ ~Miss /\ ~Override
    BY <1>0, <1>1, Signals
  <2>2. WritesPredicate(dx1') => ~WritesPredicate(dx1)
    BY <1>0, <1>1, <2>1, IssueShape, PipelineAfter, BubbleFields
  <2>3. WritesPredicate(x2') => WritesPredicate(dx1)
    BY PipelineAfter, BubbleFields
  <2> QED
    BY <1>1, <2>1, <2>2, <2>3
<1>2. CASE HasSpeculativePredicateUnit /\ ~speculating
  <2>1. ~Miss /\ ~Override /\ Begins = WritesPredicate(HazardFree)
    BY <1>2, Signals DEF WritesPredicate
  <2>2. ~WritesPredicate(dx1) /\ ~WritesPredicate(x2')
    BY <1>2, PipelineAfter, BubbleFields
  <2>3. dx1' = HazardFree
    BY <1>0, <2>1, IssueShape, PipelineAfter
  <2> QED
    BY <1>0, <1>2, <2>1, <2>2, <2>3
<1>3. CASE /\ HasSpeculativePredicateUnit /\ speculating
           /\ WritesPredicate(dx1) /\ TwoCycle(dx1)
  <2>1. ~WritesPredicate(x2) /\ ~Ends
    BY <1>3, RetiringWriter, Signals
  <2>2. ~Miss /\ ~Hit /\ ~Begins
    BY <1>3, <2>1, Signals
  <2>3. ~WritesPredicate(Issued) /\ Issued.op # "ssw" /\ Issued.icd = {}
    BY <1>0, <1>3, <2>2, IssueShape, BubbleFields, Signals
  <2>4. dx1' = Issued /\ x2' = dx1
    BY <1>3, <2>2, PipelineAfter
  <2> QED
    BY <1>0, <1>3, <2>1, <2>3, <2>4
<1>4. CASE /\ HasSpeculativePredicateUnit /\ speculating
           /\ ~(WritesPredicate(dx1) /\ TwoCycle(dx1))
  <2>1. Ends
    BY <1>4, RetiringWriter, Signals
  <2>2. ~WritesPredicate(x2')
    BY <1>4, PipelineAfter, BubbleFields
  <2>3. CASE Miss
    <3>1. ~Hit /\ ~Begins
      BY <1>4, <2>3, Signals
    <3>2. dx1' = Bubble
      BY <2>3, PipelineAfter
    <3> QED
      BY <1>0, <2>1, <2>2, <3>1, <3>2, BubbleFields
  <2>4. CASE ~Miss
    <3>1. Hit /\ dx1' = Issued
      BY <2>1, <2>4, PipelineAfter, Signals
    <3>2. Begins = WritesPredicate(Issued)
      BY <1>0, <1>4, <3>1, IssueShape, BubbleFields, Signals DEF WritesPredicate
    <3> QED
      BY <1>0, <2>1, <2>2, <3>1, <3>2
  <2> QED
    BY <2>3, <2>4
<1> QED
  BY <1>1, <1>2, <1>3, <1>4

LEMMA ControlInvKept == ControlInv /\ [Next]_vars => ControlInv'
<1> SUFFICES ASSUME ControlInv, [Next]_vars
             PROVE  SpeculationTracksWriter' /\ SpeculationIsReversible'
  BY ShapeKept DEF ControlInv
<1>1. CASE Edge
  <2>1. PICK arriving, acknowledged : Clock(arriving, acknowledged)
    BY <1>1 DEF Edge
  <2>2. ExecutionControl(Retiring) /\ PredicateUnit(HazardFree, Retiring, DatapathTrue)
        /\ PipelineRegisters
    BY <2>1 DEF Clock
  <2>3. CASE ~halted' /\ internalEnable
    <3>1. ~halted
      BY <2>2, <2>3 DEF ExecutionControl
    <3> QED
      BY <2>2, <2>3, <3>1, SpeculationStep
      DEF SpeculationTracksWriter, SpeculationIsReversible, WritesPredicate
  <2>4. CASE ~halted' /\ ~internalEnable
    <3>1. ~halted /\ dx1 = Bubble /\ x2 = Bubble /\ prog \in Programs
      BY <2>2, <2>4 DEF ExecutionControl, ControlInv, PipelineShape
    <3>2. dx1' = Bubble /\ x2' = Bubble /\ speculating' = speculating
      BY <2>2, <2>4, <3>1, IssueShape, PipelineAfter, BubbleFields,
         SpeculatingAfter
    <3> QED
      BY <3>1, <3>2, BubbleFields
      DEF ControlInv, SpeculationTracksWriter, SpeculationIsReversible, WritesPredicate
  <2>5. CASE halted'
    BY <2>5 DEF SpeculationTracksWriter, SpeculationIsReversible
  <2> QED
    BY <2>3, <2>4, <2>5
<1>2. CASE BeginExecution \/ UNCHANGED vars
  BY <1>2 DEF BeginExecution, vars, control, predicateUnit, pipeline, ControlInv,
              SpeculationTracksWriter, SpeculationIsReversible, WritesPredicate
<1> QED
  BY <1>1, <1>2 DEF Next

LEMMA ControlInvInit == Init => ControlInv
  BY BubbleFields DEF Init, InitUnits, ControlInv, PipelineShape, SingleRetirement,
     SpeculationTracksWriter, SpeculationIsReversible

\* For every program, word width, channel depth and setting of the knobs: a
\* prediction is open exactly while its writer is in flight, what may have to be
\* annulled has consumed nothing, and one instruction retires at a time.
THEOREM SpeculationSafety ==
    Spec => [](SpeculationTracksWriter /\ SpeculationIsReversible /\ SingleRetirement)
<1>1. Init => ControlInv
  BY ControlInvInit
<1>2. ControlInv /\ [Next]_vars => ControlInv'
  BY ControlInvKept
<1>3. ControlInv => SpeculationTracksWriter /\ SpeculationIsReversible /\ SingleRetirement
  BY DEF ControlInv
<1> QED
  BY <1>1, <1>2, <1>3, PTL DEF Spec

-----------------------------------------------------------------------------
(* Types, and the channels.                                                *)

\* Packets on their way to an output channel.
Pending(c) == (IF c \in dx1.oci THEN 1 ELSE 0) + (IF c \in x2.oci THEN 1 ELSE 0)

\* Why no dequeue finds a channel empty and no enqueue finds one full: a packet
\* waits for the dequeue in DX1, and a slot for every packet in flight.
ChannelInv ==
    /\ \A c \in InputChannels : c \in dx1.icd => inq[c] # << >>
    /\ \A c \in OutputChannels : Len(outq[c]) + Pending(c) <= ChannelDepth

DataInv ==
    /\ TypeOK
    /\ InFlight(dx1) /\ InFlight(x2)
    /\ ChannelInv

\* What the trigger stage issues fits the channels as they are.
LEMMA IssueFits ==
    ASSUME PipelineShape, TypeOK
    PROVE  /\ InFlight(Issued)
           /\ InFlight(HazardFree)
           /\ \A c \in Issued.icd : c \in InputChannels /\ c \notin UpdatedEmpty
           /\ \A c \in Issued.oci : c \notin UpdatedFull
<1>1. /\ InFlight(Triggering)
      /\ \A c \in Triggering.icd : c \in InputChannels /\ c \notin UpdatedEmpty
      /\ \A c \in Triggering.oci : c \notin UpdatedFull
  BY TriggeredFits DEF Triggering, PipelineShape
<1>2. Issued = Bubble \/ Issued = Triggering
  BY DEF Issued, HazardFree
<1>3. HazardFree = Bubble \/ HazardFree = Triggering
  BY DEF HazardFree
<1> QED
  BY <1>1, <1>2, <1>3, BubbleFields DEF InFlight

LEMMA ResultsType ==
    ASSUME DataInv
    PROVE  /\ InFlight(Retiring)
           /\ Dx1Operands \in [1 .. 3 -> Word]
           /\ Dx1Result \in Word
           /\ DatapathResult \in Word
<1>1. InFlight(Retiring)
  BY DEF Retiring, DataInv, InFlight
<1>2. ForwardedRegs \in [Registers -> Word]
  BY RegistersWithType DEF ForwardedRegs, DataInv, TypeOK, UnitsTypeOK
<1>3. Dx1Operands \in [1 .. 3 -> Word]
  BY <1>2, OperandsType DEF Dx1Operands, DataInv, TypeOK, UnitsTypeOK
<1>4. Dx1Result \in Word
  BY <1>3, ResultType DEF Dx1Result, DataInv, TypeOK, UnitsTypeOK
<1> QED
  BY <1>1, <1>3, <1>4 DEF DatapathResult, DataInv, TypeOK, UnitsTypeOK

\* Behind the instruction in DX1 a channel that is not taken to be empty holds a
\* packet after the edge.
LEMMA InputKept ==
    ASSUME TypeOK, NEW c \in InputChannels, NEW p \in Arriving \cup {NoPacket}
    PROVE  /\ InputChannelAfter(c, c \in DequeueSignals, p) \in Queue
           /\ Len(InputChannelAfter(c, c \in DequeueSignals, p)) <= ChannelDepth
           /\ c \notin UpdatedEmpty => InputChannelAfter(c, c \in DequeueSignals, p) # << >>
<1> DEFINE dequeue == c \in DequeueSignals
           held == Len(inq[c])
<1>1. held \in Nat /\ inq[c] \in Seq(Packet) /\ UnitsTypeOK
  BY DEF TypeOK, UnitsTypeOK, Queue
<1>2. inq[c] # << >> => held > 0
  BY <1>1
<1>3. dequeue => c \in dx1.icd
  BY DEF DequeueSignals
<1>4. dequeue \in BOOLEAN
  BY DEF DequeueSignals
<1>5. c \notin UpdatedEmpty => ~(held <= (IF c \in dx1.icd THEN 1 ELSE 0)) \/ (held > 0 /\ c \notin dx1.icd)
  BY <1>2 DEF UpdatedEmpty, EmptyBehind, EmptyChannels
<1> HIDE DEF dequeue, held
<1>6. c \notin UpdatedEmpty => held > (IF dequeue THEN 1 ELSE 0)
  BY <1>1, <1>3, <1>5
<1>7. /\ InputChannelAfter(c, dequeue, p) \in Queue
      /\ Len(InputChannelAfter(c, dequeue, p)) <= ChannelDepth
      /\ Len(inq[c]) > (IF dequeue THEN 1 ELSE 0) => InputChannelAfter(c, dequeue, p) # << >>
  BY <1>1, <1>4, InputChannelStep
<1> QED
  BY <1>6, <1>7 DEF dequeue, held

\* An output channel keeps its type and grows by at most the packet sent to it.
LEMMA OutputKept ==
    ASSUME DataInv, NEW c \in OutputChannels, NEW acknowledged \in SUBSET OutputChannels,
           NEW after, after = OutputChannelAfter(c, c \in EnqueueSignals, Outgoing,
                                                 c \in acknowledged)
    PROVE  /\ after \in Queue /\ Len(after) \in Nat /\ Len(after) <= ChannelDepth
           /\ Len(after) <= Len(outq[c]) + (IF c \in EnqueueSignals THEN 1 ELSE 0)
<1> DEFINE enqueue == c \in EnqueueSignals
           taken == c \in acknowledged
<1>1. Outgoing \in Packet
  BY ResultsType, InFlightType DEF Outgoing, Packet, Instruction
<1>2. UnitsTypeOK /\ enqueue \in BOOLEAN /\ taken \in BOOLEAN
  BY DEF DataInv, TypeOK, EnqueueSignals
<1>3. after = OutputChannelAfter(c, enqueue, Outgoing, taken)
  OBVIOUS
<1> HIDE DEF enqueue, taken
<1>4. /\ after \in Queue /\ Len(after) <= ChannelDepth
      /\ Len(after) <= Len(outq[c]) + (IF enqueue THEN 1 ELSE 0)
  BY <1>1, <1>2, <1>3, OutputChannelStep
<1>5. Len(after) \in Nat
  BY <1>4 DEF Queue
<1> QED
  BY <1>4, <1>5 DEF enqueue

\* The retiring instruction is the only one that fills a slot, and it leaves
\* the pipeline: the slots taken and those spoken for never grow together.
LEMMA PendingAfter ==
    ASSUME DataInv, ControlInv, PipelineRegisters, NEW c \in OutputChannels
    PROVE  /\ Pending(c) \in 0 .. 2
           /\ Pending(c)' =
                (IF c \in dx1'.oci THEN 1 ELSE 0) + (IF c \in x2'.oci THEN 1 ELSE 0)
           /\ (IF c \in EnqueueSignals THEN 1 ELSE 0) + (IF c \in x2'.oci THEN 1 ELSE 0)
                <= Pending(c)
<1>1. c \in EnqueueSignals => c \in Retiring.oci
  BY DEF EnqueueSignals
<1>2. dx1 = Bubble \/ dx1.vi
  BY DEF ControlInv, PipelineShape
<1>3. c \in x2'.oci => c \in dx1.oci /\ TwoCycle(dx1)
  BY PipelineAfter, BubbleFields
<1>4. c \in Retiring.oci => \/ c \in x2.oci /\ TwoCycle(x2)
                            \/ c \in dx1.oci /\ ~TwoCycle(dx1)
  BY BubbleFields DEF Retiring, X2Retires
<1>5. (IF c \in EnqueueSignals THEN 1 ELSE 0) + (IF c \in x2'.oci THEN 1 ELSE 0) <= Pending(c)
  BY <1>1, <1>3, <1>4 DEF Pending
<1> QED
  BY <1>5 DEF Pending

LEMMA ChannelStep ==
    ASSUME DataInv, ControlInv, NEW arriving \in [InputChannels -> Arriving \cup {NoPacket}],
           NEW acknowledged \in SUBSET OutputChannels, Clock(arriving, acknowledged)
    PROVE  ChannelInv'
<1>1. /\ PipelineRegisters
      /\ \A c \in InputChannels :
            inq'[c] = InputChannelAfter(c, c \in DequeueSignals, arriving[c])
      /\ \A c \in OutputChannels :
            outq'[c] = OutputChannelAfter(c, c \in EnqueueSignals, Outgoing,
                                          c \in acknowledged)
  BY DEF Clock
<1>2. TypeOK /\ PipelineShape /\ ChannelDepth \in Nat
  BY SizesAssumption DEF DataInv, ControlInv
<1>3. dx1' = Bubble \/ dx1' = Issued
  BY <1>1, PipelineAfter
<1>4. ASSUME NEW c \in InputChannels, c \in dx1'.icd
      PROVE  inq'[c] # << >>
  <2>1. c \notin UpdatedEmpty
    BY <1>2, <1>3, <1>4, IssueFits, BubbleFields
  <2>2. arriving[c] \in Arriving \cup {NoPacket}
    OBVIOUS
  <2> QED
    BY <1>1, <1>2, <2>1, <2>2, InputKept
<1>5. ASSUME NEW c \in OutputChannels
      PROVE  Len(outq'[c]) + Pending(c)' <= ChannelDepth
  <2> DEFINE enqueued == IF c \in EnqueueSignals THEN 1 ELSE 0
             issued == IF c \in dx1'.oci THEN 1 ELSE 0
             moved == IF c \in x2'.oci THEN 1 ELSE 0
             before == Len(outq[c])
             after == Len(outq'[c])
  <2>1. before \in Nat /\ before + Pending(c) <= ChannelDepth /\ before <= ChannelDepth
    BY DEF DataInv, TypeOK, UnitsTypeOK, ChannelInv, Queue
  <2>2. after \in Nat /\ after <= before + enqueued
    BY <1>1, OutputKept
  <2>3. Pending(c) \in 0 .. 2 /\ Pending(c)' = issued + moved /\ enqueued + moved <= Pending(c)
    BY <1>1, PendingAfter
  <2>4. c \in dx1'.oci => before + Pending(c) < ChannelDepth
    <3>1. c \in dx1'.oci => c \notin UpdatedFull
      BY <1>2, <1>3, IssueFits, BubbleFields
    <3>2. c \notin UpdatedFull => before + Pending(c) < ChannelDepth
      <4> DEFINE first == IF c \in dx1.oci THEN 1 ELSE 0
                 second == IF c \in x2.oci THEN 1 ELSE 0
      <4>1. Pending(c) = first + second /\ first \in 0 .. 1 /\ second \in 0 .. 1
        BY DEF Pending
      <4>2. CASE HasFullInformation
        <5>1. c \notin UpdatedFull => ~(before + first + second >= ChannelDepth)
          BY <4>2 DEF UpdatedFull
        <5> HIDE DEF first, second, before
        <5> QED
          BY <1>2, <2>1, <4>1, <5>1
      <4>3. CASE ~HasFullInformation
        <5>1. c \notin UpdatedFull => first = 0 /\ second = 0 /\ before # ChannelDepth
          BY <4>3 DEF UpdatedFull, FullChannels
        <5> HIDE DEF first, second, before
        <5> QED
          BY <1>2, <2>1, <4>1, <5>1
      <4> QED
        BY <4>2, <4>3
    <3> QED
      BY <3>1, <3>2
  <2>5. enqueued \in 0 .. 1 /\ issued \in 0 .. 1 /\ moved \in 0 .. 1
    OBVIOUS
  <2>6. issued = 1 => c \in dx1'.oci
    OBVIOUS
  <2> HIDE DEF enqueued, issued, moved, before, after
  <2>7. after + (issued + moved) <= ChannelDepth
    BY <1>2, <2>1, <2>2, <2>3, <2>4, <2>5, <2>6
  <2> QED
    BY <2>3, <2>7 DEF after
<1> QED
  BY <1>4, <1>5 DEF ChannelInv

LEMMA DataInvKept ==
    ASSUME DataInv, ControlInv, [Next]_vars
    PROVE  DataInv'
<1>1. CASE Edge
  <2>1. PICK arriving \in [InputChannels -> Arriving \cup {NoPacket}],
             acknowledged \in SUBSET OutputChannels : Clock(arriving, acknowledged)
    BY <1>1 DEF Edge
  <2>2. /\ ExecutionControl(Retiring) /\ PipelineRegisters
        /\ PredicateUnit(HazardFree, Retiring, DatapathTrue)
        /\ regs' = RegistersWith(regs, Retiring, DatapathResult)
        /\ spad' = Stored(dx1, Dx1Operands, spad)
        /\ inq' = [c \in InputChannels |->
                     InputChannelAfter(c, c \in DequeueSignals, arriving[c])]
        /\ outq' = [c \in OutputChannels |->
                      OutputChannelAfter(c, c \in EnqueueSignals, Outgoing, c \in acknowledged)]
        /\ prog' = prog /\ execute' = execute
    BY <2>1 DEF Clock
  <2>3. TypeOK /\ PipelineShape
    BY DEF DataInv, ControlInv
  <2>4. InFlight(dx1') /\ InFlight(x2')
    <3>1. InFlight(Issued) /\ InFlight(Bubble) /\ InFlight(dx1)
      BY <2>3, IssueFits DEF InFlight, DataInv
    <3> QED
      BY <2>2, <3>1, PipelineAfter
  <2>5. ChannelInv'
    BY <2>1, ChannelStep
  <2>6. prog' \in Seq(Instruction) /\ execute' \in BOOLEAN
    BY <2>2, <2>3 DEF TypeOK, UnitsTypeOK
  <2>7. internalEnable' \in BOOLEAN /\ halted' \in BOOLEAN
    BY <2>2, <2>3 DEF ExecutionControl, TypeOK, UnitsTypeOK
  <2>8. regs' \in [Registers -> Word]
    BY <2>2, <2>3, ResultsType, RegistersWithType DEF TypeOK, UnitsTypeOK
  <2>9. spad' \in [0 .. ScratchpadDepth - 1 -> Word]
    BY <2>2, <2>3, ResultsType, StoredType DEF TypeOK, UnitsTypeOK
  <2>10. inq' \in [InputChannels -> Queue] /\ \A c \in InputChannels : Len(inq'[c]) <= ChannelDepth
    <3>1. \A c \in InputChannels : arriving[c] \in Arriving \cup {NoPacket}
      OBVIOUS
    <3> QED
      BY <2>2, <2>3, <3>1, InputKept
  <2>11. outq' \in [OutputChannels -> Queue] /\ \A c \in OutputChannels : Len(outq'[c]) <= ChannelDepth
    BY <2>2, OutputKept
  <2>12. /\ preds' \in SUBSET Predicates
         /\ predictor' \in [Predicates -> PredictorStates]
         /\ speculating' \in BOOLEAN /\ savedPrediction' \in BOOLEAN
         /\ savedPreds' \in SUBSET Predicates
    <3>1. InFlight(HazardFree) /\ InFlight(Retiring) /\ UnitsTypeOK
      BY <2>3, IssueFits, ResultsType DEF TypeOK
    <3>2. DatapathTrue \in BOOLEAN
      BY DEF DatapathTrue
    <3> QED
      BY <2>2, <3>1, <3>2, PredicateUnitType
  <2>13. dx1' \in Instruction /\ x2' \in Instruction
    BY <2>4, InFlightType
  <2>14. x2Result' \in Word
    BY <2>2, ResultsType, SmallWords DEF PipelineRegisters
  <2>15. TypeOK'
    BY <2>6, <2>7, <2>8, <2>9, <2>10, <2>11, <2>12, <2>13, <2>14 DEF TypeOK, UnitsTypeOK
  <2>16. InFlight(dx1)' /\ InFlight(x2)'
    BY <2>4 DEF InFlight, WellFormed, Checked, WritesPredicate
  <2> QED
    BY <2>5, <2>15, <2>16 DEF DataInv
<1>2. CASE BeginExecution \/ UNCHANGED vars
  <2>1. /\ prog' = prog /\ execute' \in BOOLEAN /\ internalEnable' = internalEnable
        /\ halted' = halted /\ regs' = regs /\ spad' = spad /\ inq' = inq /\ outq' = outq
        /\ preds' = preds /\ predictor' = predictor /\ speculating' = speculating
        /\ savedPrediction' = savedPrediction /\ savedPreds' = savedPreds
        /\ dx1' = dx1 /\ x2' = x2 /\ x2Result' = x2Result
    BY <1>2 DEF BeginExecution, vars, control, predicateUnit, pipeline, DataInv, TypeOK, UnitsTypeOK
  <2>2. TypeOK'
    BY <2>1 DEF DataInv, TypeOK, UnitsTypeOK
  <2>3. ChannelInv'
    BY <2>1 DEF DataInv, ChannelInv, Pending
  <2>4. InFlight(dx1)' /\ InFlight(x2)'
    BY <2>1 DEF DataInv, InFlight, WellFormed, Checked, WritesPredicate
  <2> QED
    BY <2>2, <2>3, <2>4 DEF DataInv
<1> QED
  BY <1>1, <1>2 DEF Next

LEMMA DataInvInit == Init => DataInv
<1> SUFFICES ASSUME Init PROVE DataInv
  OBVIOUS
<1>1. InFlight(dx1) /\ InFlight(x2)
  BY DEF Init, InFlight
<1>2. \A q \in {<< >>} : q \in Queue /\ Len(q) = 0
  BY DEF Queue
<1>3. ChannelDepth \in Nat
  BY SizesAssumption
<1>4. TypeOK
  BY UnitsInit, BubbleType, SmallWords DEF Init, TypeOK
<1>5. ChannelInv
  BY <1>2, <1>3, BubbleFields DEF Init, InitUnits, ChannelInv, Pending
<1> QED
  BY <1>1, <1>4, <1>5 DEF DataInv

LEMMA ChannelsRespectedFrom == DataInv => ChannelsRespected
<1> SUFFICES ASSUME DataInv PROVE ChannelsRespected
  OBVIOUS
<1>1. ASSUME NEW c \in DequeueSignals PROVE inq[c] # << >>
  <2>1. c \in dx1.icd /\ c \in InputChannels
    BY DEF DequeueSignals, DataInv, TypeOK, UnitsTypeOK, Instruction
  <2> QED
    BY <2>1 DEF DataInv, ChannelInv
<1>2. ASSUME NEW c \in EnqueueSignals PROVE Len(outq[c]) < ChannelDepth
  <2>1. c \in Retiring.oci
    BY DEF EnqueueSignals
  <2>2. c \in dx1.oci \/ c \in x2.oci
    BY <2>1, BubbleFields DEF Retiring
  <2>3. c \in OutputChannels
    BY <2>2 DEF DataInv, TypeOK, UnitsTypeOK, Instruction
  <2>4. Len(outq[c]) \in Nat /\ ChannelDepth \in Nat
    BY <2>3, SizesAssumption DEF DataInv, TypeOK, UnitsTypeOK, Queue
  <2>5. Len(outq[c]) + Pending(c) <= ChannelDepth
    BY <2>3 DEF DataInv, ChannelInv
  <2>6. Pending(c) = 1 \/ Pending(c) = 2
    BY <2>2 DEF Pending
  <2> QED
    BY <2>4, <2>5, <2>6
<1> QED
  BY <1>1, <1>2 DEF ChannelsRespected

\* For every program, every number and depth of channels, every word width and
\* both ways of tracking the channel status: all registers keep their types and
\* the core never dequeues an empty channel nor enqueues to a full one.
THEOREM CoreSafety == Spec => [](TypeOK /\ ChannelsRespected)
<1>1. Init => ControlInv /\ DataInv
  BY ControlInvInit, DataInvInit
<1>2. ControlInv /\ DataInv /\ [Next]_vars => ControlInv' /\ DataInv'
  BY ControlInvKept, DataInvKept
<1>3. DataInv => TypeOK /\ ChannelsRespected
  BY ChannelsRespectedFrom DEF DataInv
<1> QED
  BY <1>1, <1>2, <1>3, PTL DEF Spec

-----------------------------------------------------------------------------
(* Refinement of the sequential machine.                                   *)

\* The machine shares its operators with the core.
LEMMA MachineOperators ==
    ASSUME NEW ins, NEW s, NEW t, NEW out
    PROVE  /\ Machine!Execute(ins, s) = Execute(ins, s)
           /\ Machine!Environment(s, out, t) <=> Surroundings(s, out, t)
           /\ Machine!WaitsForChannels(ins) <=> Waits(ins)
           /\ Machine!Dequeued(s, out) = Dequeued(s, out)
<1>1. Machine!Execute(ins, s) = Execute(ins, s)
  BY DEF Machine!Execute, Execute, Machine!Perform, Perform, Machine!Operands, Operands,
         Machine!Operand, Operand, Machine!HeadData, HeadData, Machine!Result, Result,
         Machine!Modulo, Modulo, Machine!Truth, Truth, Machine!Address, Address,
         Machine!Stored, Stored, Machine!Dequeued, Dequeued, Machine!WriteBack, WriteBack,
         Machine!RegistersWith, RegistersWith, Machine!PredicatesWith, PredicatesWith,
         Machine!WritesPredicate, WritesPredicate, Machine!Enqueued, Enqueued,
         Machine!Masked, Masked
<1>2. Machine!Packet = Packet
  BY DEF Machine!Packet, Packet, Machine!Word, Word
<1>3. Machine!Environment(s, out, t) <=> Surroundings(s, out, t)
  BY <1>2 DEF Machine!Environment, Surroundings, Grows
<1>4. Machine!WaitsForChannels(ins) <=> Waits(ins)
  BY DEF Machine!WaitsForChannels, Waits
<1>5. Machine!Dequeued(s, out) = Dequeued(s, out)
  BY DEF Machine!Dequeued, Dequeued
<1> QED
  BY <1>1, <1>3, <1>4, <1>5

\* The halt that the machine has executed: retired, or in DX1 on the right path.
MachineHalted == halted \/ (dx1.op = "halt" /\ ~WrongPath)

LEMMA IdleStep ==
    ASSUME prog' = prog, MachineHalted' = MachineHalted,
           NEW r, NEW p, NEW m, NEW i, NEW o, NEW i2, NEW o2,
           InputsGrow(i, i2), OutputsShrink(o, o2),
           Flushed = State(r, p, m, i, o), Flushed' = State(r, p, m, i2, o2)
    PROVE  Machine!Next
<1>1. Surroundings(Flushed, Flushed.outq, Flushed')
  BY IdleSurroundings, StateFields
<1>2. Machine!Environment(Flushed, Flushed.outq, Flushed')
  BY <1>1, MachineOperators
<1>3. /\ Flushed'.regs = Flushed.regs /\ Flushed'.preds = Flushed.preds
      /\ Flushed'.spad = Flushed.spad
  BY StateFields
<1>4. Machine!Idle
  BY <1>2, <1>3 DEF Machine!Idle, MachineHalted
<1> QED
  BY <1>4 DEF Machine!Next

\* What the machine may fire on a state.
LEMMA MachineChoices ==
    ASSUME NEW r, NEW p, NEW m, NEW i, NEW o, Flushed = State(r, p, m, i, o),
           NEW n \in DOMAIN prog,
           Triggered(prog[n], p, NoPackets(i), NoRoom(o), HeadTags(i)),
           \A j \in DOMAIN prog :
              Triggered(prog[j], p, NoPackets(i), NoRoom(o), HeadTags(i)) /\ j < n
                => ~HasFullInformation /\ Waits(prog[j])
    PROVE  n \in Machine!Choices
<1>1. Flushed.inq = i /\ Flushed.outq = o /\ Flushed.preds = p
  BY StateFields
<1>2. Machine!Eligible =
        {j \in DOMAIN prog : Triggered(prog[j], p, NoPackets(i), NoRoom(o), HeadTags(i))}
  BY <1>1 DEF Machine!Eligible, Machine!Triggered, Triggered, NoPackets, NoRoom, HeadTags
<1> QED
  BY <1>2, MachineOperators DEF Machine!Choices

LEMMA FireStep ==
    ASSUME prog' = prog, ~MachineHalted,
           NEW n \in DOMAIN prog, MachineHalted' = (prog[n].op = "halt"),
           NEW ins, ins = prog[n], WellFormed(ins),
           NEW r \in [Registers -> Word], NEW p,
           NEW m \in [0 .. ScratchpadDepth - 1 -> Word],
           NEW i \in [InputChannels -> Queue], NEW i2, InputsGrow(i, i2),
           NEW o \in [OutputChannels -> Queue], NEW o2, OutputsShrink(o, o2),
           NEW v, v = Value(ins, r, i2, m),
           Flushed = State(r, p, m, i, o),
           Flushed' = State(RegistersWith(r, ins, v), Masked(PredicatesWith(p, ins, v), ins),
                            Stored(ins, Operands(ins, r, i2), m), Dequeued(i2, ins.icd),
                            Enqueued(o2, ins, v)),
           Triggered(ins, p, NoPackets(i), NoRoom(o), HeadTags(i)),
           \A j \in DOMAIN prog :
              Triggered(prog[j], p, NoPackets(i), NoRoom(o), HeadTags(i)) /\ j < n
                => ~HasFullInformation /\ Waits(prog[j])
    PROVE  Machine!Next
<1>1. n \in Machine!Choices
  BY MachineChoices
<1>2. \A c \in Checked(ins) : i[c] # << >>
  <2> SUFFICES ASSUME NEW k \in ins.checks PROVE i[k.channel] # << >>
    BY DEF Checked
  <2>1. k.channel \in InputChannels
    BY DEF WellFormed, Instruction, Check
  <2> QED
    BY <2>1 DEF Triggered, NoPackets
<1> DEFINE t == Execute(ins, Flushed)
<1>3. /\ Flushed'.regs = t.regs /\ Flushed'.preds = t.preds /\ Flushed'.spad = t.spad
      /\ Surroundings(t, Flushed.outq, Flushed')
  <2>1. /\ Operands(ins, r, i2) = Operands(ins, r, i) /\ v = Value(ins, r, i, m)
        /\ InputsGrow(Dequeued(i, ins.icd), Dequeued(i2, ins.icd))
    BY <1>2, FiresLater
  <2> QED
    BY <2>1, FireSurroundings
<1>4. t = Machine!Execute(prog[n], Flushed)
  BY MachineOperators
<1>5. Machine!Environment(t, Flushed.outq, Flushed')
  BY <1>3, MachineOperators
<1> HIDE DEF t
<1>6. Machine!Fire(n)
  BY <1>1, <1>3, <1>4, <1>5 DEF Machine!Fire, MachineHalted
<1> QED
  BY <1>6 DEF Machine!Next

\* After a halt only the queues count, and they may lose what instructions behind
\* the halt dequeue.
LEMMA HaltStep ==
    ASSUME prog' = prog, MachineHalted, MachineHalted',
           NEW r, NEW p, NEW m, NEW i \in [InputChannels -> Queue], NEW o, NEW i2, NEW o2,
           NEW r2, NEW p2, NEW m2,
           InputsGrow(i, i2), OutputsShrink(o, o2),
           Flushed = State(r, p, m, i, o), Flushed' = State(r2, p2, m2, i2, o2)
    PROVE  Machine!Next
<1>1. Dequeued(Flushed.inq, {}) = Flushed.inq
  BY StateFields DEF Dequeued
<1>2. Machine!Environment(Flushed, Flushed.outq, Flushed')
  BY IdleSurroundings, StateFields, MachineOperators
<1>3. [Flushed EXCEPT !.inq = Machine!Dequeued(@, {})] = Flushed
  BY <1>1, MachineOperators DEF State
<1>4. Machine!HaltShadow
  BY <1>2, <1>3 DEF Machine!HaltShadow, MachineHalted
<1> QED
  BY <1>4 DEF Machine!Next

\* The architectural state behind the instruction in X2.
Regs2  == RegistersWith(regs, x2, x2Result)
Outs2  == Enqueued(outq, x2, x2Result)
Preds2 == PredicatesWith(PredicatesWith(preds, x2, x2Result), dx1, Dx1Result)

DrainedPreds ==
    IF ~speculating THEN Preds2
    ELSE IF WriterValue = savedPrediction THEN preds
    ELSE savedPreds

\* The instruction in DX1 computes what it would compute behind the one in X2.
LEMMA Dx1Finds ==
    ControlInv /\ DataInv =>
        /\ Value(dx1, Regs2, inq, spad) = Dx1Result
        /\ Stored(dx1, Operands(dx1, Regs2, inq), spad) = Stored(dx1, Dx1Operands, spad)
<1> SUFFICES ASSUME ControlInv, DataInv
             PROVE  /\ Value(dx1, Regs2, inq, spad) = Dx1Result
                    /\ Stored(dx1, Operands(dx1, Regs2, inq), spad) = Stored(dx1, Dx1Operands, spad)
  OBVIOUS
<1>1. CASE dx1 = Bubble
  BY <1>1, BubbleFields DEF Value, Dx1Result, Result, Stored
<1>2. CASE dx1 # Bubble
  <2>1. TwoCycle(x2) => TwoCycle(dx1)
    BY <1>2 DEF ControlInv, PipelineShape, SingleRetirement
  <2>2. ~TwoCycle(x2) => x2 = Bubble
    BY DEF ControlInv, PipelineShape
  <2>3. ForwardedRegs = Regs2
    BY <2>1, <2>2, BubbleFields DEF ForwardedRegs, X2Retires, Regs2, RegistersWith
  <2> QED
    BY <2>3 DEF Dx1Operands, Dx1Result, Value
<1> QED
  BY <1>1, <1>2

LEMMA FlushedState ==
    ControlInv /\ DataInv =>
        Flushed = IF halted THEN State(regs, preds, spad, inq, outq)
                  ELSE IF WrongPath THEN State(Regs2, DrainedPreds, spad, inq, Outs2)
                  ELSE State(RegistersWith(Regs2, dx1, Dx1Result), DrainedPreds,
                             Stored(dx1, Dx1Operands, spad), Dequeued(inq, dx1.icd),
                             Enqueued(Outs2, dx1, Dx1Result))
<1> SUFFICES ASSUME ControlInv, DataInv
             PROVE  Flushed = IF halted THEN State(regs, preds, spad, inq, outq)
                  ELSE IF WrongPath THEN State(Regs2, DrainedPreds, spad, inq, Outs2)
                  ELSE State(RegistersWith(Regs2, dx1, Dx1Result), DrainedPreds,
                             Stored(dx1, Dx1Operands, spad), Dequeued(inq, dx1.icd),
                             Enqueued(Outs2, dx1, Dx1Result))
  OBVIOUS
<1> DEFINE preds1 == PredicatesWith(preds, x2, x2Result)
           afterX2 == WriteBack(x2, x2Result, CurrentState)
<1>1. CurrentState = State(regs, preds, spad, inq, outq)
  BY DEF CurrentState, State
<1>2. afterX2 = State(Regs2, preds1, spad, inq, Outs2)
  BY <1>1, WriteBackState DEF Regs2, Outs2
<1>3. Perform(dx1, afterX2) =
        State(RegistersWith(Regs2, dx1, Dx1Result), Preds2,
              Stored(dx1, Dx1Operands, spad), Dequeued(inq, dx1.icd),
              Enqueued(Outs2, dx1, Dx1Result))
  BY <1>2, Dx1Finds, PerformState DEF Preds2
<1>4. Drained = IF WrongPath THEN State(Regs2, preds1, spad, inq, Outs2)
                ELSE State(RegistersWith(Regs2, dx1, Dx1Result), Preds2,
                           Stored(dx1, Dx1Operands, spad), Dequeued(inq, dx1.icd),
                           Enqueued(Outs2, dx1, Dx1Result))
  BY <1>2, <1>3 DEF Drained
<1>5. Flushed = IF halted THEN CurrentState
                ELSE [Drained EXCEPT !.preds = IF ~speculating THEN @
                                   ELSE IF WriterValue = savedPrediction THEN preds
                                   ELSE savedPreds]
  BY DEF Flushed
<1>6. WrongPath => speculating
  BY DEF WrongPath
<1>7. CASE halted
  BY <1>1, <1>5, <1>7
<1>8. CASE ~halted /\ WrongPath
  <2>1. Drained = State(Regs2, preds1, spad, inq, Outs2) /\ Drained.preds = preds1
    BY <1>4, <1>8, StateFields
  <2>2. Flushed = [Drained EXCEPT !.preds = DrainedPreds]
    BY <1>5, <1>6, <1>8 DEF DrainedPreds
  <2> QED
    BY <1>8, <2>1, <2>2 DEF State
<1>9. CASE ~halted /\ ~WrongPath
  <2> DEFINE r == RegistersWith(Regs2, dx1, Dx1Result)
             m == Stored(dx1, Dx1Operands, spad)
             i == Dequeued(inq, dx1.icd)
             o == Enqueued(Outs2, dx1, Dx1Result)
  <2> HIDE DEF r, m, i, o
  <2>1. Drained = State(r, Preds2, m, i, o) /\ Drained.preds = Preds2
    BY <1>4, <1>9, StateFields DEF r, m, i, o
  <2>2. Flushed = [Drained EXCEPT !.preds = DrainedPreds]
    BY <1>5, <1>9, <2>1 DEF DrainedPreds
  <2>3. Flushed = State(r, DrainedPreds, m, i, o)
    BY <2>1, <2>2 DEF State
  <2> QED
    BY <1>9, <2>3 DEF r, m, i, o
<1> QED
  BY <1>7, <1>8, <1>9

\* What the flushed state consists of: the instruction in DX1 counts unless it is on
\* the wrong path.
FlushedRegs    == IF WrongPath THEN Regs2 ELSE RegistersWith(Regs2, dx1, Dx1Result)
FlushedSpad    == IF WrongPath THEN spad ELSE Stored(dx1, Dx1Operands, spad)
FlushedInputs  == IF WrongPath THEN inq ELSE Dequeued(inq, dx1.icd)
FlushedOutputs == IF WrongPath THEN Outs2 ELSE Enqueued(Outs2, dx1, Dx1Result)

LEMMA FlushedRunning ==
    ControlInv /\ DataInv /\ ~halted =>
        Flushed = State(FlushedRegs, DrainedPreds, FlushedSpad, FlushedInputs, FlushedOutputs)
  BY FlushedState DEF FlushedRegs, FlushedSpad, FlushedInputs, FlushedOutputs

LEMMA FlushedTypes ==
    DataInv =>
        /\ Regs2 \in [Registers -> Word]
        /\ Outs2 \in [OutputChannels -> Queue]
        /\ FlushedRegs \in [Registers -> Word]
        /\ FlushedSpad \in [0 .. ScratchpadDepth - 1 -> Word]
        /\ FlushedInputs \in [InputChannels -> Queue]
        /\ FlushedOutputs \in [OutputChannels -> Queue]
<1> SUFFICES ASSUME DataInv
             PROVE  /\ Regs2 \in [Registers -> Word]
                    /\ Outs2 \in [OutputChannels -> Queue]
                    /\ FlushedRegs \in [Registers -> Word]
                    /\ FlushedSpad \in [0 .. ScratchpadDepth - 1 -> Word]
                    /\ FlushedInputs \in [InputChannels -> Queue]
                    /\ FlushedOutputs \in [OutputChannels -> Queue]
  OBVIOUS
<1>1. /\ regs \in [Registers -> Word] /\ spad \in [0 .. ScratchpadDepth - 1 -> Word]
      /\ inq \in [InputChannels -> Queue] /\ outq \in [OutputChannels -> Queue]
      /\ InFlight(dx1) /\ InFlight(x2) /\ x2Result \in Word
  BY DEF DataInv, TypeOK, UnitsTypeOK
<1>2. Dx1Result \in Word /\ Dx1Operands \in [1 .. 3 -> Word]
  BY ResultsType
<1>3. Regs2 \in [Registers -> Word]
  BY <1>1, RegistersWithType DEF Regs2
<1>4. RegistersWith(Regs2, dx1, Dx1Result) \in [Registers -> Word]
  BY <1>1, <1>2, <1>3, RegistersWithType
<1>5. Outs2 \in [OutputChannels -> Queue]
  BY <1>1, EnqueuedType DEF Outs2
<1>6. Enqueued(Outs2, dx1, Dx1Result) \in [OutputChannels -> Queue]
  BY <1>1, <1>2, <1>5, EnqueuedType
<1>7. Stored(dx1, Dx1Operands, spad) \in [0 .. ScratchpadDepth - 1 -> Word]
  BY <1>1, <1>2, StoredType
<1>8. Dequeued(inq, dx1.icd) \in [InputChannels -> Queue]
  BY <1>1, DequeuedType
<1> QED
  BY <1>1, <1>3, <1>4, <1>5, <1>6, <1>7, <1>8
  DEF FlushedRegs, FlushedSpad, FlushedInputs, FlushedOutputs

\* With a bubble in DX1, or an instruction that will be annulled, the state is the one
\* behind X2.
LEMMA FlushedIdle ==
    ControlInv /\ DataInv /\ ~halted /\ (WrongPath \/ dx1 = Bubble) =>
        Flushed = State(Regs2, DrainedPreds, spad, inq, Outs2)
<1>1. ASSUME DataInv, dx1 = Bubble
      PROVE  /\ RegistersWith(Regs2, dx1, Dx1Result) = Regs2
             /\ Stored(dx1, Dx1Operands, spad) = spad
             /\ Dequeued(inq, dx1.icd) = inq /\ Enqueued(Outs2, dx1, Dx1Result) = Outs2
  <2>1. inq \in [InputChannels -> Queue] /\ Outs2 \in [OutputChannels -> Queue]
    BY <1>1, FlushedTypes DEF DataInv, TypeOK, UnitsTypeOK
  <2> QED
    BY <1>1, <2>1, BubbleEffects
<1> QED
  BY <1>1, FlushedState

LEMMA FlushedFire ==
    ControlInv /\ DataInv /\ ~halted /\ ~WrongPath =>
        Flushed = State(RegistersWith(Regs2, dx1, Value(dx1, Regs2, inq, spad)), DrainedPreds,
                        Stored(dx1, Operands(dx1, Regs2, inq), spad), Dequeued(inq, dx1.icd),
                        Enqueued(Outs2, dx1, Value(dx1, Regs2, inq, spad)))
  BY FlushedState, Dx1Finds

\* A refuted prediction is that of the instruction in X2, and then the one in DX1 is
\* on the wrong path, or that of a single-cycle instruction in DX1.
LEMMA MissFrom ==
    ASSUME ControlInv, ~halted
    PROVE  /\ WrongPath => Miss /\ TwoCycle(x2) /\ Retiring = x2
           /\ Miss /\ ~WrongPath => Retiring = dx1 /\ ~TwoCycle(dx1) /\ x2 = Bubble
<1>1. WritesPredicate(x2) => TwoCycle(x2)
  BY BubbleFields DEF ControlInv, PipelineShape
<1>2. ~TwoCycle(x2) => x2 = Bubble
  BY DEF ControlInv, PipelineShape
<1>3. TwoCycle(x2) => Retiring = x2 /\ DatapathResult = x2Result
  BY DEF Retiring, DatapathResult, X2Retires
<1>4. WrongPath => Miss
  BY <1>1, <1>3 DEF WrongPath, Miss, PredictionMiss, EndSpeculation, DatapathTrue
<1>5. Miss /\ TwoCycle(x2) => WrongPath
  BY <1>3 DEF WrongPath, Miss, PredictionMiss, EndSpeculation, DatapathTrue
<1>6. Miss => WritesPredicate(Retiring)
  BY DEF Miss, PredictionMiss, EndSpeculation
<1>7. ~TwoCycle(x2) /\ WritesPredicate(Retiring) => Retiring = dx1 /\ ~TwoCycle(dx1)
  BY BubbleFields DEF Retiring, X2Retires
<1> QED
  BY <1>1, <1>2, <1>3, <1>4, <1>5, <1>6, <1>7 DEF WrongPath

\* What an edge does to the channels of a core that has not halted.
LEMMA QueuesRunning ==
    ASSUME ControlInv, DataInv, ~halted,
           NEW arriving \in [InputChannels -> Arriving \cup {NoPacket}],
           NEW acknowledged \in SUBSET OutputChannels, Clock(arriving, acknowledged)
    PROVE  /\ InputsGrow(Dequeued(inq, dx1.icd), inq')
           /\ OutputsShrink(Enqueued(outq, Retiring, DatapathResult), outq')
<1>1. /\ inq' = [c \in InputChannels |->
                   InputChannelAfter(c, c \in DequeueSignals, arriving[c])]
      /\ outq' = [c \in OutputChannels |->
                    OutputChannelAfter(c, c \in EnqueueSignals, Outgoing, c \in acknowledged)]
  BY DEF Clock
<1>2. ~execute => dx1 = Bubble /\ x2 = Bubble
  BY DEF ControlInv, PipelineShape
<1>3. DequeueSignals = dx1.icd
  BY <1>2, BubbleFields DEF DequeueSignals, ControlInv, PipelineShape
<1>4. InFlight(Retiring) /\ DatapathResult \in Word
  BY ResultsType
<1>5. EnqueueSignals = Retiring.oci
  <2>1. Retiring = Bubble \/ Retiring.vi
    BY <1>4 DEF InFlight, WellFormed
  <2>2. ~execute => Retiring = Bubble
    BY <1>2 DEF Retiring
  <2> QED
    BY <2>1, <2>2, BubbleFields DEF EnqueueSignals
<1>6. UnitsTypeOK /\ \A c \in dx1.icd : c \in InputChannels => inq[c] # << >>
  BY DEF DataInv, TypeOK, ChannelInv
<1>7. \A c \in Retiring.oci : Len(outq[c]) < ChannelDepth
  BY <1>5, ChannelsRespectedFrom DEF ChannelsRespected
<1>8. InputsGrow(Dequeued(inq, dx1.icd), inq')
  BY <1>1, <1>3, <1>6, InputEdge
<1>9. OutputsShrink(Enqueued(outq, Retiring, DatapathResult), outq')
  BY <1>1, <1>4, <1>5, <1>6, <1>7, OutputEdge DEF Outgoing
<1> QED
  BY <1>8, <1>9

\* After a halt the channels only gain what arrives and lose what is taken.
LEMMA QueuesHalted ==
    ASSUME DataInv, halted,
           NEW arriving \in [InputChannels -> Arriving \cup {NoPacket}],
           NEW acknowledged \in SUBSET OutputChannels, Clock(arriving, acknowledged)
    PROVE  InputsGrow(inq, inq') /\ OutputsShrink(outq, outq')
<1>1. DequeueSignals = {} /\ EnqueueSignals = {}
  BY DEF DequeueSignals, EnqueueSignals
<1>2. ASSUME NEW c \in InputChannels PROVE Grows(inq[c], inq'[c])
  <2>1. arriving[c] # NoPacket => arriving[c] \in Packet
    BY PacketsAssumption
  <2>2. inq'[c] = InputChannelAfter(c, c \in DequeueSignals, arriving[c])
    BY DEF Clock
  <2> QED
    BY <1>1, <2>1, <2>2 DEF InputChannelAfter, Grows
<1>3. ASSUME NEW c \in OutputChannels PROVE Shrinks(outq[c], outq'[c])
  <2>1. outq'[c] = OutputChannelAfter(c, c \in EnqueueSignals, Outgoing, c \in acknowledged)
    BY DEF Clock
  <2> QED
    BY <1>1, <2>1 DEF OutputChannelAfter, Shrinks
<1> QED
  BY <1>2, <1>3 DEF InputsGrow, OutputsShrink

\* One edge later the instruction that retires is in the registers and the queues,
\* and the other one is in X2: together they make the same state.
LEMMA FlushedMoves ==
    ASSUME ControlInv, DataInv, DataInv', ~halted,
           NEW arriving \in [InputChannels -> Arriving \cup {NoPacket}],
           NEW acknowledged \in SUBSET OutputChannels, Clock(arriving, acknowledged)
    PROVE  /\ Regs2' = FlushedRegs /\ spad' = FlushedSpad
           /\ InputsGrow(FlushedInputs, inq') /\ OutputsShrink(FlushedOutputs, Outs2')
<1>1. /\ PipelineRegisters
      /\ regs' = RegistersWith(regs, Retiring, DatapathResult)
      /\ spad' = Stored(dx1, Dx1Operands, spad)
  BY DEF Clock
<1>2. /\ InputsGrow(Dequeued(inq, dx1.icd), inq')
      /\ OutputsShrink(Enqueued(outq, Retiring, DatapathResult), outq')
  BY QueuesRunning
<1>3. /\ regs \in [Registers -> Word] /\ regs' \in [Registers -> Word]
      /\ inq \in [InputChannels -> Queue]
      /\ outq \in [OutputChannels -> Queue] /\ outq' \in [OutputChannels -> Queue]
      /\ InFlight(dx1) /\ Dx1Result \in Word
  BY ResultsType DEF DataInv, TypeOK, UnitsTypeOK
<1>4. Regs2' = RegistersWith(regs', x2', x2Result') /\ Outs2' = Enqueued(outq', x2', x2Result')
  BY DEF Regs2, Outs2, RegistersWith, Enqueued
<1>5. \A value : /\ RegistersWith(regs, Bubble, value) = regs
                 /\ RegistersWith(regs', Bubble, value) = regs'
                 /\ RegistersWith(Regs2, Bubble, value) = Regs2
                 /\ Enqueued(outq, Bubble, value) = outq
                 /\ Enqueued(outq', Bubble, value) = outq'
                 /\ Enqueued(Outs2, Bubble, value) = Outs2
  <2>1. Outs2 \in [OutputChannels -> Queue]
    BY FlushedTypes
  <2> QED
    BY <1>3, <2>1, BubbleFields DEF RegistersWith, Enqueued
<1>6. CASE WrongPath
  <2>1. Miss /\ Retiring = x2 /\ TwoCycle(x2)
    BY <1>6, MissFrom
  <2>2. DatapathResult = x2Result /\ x2' = Bubble
    BY <1>1, <2>1 DEF DatapathResult, X2Retires, PipelineRegisters
  <2>3. Regs2' = Regs2 /\ OutputsShrink(Outs2, Outs2')
    BY <1>1, <1>2, <1>4, <1>5, <2>1, <2>2 DEF Regs2, Outs2
  <2>4. dx1.icd = {} /\ dx1.op # "ssw"
    BY <1>6 DEF WrongPath, ControlInv, SpeculationIsReversible
  <2>5. spad' = spad /\ Dequeued(inq, dx1.icd) = inq
    BY <1>1, <1>3, <2>4 DEF Stored, Dequeued
  <2> QED
    BY <1>2, <1>6, <2>3, <2>5 DEF FlushedRegs, FlushedSpad, FlushedInputs, FlushedOutputs
<1>7. CASE ~WrongPath
  <2> SUFFICES /\ Regs2' = RegistersWith(Regs2, dx1, Dx1Result)
               /\ OutputsShrink(Enqueued(Outs2, dx1, Dx1Result), Outs2')
    BY <1>1, <1>2, <1>7 DEF FlushedRegs, FlushedSpad, FlushedInputs, FlushedOutputs
  <2>1. Miss => ~TwoCycle(dx1) /\ x2 = Bubble
    BY <1>7, MissFrom
  <2>2. CASE TwoCycle(x2)
    <3>1. Retiring = x2 /\ DatapathResult = x2Result
      BY <2>2 DEF Retiring, DatapathResult, X2Retires
    <3>2. regs' = Regs2 /\ OutputsShrink(Outs2, outq')
      BY <1>1, <1>2, <3>1 DEF Regs2, Outs2
    <3>3. ~Miss
      BY <2>1, <2>2, BubbleFields
    <3>4. CASE TwoCycle(dx1)
      <4>1. x2' = dx1 /\ x2Result' = Dx1Result
        BY <1>1, <3>3, <3>4 DEF PipelineRegisters
      <4>2. Outs2 \in [OutputChannels -> Queue]
        BY FlushedTypes
      <4> QED
        BY <1>3, <1>4, <3>2, <4>1, <4>2, EnqueuedShrinks
    <3>5. CASE ~TwoCycle(dx1)
      <4>1. dx1 = Bubble
        BY <2>2, <3>5 DEF ControlInv, PipelineShape, SingleRetirement
      <4>2. x2' = Bubble
        BY <1>1, <3>5 DEF PipelineRegisters
      <4> QED
        BY <1>4, <1>5, <3>2, <4>1, <4>2
    <3> QED
      BY <3>4, <3>5
  <2>3. CASE ~TwoCycle(x2)
    <3>1. x2 = Bubble
      BY <2>3 DEF ControlInv, PipelineShape
    <3>2. Regs2 = regs /\ Outs2 = outq
      BY <1>5, <3>1 DEF Regs2, Outs2
    <3>3. DatapathResult = Dx1Result
      BY <2>3 DEF DatapathResult, X2Retires
    <3>4. CASE TwoCycle(dx1)
      <4>1. Retiring = Bubble
        BY <2>3, <3>4 DEF Retiring, X2Retires
      <4>2. regs' = regs /\ OutputsShrink(outq, outq')
        BY <1>1, <1>2, <1>5, <4>1
      <4>3. x2' = dx1 /\ x2Result' = Dx1Result
        BY <1>1, <2>1, <3>4 DEF PipelineRegisters
      <4> QED
        BY <1>3, <1>4, <3>2, <4>2, <4>3, EnqueuedShrinks
    <3>5. CASE ~TwoCycle(dx1)
      <4>1. Retiring = dx1
        BY <2>3, <3>5 DEF Retiring, X2Retires
      <4>2. x2' = Bubble
        BY <1>1, <3>5 DEF PipelineRegisters
      <4> QED
        BY <1>1, <1>2, <1>4, <1>5, <3>2, <3>3, <4>1, <4>2
    <3> QED
      BY <3>4, <3>5
  <2> QED
    BY <2>2, <2>3
<1> QED
  BY <1>6, <1>7

\* What the channel status updaters show the trigger stage is the status the channels
\* will have behind the instructions in flight, exactly or on the safe side.
LEMMA StatusShown ==
    ASSUME DataInv, ControlInv, ~halted, ~WrongPath
    PROVE  /\ NoPackets(FlushedInputs) \subseteq UpdatedEmpty
           /\ NoRoom(FlushedOutputs) \subseteq UpdatedFull
           /\ HasFullInformation => /\ UpdatedEmpty = NoPackets(FlushedInputs)
                                    /\ UpdatedFull = NoRoom(FlushedOutputs)
           /\ \A c \in InputChannels \ UpdatedEmpty :
                 ResolvedTags[c] = Head(FlushedInputs[c]).tag
<1>1. FlushedInputs = Dequeued(inq, dx1.icd)
      /\ FlushedOutputs = Enqueued(Outs2, dx1, Dx1Result)
  BY DEF FlushedInputs, FlushedOutputs
<1>2. ASSUME NEW c \in InputChannels
      PROVE  /\ (FlushedInputs[c] = << >>) <=> Len(inq[c]) <= (IF c \in dx1.icd THEN 1 ELSE 0)
             /\ FlushedInputs[c] = << >> => c \in EmptyChannels \cup dx1.icd
             /\ c \notin UpdatedEmpty =>
                   FlushedInputs[c][1] = inq[c][IF c \in dx1.icd THEN 2 ELSE 1]
  <2> DEFINE q == inq[c]
  <2>1. q \in Queue
    BY DEF DataInv, TypeOK, UnitsTypeOK
  <2>2. c \in dx1.icd => q # << >>
    BY DEF DataInv, ChannelInv
  <2>3. FlushedInputs[c] = IF c \in dx1.icd THEN Tail(q) ELSE q
    BY <1>1, <2>2 DEF Dequeued
  <2>4. c \notin UpdatedEmpty => Len(q) > 1 \/ c \notin dx1.icd
    <3>1. Len(q) \in Nat
      BY <2>1, QueueFront
    <3> QED
      BY <3>1 DEF UpdatedEmpty, EmptyBehind, EmptyChannels
  <2>5. q = << >> => c \in EmptyChannels
    BY DEF EmptyChannels
  <2> HIDE DEF q
  <2>6. CASE c \in dx1.icd
    <3>1. (FlushedInputs[c] = << >>) <=> Len(q) <= 1
      BY <2>1, <2>2, <2>3, <2>6, QueueFront
    <3>2. Len(q) > 1 => Tail(q)[1] = q[2]
      BY <2>1, QueueFront
    <3> QED
      BY <2>3, <2>4, <2>6, <3>1, <3>2 DEF q
  <2>7. CASE c \notin dx1.icd
    <3>1. (FlushedInputs[c] = << >>) <=> Len(q) <= 0
      <4>1. Len(q) \in Nat /\ (q = << >> <=> Len(q) = 0)
        BY <2>1, QueueFront
      <4>2. FlushedInputs[c] = q
        BY <2>3, <2>7
      <4> QED
        BY <4>1, <4>2
    <3> QED
      BY <2>3, <2>5, <2>7, <3>1 DEF q
  <2> QED
    BY <2>6, <2>7
<1>3. NoPackets(FlushedInputs) \subseteq UpdatedEmpty
      /\ (HasFullInformation => UpdatedEmpty = NoPackets(FlushedInputs))
  BY <1>2 DEF NoPackets, UpdatedEmpty, EmptyBehind
<1>4. ASSUME NEW c \in OutputChannels
      PROVE  /\ Len(FlushedOutputs[c]) = Len(outq[c]) + (IF c \in dx1.oci THEN 1 ELSE 0)
                                                      + (IF c \in x2.oci THEN 1 ELSE 0)
             /\ Len(outq[c]) \in Nat /\ Len(outq[c]) <= ChannelDepth
  <2>1. InFlight(dx1) /\ Dx1Result \in Word /\ InFlight(x2) /\ x2Result \in Word
    BY ResultsType DEF DataInv, TypeOK
  <2>2. outq \in [OutputChannels -> Queue] /\ Outs2 \in [OutputChannels -> Queue]
    BY FlushedTypes DEF DataInv, TypeOK, UnitsTypeOK
  <2> DEFINE first == c \in dx1.oci
             second == c \in x2.oci
             before == Len(outq[c])
             between == Len(Outs2[c])
             after == Len(FlushedOutputs[c])
  <2>3. before \in Nat /\ before <= ChannelDepth
    BY DEF DataInv, TypeOK, UnitsTypeOK, Queue
  <2>4. (second => between = before + 1) /\ (~second => between = before)
    BY <2>1, <2>2, EnqueuedLength DEF Outs2
  <2>5. (first => after = between + 1) /\ (~first => after = between)
    BY <1>1, <2>1, <2>2, EnqueuedLength
  <2> HIDE DEF first, second, before, between, after
  <2>6. after = before + (IF first THEN 1 ELSE 0) + (IF second THEN 1 ELSE 0)
    BY <2>3, <2>4, <2>5
  <2> QED
    BY <2>3, <2>6 DEF first, second, before, after
<1>5. NoRoom(FlushedOutputs) \subseteq UpdatedFull
      /\ (HasFullInformation => UpdatedFull = NoRoom(FlushedOutputs))
  <2>1. ChannelDepth \in Nat
    BY SizesAssumption
  <2>2. CASE HasFullInformation
    BY <1>4, <2>2 DEF NoRoom, UpdatedFull
  <2>3. CASE ~HasFullInformation
    <3>1. ASSUME NEW c \in OutputChannels, Len(FlushedOutputs[c]) >= ChannelDepth,
                 c \notin dx1.oci, c \notin x2.oci
          PROVE  Len(outq[c]) = ChannelDepth
      <4> DEFINE before == Len(outq[c])
                 after == Len(FlushedOutputs[c])
      <4>1. after = before + 0 + 0 /\ before \in Nat /\ before <= ChannelDepth
        BY <1>4, <3>1
      <4>2. after >= ChannelDepth
        BY <3>1
      <4> HIDE DEF before, after
      <4> QED
        BY <2>1, <4>1, <4>2 DEF before
    <3> QED
      BY <2>3, <3>1 DEF NoRoom, UpdatedFull, FullChannels
  <2> QED
    BY <2>2, <2>3
<1>6. ASSUME NEW c \in InputChannels \ UpdatedEmpty
      PROVE  ResolvedTags[c] = Head(FlushedInputs[c]).tag
  <2>1. ~execute => dx1 = Bubble
    BY DEF ControlInv, PipelineShape
  <2>2. DequeueSignals = dx1.icd
    BY <2>1, BubbleFields DEF DequeueSignals, ControlInv, PipelineShape
  <2>3. ResolvedTags[c] = inq[c][IF c \in dx1.icd THEN 2 ELSE 1].tag
    BY <2>2 DEF ResolvedTags, TagsBehind
  <2>4. FlushedInputs[c] \in Seq(Packet) /\ FlushedInputs[c] # << >>
    BY <1>3, FlushedTypes DEF NoPackets, Queue
  <2> QED
    BY <1>2, <2>3, <2>4
<1> QED
  BY <1>3, <1>5, <1>6

\* The writer of the open prediction, and what it brings when it is not annulled.
LEMMA WriterInFlight ==
    ASSUME ControlInv, ~halted, speculating
    PROVE  /\ Ends <=> ~(WritesPredicate(dx1) /\ TwoCycle(dx1))
           /\ Ends => (WriterValue <=> DatapathTrue)
           /\ WritesPredicate(dx1) => ~WritesPredicate(x2) /\ (WriterValue <=> Dx1Result # 0)
<1>1. /\ ~(WritesPredicate(dx1) /\ WritesPredicate(x2))
      /\ WritesPredicate(dx1) \/ WritesPredicate(x2)
  BY DEF ControlInv, PipelineShape, SpeculationTracksWriter
<1>2. WritesPredicate(x2) => TwoCycle(x2) /\ Retiring = x2 /\ DatapathResult = x2Result
  BY BubbleFields DEF ControlInv, PipelineShape, Retiring, DatapathResult, X2Retires
<1>3. WritesPredicate(dx1) /\ ~TwoCycle(dx1) =>
        Retiring = dx1 /\ DatapathResult = Dx1Result
  BY BubbleFields DEF ControlInv, PipelineShape, SingleRetirement, Retiring, DatapathResult,
     X2Retires
<1>4. WritesPredicate(dx1) /\ TwoCycle(dx1) => ~WritesPredicate(Retiring)
  BY <1>1, RetiringWriter DEF ControlInv
<1> QED
  BY <1>1, <1>2, <1>3, <1>4, Signals DEF WriterValue, DatapathTrue

\* Which results the predicates of the machine are waiting for, without a prediction.
LEMMA PlainPreds ==
    ASSUME ~speculating
    PROVE  DrainedPreds = PredicatesWith(PredicatesWith(preds, x2, x2Result), dx1, Dx1Result)
  BY DEF DrainedPreds, Preds2

\* A step that fires nothing leaves the predicates of the machine alone.
LEMMA PredsIdle ==
    ASSUME ControlInv, ControlInv', DataInv, ~halted, ~halted',
           NEW arriving, NEW acknowledged, Clock(arriving, acknowledged),
           dx1' = Bubble \/ WrongPath'
    PROVE  DrainedPreds' = DrainedPreds
<1> USE DEF ControlInv, PipelineShape, SpeculationTracksWriter
<1>1. PredicateUnit(HazardFree, Retiring, DatapathTrue) /\ PipelineRegisters
  BY DEF Clock
<1>2. \A p, value : PredicatesWith(p, Bubble, value) = p
  BY BubbleFields DEF PredicatesWith
<1>3. \A ins, p, value : ~WritesPredicate(ins) => PredicatesWith(p, ins, value) = p
  BY DEF PredicatesWith
<1>4. DrainedPreds' =
        IF ~speculating'
        THEN PredicatesWith(PredicatesWith(preds', x2', x2Result'), dx1', Dx1Result')
        ELSE IF WriterValue' = savedPrediction' THEN preds' ELSE savedPreds'
  BY DEF DrainedPreds, Preds2, PredicatesWith, WritesPredicate
<1>5. CASE ~internalEnable
  <2>1. dx1 = Bubble /\ x2 = Bubble /\ ~speculating /\ prog \in Programs
    BY <1>5, BubbleFields
  <2>2. preds' = preds /\ speculating' = speculating /\ x2' = Bubble
    BY <1>1, <1>5, <2>1, BubbleFields, PipelineAfter DEF PredicateUnit, predicateUnit
  <2>3. dx1' = Bubble
    BY <1>1, <1>5, <2>1, IssueShape, PipelineAfter
  <2> QED
    BY <1>2, <1>4, <2>1, <2>2, <2>3, PlainPreds
<1>6. CASE internalEnable /\ ~speculating
  <2>1. ~Miss /\ ~Ends /\ ~Hit /\ ~Override
    BY <1>6, Signals
  <2>2. dx1' = HazardFree
    BY <1>1, <2>1, IssueShape, PipelineAfter
  <2>3. ~WrongPath' \/ HazardFree = Bubble
    <3>1. WrongPath' => speculating' /\ WritesPredicate(x2')
      BY DEF WrongPath, WritesPredicate
    <3>2. WritesPredicate(x2') => ~HasSpeculativePredicateUnit
      BY <1>1, <1>6, PipelineAfter, BubbleFields
    <3> QED
      BY <3>1, <3>2
  <2>4. HazardFree = Bubble
    BY <2>2, <2>3
  <2>5. ~Begins
    BY <2>4, BubbleFields, Signals
  <2>6. ~speculating' /\ preds' = NextPreds(Bubble, Retiring, DatapathTrue)
    BY <1>1, <1>6, <2>1, <2>4, <2>5, NoneBegins DEF Begins, Miss, Override
  <2>7. preds' = PredicatesWith(preds, Retiring, DatapathResult)
    BY <2>1, <2>6, ResultOnly DEF DatapathTrue, Ends, DataInv, TypeOK, UnitsTypeOK
  <2>8. DrainedPreds' = PredicatesWith(preds', x2', x2Result')
    BY <1>2, <1>4, <2>2, <2>4, <2>6
  <2>9. CASE TwoCycle(x2)
    <3>1. Retiring = x2 /\ DatapathResult = x2Result
      BY <2>9 DEF Retiring, DatapathResult, X2Retires
    <3>2. (dx1 = Bubble /\ x2' = Bubble) \/ (x2' = dx1 /\ x2Result' = Dx1Result)
      BY <1>1, <2>1, <2>9, BubbleFields DEF PipelineRegisters, SingleRetirement
    <3> QED
      BY <1>2, <1>6, <2>7, <2>8, <3>1, <3>2, PlainPreds
  <2>10. CASE ~TwoCycle(x2) /\ TwoCycle(dx1)
    <3>1. Retiring = Bubble /\ x2 = Bubble
      BY <2>10 DEF Retiring, X2Retires
    <3>2. x2' = dx1 /\ x2Result' = Dx1Result
      BY <1>1, <2>1, <2>10 DEF PipelineRegisters
    <3> QED
      BY <1>2, <1>6, <2>7, <2>8, <3>1, <3>2, PlainPreds
  <2>11. CASE ~TwoCycle(x2) /\ ~TwoCycle(dx1)
    <3>1. Retiring = dx1 /\ x2 = Bubble /\ DatapathResult = Dx1Result
      BY <2>11 DEF Retiring, DatapathResult, X2Retires
    <3>2. x2' = Bubble
      BY <1>1, <2>11 DEF PipelineRegisters
    <3> QED
      BY <1>2, <1>6, <2>7, <2>8, <3>1, <3>2, PlainPreds
  <2> QED
    BY <2>9, <2>10, <2>11
<1>7. CASE internalEnable /\ speculating /\ ~Ends
  <2>1. WritesPredicate(dx1) /\ TwoCycle(dx1) /\ ~Hit /\ ~Miss /\ ~Begins
    BY <1>7, WriterInFlight, Signals
  <2>2. x2' = dx1 /\ x2Result' = Dx1Result /\ dx1' = Issued
    BY <1>1, <2>1 DEF PipelineRegisters
  <2>3. /\ speculating' /\ savedPrediction' = savedPrediction /\ savedPreds' = savedPreds
        /\ preds' = IF Override THEN preds ELSE NextPreds(HazardFree, Retiring, DatapathTrue)
    BY <1>1, <1>7, <2>1, NoneBegins DEF Begins, Ends, Miss, Override
  <2>4. WriterValue' <=> WriterValue
    <3>1. WriterValue' <=> x2Result' # 0
      BY <2>1, <2>2 DEF WriterValue, WritesPredicate
    <3> QED
      BY <1>7, <2>1, <2>2, <3>1, WriterInFlight
  <2>5. WriterValue \in BOOLEAN /\ WriterValue' \in BOOLEAN
    BY DEF WriterValue
  <2>6. CASE WrongPath'
    <3>1. WriterValue' # savedPrediction'
      BY <2>1, <2>2, <2>6 DEF WrongPath, WriterValue, WritesPredicate
    <3> QED
      BY <1>4, <1>7, <2>3, <2>4, <2>5, <3>1 DEF DrainedPreds
  <2>7. CASE dx1' = Bubble
    <3>1. Override \/ HazardFree = Bubble
      BY <2>2, <2>7 DEF Issued
    <3>2. Override \/ preds' = PredicatesWith(preds, Retiring, DatapathResult)
      BY <1>7, <2>3, <3>1, ResultOnly DEF DatapathTrue, Ends, DataInv, TypeOK, UnitsTypeOK
    <3>3. ~WritesPredicate(Retiring)
      BY <1>7, Signals
    <3>4. preds' = preds
      BY <1>3, <2>3, <3>2, <3>3
    <3> QED
      BY <1>4, <1>7, <2>3, <2>4, <2>5, <3>4 DEF DrainedPreds
  <2> QED
    BY <2>6, <2>7
<1>8. CASE internalEnable /\ speculating /\ Ends
  <2>1. ~WritesPredicate(x2') /\ HasSpeculativePredicateUnit
    BY <1>1, <1>8, WriterInFlight, PipelineAfter, BubbleFields
  <2>2. dx1' = Bubble
    BY <2>1 DEF WrongPath, WritesPredicate
  <2>3. ~Begins
    <3>1. Begins => speculating'
      BY <1>1, <1>8, SpeculatingAfter
    <3> QED
      BY <2>1, <2>2, <3>1, BubbleFields DEF WritesPredicate
  <2>4. /\ ~speculating'
        /\ preds' = IF Miss THEN savedPreds
                    ELSE IF Override THEN preds
                    ELSE NextPreds(HazardFree, Retiring, DatapathTrue)
    BY <1>1, <1>8, <2>3, NoneBegins DEF Begins, Ends, Miss, Override
  <2>5. DrainedPreds' = preds'
    BY <1>2, <1>3, <1>4, <2>1, <2>2, <2>4
  <2>6. (WriterValue = savedPrediction) <=> ~Miss
    BY <1>8, WriterInFlight, Signals DEF WriterValue, DatapathTrue, DataInv, TypeOK, UnitsTypeOK
  <2>7. ~Miss /\ ~Override => preds' = preds
    <3>1. ~Miss /\ ~Override => HazardFree = Bubble
      BY <1>1, <2>2, PipelineAfter DEF Issued
    <3>2. Masked(preds, Bubble) = preds
      BY BubbleFields DEF Masked
    <3>3. DatapathTrue \in BOOLEAN
      BY DEF DatapathTrue
    <3> QED
      BY <1>8, <2>4, <3>1, <3>2, <3>3, MaskOnly DEF Ends
  <2> QED
    BY <1>8, <2>4, <2>5, <2>6, <2>7 DEF DrainedPreds
<1> QED
  BY <1>5, <1>6, <1>7, <1>8

\* An instruction that enters DX1 on the right path saw the predicates the machine
\* sees, and adds its mask and its result to them.
LEMMA PredsFire ==
    ASSUME ControlInv, ControlInv', DataInv, ~halted, internalEnable,
           NEW arriving, NEW acknowledged, Clock(arriving, acknowledged),
           NEW ins, WellFormed(ins), ins = HazardFree, dx1' = ins, ~Miss, ~Override,
           HazardFree # Bubble, ~WrongPath'
    PROVE  /\ DrainedPreds = preds
           /\ DrainedPreds' = Masked(PredicatesWith(preds, ins, Dx1Result'), ins)
<1> USE DEF ControlInv, PipelineShape, SpeculationTracksWriter
<1>1. PredicateUnit(ins, Retiring, DatapathTrue) /\ PipelineRegisters
  BY DEF Clock
<1>2. \A i, p, value : ~WritesPredicate(i) => PredicatesWith(p, i, value) = p
  BY DEF PredicatesWith
<1>3. DrainedPreds' =
        IF ~speculating'
        THEN PredicatesWith(PredicatesWith(preds', x2', x2Result'), dx1', Dx1Result')
        ELSE IF WriterValue' = savedPrediction' THEN preds' ELSE savedPreds'
  BY DEF DrainedPreds, Preds2, PredicatesWith, WritesPredicate
<1>4. /\ DatapathTrue \in BOOLEAN /\ WriterValue \in BOOLEAN /\ WriterValue' \in BOOLEAN
  BY DEF DatapathTrue, WriterValue
<1>5. \A p : PredicatesWith(Masked(p, ins), ins, Dx1Result') =
               Masked(PredicatesWith(p, ins, Dx1Result'), ins)
  <2> TAKE p
  <2> QED
    BY MaskCommutes
<1>6. ASSUME ~WritesPredicate(Retiring) \/ Ends, ~Begins
      PROVE  /\ speculating' = (speculating /\ ~Ends)
             /\ savedPrediction' = savedPrediction /\ savedPreds' = savedPreds
             /\ preds' = Masked(preds, ins)
  <2>1. NextPreds(ins, Retiring, DatapathTrue) = Masked(preds, ins)
    BY <1>4, <1>6, MaskOnly DEF Ends
  <2> QED
    BY <1>1, <1>6, <2>1, NoneBegins DEF Begins, Ends, Miss, Override
<1>7. ASSUME ~WritesPredicate(Retiring) \/ Ends, Begins, ~WritesPredicate(x2')
      PROVE  DrainedPreds' = Masked(PredicatesWith(preds, ins, Dx1Result'), ins)
  <2>1. /\ speculating' = TRUE
        /\ (IF (Dx1Result' # 0) = savedPrediction' THEN preds' ELSE savedPreds') =
              Masked(PredicatesWith(preds, ins, Dx1Result'), ins)
    BY <1>1, <1>4, <1>7, PredictionBegins DEF Begins, Ends
  <2>2. WriterValue' = (Dx1Result' # 0)
    BY <1>7 DEF WriterValue, WritesPredicate
  <2> QED
    BY <1>3, <2>1, <2>2
<1>8. CASE ~speculating
  <2>1. ~Ends
    BY <1>8, Signals
  <2>2. ~WritesPredicate(dx1) /\ ~WritesPredicate(x2)
    <3>1. CASE HasSpeculativePredicateUnit
      BY <1>8, <3>1
    <3>2. CASE ~HasSpeculativePredicateUnit
      BY <3>2 DEF HazardFree, ControlHazard
    <3> QED
      BY <3>1, <3>2
  <2>3. ~WritesPredicate(Retiring) /\ ~WritesPredicate(x2')
    BY <1>1, <2>2, RetiringWriter, PipelineAfter, BubbleFields
  <2>4. DrainedPreds = preds
    BY <1>2, <1>8, <2>2, PlainPreds
  <2>5. CASE ~Begins
    <3>1. ~speculating' /\ preds' = Masked(preds, ins)
      BY <1>6, <1>8, <2>3, <2>5
    <3>2. DrainedPreds' = PredicatesWith(preds', ins, Dx1Result')
      BY <1>2, <1>3, <2>3, <3>1
    <3> QED
      BY <1>5, <2>4, <3>1, <3>2
  <2> QED
    BY <1>7, <2>3, <2>4, <2>5
<1>9. CASE speculating /\ ~Ends
  <2>1. WritesPredicate(dx1) /\ TwoCycle(dx1) /\ ~Hit /\ ~Begins
    BY <1>9, WriterInFlight, Signals
  <2>2. x2' = dx1 /\ x2Result' = Dx1Result
    BY <1>1, <2>1 DEF PipelineRegisters
  <2>3. ~WritesPredicate(ins) /\ ~WritesPredicate(Retiring)
    BY <1>9, <2>1, Signals
  <2>4. /\ speculating' /\ savedPrediction' = savedPrediction
        /\ preds' = Masked(preds, ins)
    BY <1>6, <1>9, <2>1, <2>3
  <2>5. WriterValue' = savedPrediction'
    <3>1. WritesPredicate(x2)' /\ WriterValue' = (x2Result' # 0)
      BY <2>1, <2>2 DEF WriterValue, WritesPredicate
    <3>2. (x2Result' # 0) = savedPrediction'
      BY <2>4, <3>1 DEF WrongPath
    <3> QED
      BY <3>1, <3>2
  <2>6. WriterValue <=> WriterValue'
    <3>1. WriterValue' <=> x2Result' # 0
      BY <2>1, <2>2 DEF WriterValue, WritesPredicate
    <3> QED
      BY <1>9, <2>1, <2>2, <3>1, WriterInFlight
  <2>7. DrainedPreds = preds
    BY <1>4, <1>9, <2>4, <2>5, <2>6 DEF DrainedPreds
  <2>8. DrainedPreds' = Masked(preds, ins)
    BY <1>3, <2>4, <2>5
  <2> QED
    BY <1>2, <2>3, <2>7, <2>8
<1>10. CASE speculating /\ Ends
  <2>1. Hit /\ ~WritesPredicate(x2')
    BY <1>1, <1>10, WriterInFlight, PipelineAfter, BubbleFields, Signals
  <2>2. DrainedPreds = preds
    BY <1>4, <1>10, <2>1, WriterInFlight, Signals DEF DrainedPreds
  <2>3. CASE ~Begins
    <3>1. ~speculating' /\ preds' = Masked(preds, ins)
      BY <1>6, <1>10, <2>3
    <3>2. DrainedPreds' = PredicatesWith(preds', ins, Dx1Result')
      BY <1>2, <1>3, <2>1, <3>1
    <3> QED
      BY <1>5, <2>2, <3>1, <3>2
  <2> QED
    BY <1>7, <1>10, <2>1, <2>2, <2>3
<1> QED
  BY <1>8, <1>9, <1>10

\* An edge of a core that has not halted and does not halt.
LEMMA RunningEdge ==
    ASSUME ControlInv, ControlInv', DataInv, DataInv', ~halted, ~halted', dx1.op # "halt",
           NEW arriving \in [InputChannels -> Arriving \cup {NoPacket}],
           NEW acknowledged \in SUBSET OutputChannels, Clock(arriving, acknowledged)
    PROVE  Machine!Next
<1>1. PipelineRegisters /\ prog' = prog /\ prog \in Programs
  BY DEF Clock, ControlInv, PipelineShape
<1>2. Flushed = State(FlushedRegs, DrainedPreds, FlushedSpad, FlushedInputs, FlushedOutputs)
  BY FlushedRunning
<1>3. /\ Regs2' = FlushedRegs /\ spad' = FlushedSpad
      /\ InputsGrow(FlushedInputs, inq') /\ OutputsShrink(FlushedOutputs, Outs2')
  BY FlushedMoves
<1>4. ~MachineHalted /\ (MachineHalted' <=> dx1'.op = "halt" /\ ~WrongPath')
  BY DEF MachineHalted
<1>5. CASE dx1' = Bubble \/ WrongPath'
  <2>1. DrainedPreds' = DrainedPreds
    BY <1>5, PredsIdle
  <2>2. Flushed' = State(Regs2', DrainedPreds', spad', inq', Outs2')
    <3>1. (ControlInv /\ DataInv /\ ~halted /\ (WrongPath \/ dx1 = Bubble) =>
             Flushed = State(Regs2, DrainedPreds, spad, inq, Outs2))'
      BY FlushedIdle, PTL
    <3> QED
      BY <1>5, <3>1 DEF Bubble, State
  <2>3. MachineHalted' = MachineHalted
    BY <1>4, <1>5, BubbleFields DEF MachineHalted
  <2> QED
    BY <1>1, <1>2, <1>3, <2>1, <2>2, <2>3, IdleStep
<1>6. CASE dx1' # Bubble /\ ~WrongPath'
  <2> DEFINE ins == dx1'
  <2>1. ins = Issued /\ ~Miss
    BY <1>1, <1>6, PipelineAfter
  <2>2. ins = HazardFree /\ ins = Triggering /\ ~Override /\ internalEnable
    BY <1>1, <1>6, <2>1, IssueShape DEF Issued, HazardFree
  <2>3. ~WrongPath
    BY <2>1, MissFrom
  <2>4. PICK n \in DOMAIN prog :
          /\ ins = prog[n]
          /\ Triggered(prog[n], preds, NoPackets(FlushedInputs), NoRoom(FlushedOutputs),
                       HeadTags(FlushedInputs))
          /\ \A j \in DOMAIN prog :
                /\ Triggered(prog[j], preds, NoPackets(FlushedInputs),
                             NoRoom(FlushedOutputs), HeadTags(FlushedInputs))
                /\ j < n
                => ~HasFullInformation /\ Waits(prog[j])
    BY <1>1, <1>6, <2>2, <2>3, StatusShown, TriggerAgrees DEF Triggering
  <2>5. WellFormed(ins)
    BY <1>1, <2>4, ProgramsAssumption
  <2>6. DrainedPreds = preds
        /\ DrainedPreds' = Masked(PredicatesWith(preds, ins, Dx1Result'), ins)
    BY <1>6, <2>1, <2>2, <2>5, PredsFire
  <2> DEFINE v == Value(ins, FlushedRegs, inq', FlushedSpad)
  <2>7. /\ Dx1Result' = v
        /\ Flushed' = State(RegistersWith(FlushedRegs, ins, v), DrainedPreds',
                            Stored(ins, Operands(ins, FlushedRegs, inq'), FlushedSpad),
                            Dequeued(inq', ins.icd), Enqueued(Outs2', ins, v))
    <3>1. (ControlInv /\ DataInv => Value(dx1, Regs2, inq, spad) = Dx1Result)'
      BY Dx1Finds, PTL
    <3>2. (ControlInv /\ DataInv /\ ~halted /\ ~WrongPath =>
             Flushed = State(RegistersWith(Regs2, dx1, Value(dx1, Regs2, inq, spad)),
                             DrainedPreds, Stored(dx1, Operands(dx1, Regs2, inq), spad),
                             Dequeued(inq, dx1.icd),
                             Enqueued(Outs2, dx1, Value(dx1, Regs2, inq, spad))))'
      BY FlushedFire, PTL
    <3>3. Value(dx1, Regs2, inq, spad)' = v
      BY <1>3 DEF Value, Operands, Operand, HeadData, Result, Truth
    <3> QED
      BY <1>3, <1>6, <3>1, <3>2, <3>3 DEF State, RegistersWith, Stored, Dequeued, Enqueued
  <2>8. MachineHalted' = (prog[n].op = "halt")
    BY <1>4, <1>6, <2>4 DEF MachineHalted
  <2>9. /\ FlushedRegs \in [Registers -> Word]
        /\ FlushedSpad \in [0 .. ScratchpadDepth - 1 -> Word]
        /\ FlushedInputs \in [InputChannels -> Queue]
        /\ FlushedOutputs \in [OutputChannels -> Queue]
    BY FlushedTypes
  <2> HIDE DEF ins, v
  <2>10. Flushed' = State(RegistersWith(FlushedRegs, ins, v),
                          Masked(PredicatesWith(preds, ins, v), ins),
                          Stored(ins, Operands(ins, FlushedRegs, inq'), FlushedSpad),
                          Dequeued(inq', ins.icd), Enqueued(Outs2', ins, v))
    BY <2>6, <2>7
  <2>11. Flushed = State(FlushedRegs, preds, FlushedSpad, FlushedInputs, FlushedOutputs)
    BY <1>2, <2>6
  <2> QED
    BY <1>1, <1>3, <1>4, <2>4, <2>5, <2>8, <2>9, <2>10, <2>11, FireStep DEF v
<1> QED
  BY <1>5, <1>6

\* An edge of a core that has halted, or in which the halt retires.
LEMMA HaltedEdge ==
    ASSUME ControlInv, DataInv, DataInv', halted \/ dx1.op = "halt",
           NEW arriving \in [InputChannels -> Arriving \cup {NoPacket}],
           NEW acknowledged \in SUBSET OutputChannels, Clock(arriving, acknowledged)
    PROVE  Machine!Next
<1>1. PipelineRegisters /\ prog' = prog /\ ExecutionControl(Retiring)
  BY DEF Clock
<1>2. Flushed = State(regs, preds, spad, inq, outq) \/ ~halted
  BY FlushedState
<1>3. halted' => Flushed' = State(regs', preds', spad', inq', outq')
  BY DEF Flushed, CurrentState, State
<1>4. inq \in [InputChannels -> Queue]
  BY DEF DataInv, TypeOK, UnitsTypeOK
<1>5. CASE halted
  <2>1. halted' /\ MachineHalted /\ MachineHalted'
    BY <1>1, <1>5 DEF ExecutionControl, MachineHalted
  <2>2. InputsGrow(inq, inq') /\ OutputsShrink(outq, outq')
    BY <1>5, QueuesHalted
  <2> QED
    BY <1>1, <1>2, <1>3, <1>4, <1>5, <2>1, <2>2, HaltStep
<1>6. CASE ~halted /\ dx1.op = "halt"
  <2>1. ~TwoCycle(dx1) /\ dx1 # Bubble /\ x2 = Bubble
    BY <1>6, BubbleFields DEF TwoCycle, TwoCycleOps, ControlInv, PipelineShape, SingleRetirement
  <2>2. Retiring = dx1 /\ ~WrongPath
    BY <2>1, BubbleFields DEF Retiring, X2Retires, WrongPath
  <2>3. execute
    BY <1>6, <2>1 DEF ControlInv, PipelineShape
  <2>4. halted' /\ MachineHalted /\ MachineHalted'
    BY <1>1, <1>6, <2>2, <2>3 DEF ExecutionControl, MachineHalted
  <2>5. x2' = Bubble
    BY <1>1, <2>1 DEF PipelineRegisters
  <2>6. InputsGrow(FlushedInputs, inq') /\ OutputsShrink(FlushedOutputs, outq')
    <3>1. InputsGrow(FlushedInputs, inq') /\ OutputsShrink(FlushedOutputs, Outs2')
      BY <1>6, FlushedMoves
    <3>2. outq' \in [OutputChannels -> Queue]
      BY DEF DataInv, TypeOK, UnitsTypeOK
    <3>3. Outs2' = outq'
      BY <2>5, <3>2, BubbleFields DEF Outs2, Enqueued
    <3> QED
      BY <3>1, <3>3
  <2>7. FlushedInputs \in [InputChannels -> Queue]
    BY FlushedTypes
  <2>8. Flushed = State(FlushedRegs, DrainedPreds, FlushedSpad, FlushedInputs, FlushedOutputs)
    BY <1>6, FlushedRunning
  <2> QED
    BY <1>1, <1>3, <2>4, <2>6, <2>7, <2>8, HaltStep
<1> QED
  BY <1>5, <1>6

LEMMA MachineInit == Init => Machine!Init
<1> SUFFICES ASSUME Init PROVE Machine!Init
  OBVIOUS
<1>1. ControlInv /\ DataInv /\ ~halted /\ dx1 = Bubble /\ x2 = Bubble
  BY ControlInvInit, DataInvInit DEF Init, InitUnits
<1>2. /\ preds = {} /\ inq = [c \in InputChannels |-> << >>]
      /\ outq = [c \in OutputChannels |-> << >>] /\ ~speculating
  BY DEF Init, InitUnits
<1>3. Flushed = State(Regs2, DrainedPreds, spad, inq, Outs2)
  BY <1>1, FlushedIdle
<1>4. Outs2 = outq /\ DrainedPreds = {}
  BY <1>1, <1>2, BubbleFields DEF Outs2, Enqueued, DrainedPreds, Preds2, PredicatesWith
<1>5. /\ Flushed.preds = {} /\ Flushed.inq = inq /\ Flushed.outq = outq
  BY <1>3, <1>4, StateFields
<1> QED
  BY <1>1, <1>2, <1>5, BubbleFields DEF Machine!Init

\* What the flushed state is made of does not change when the host starts the core.
LEMMA MachineStutters ==
    ASSUME ControlInv, DataInv, ControlInv', DataInv', BeginExecution \/ UNCHANGED vars
    PROVE  UNCHANGED << prog, Flushed, MachineHalted >>
<1>1. /\ prog' = prog /\ halted' = halted /\ regs' = regs /\ spad' = spad /\ inq' = inq
      /\ outq' = outq /\ preds' = preds /\ speculating' = speculating
      /\ savedPrediction' = savedPrediction /\ savedPreds' = savedPreds
      /\ dx1' = dx1 /\ x2' = x2 /\ x2Result' = x2Result
  BY DEF BeginExecution, vars, control, predicateUnit, pipeline
<1>2. Flushed' = Flushed
  <2>1. Regs2' = Regs2 /\ Outs2' = Outs2 /\ WrongPath' = WrongPath
    BY <1>1 DEF Regs2, RegistersWith, Outs2, Enqueued, WrongPath, WritesPredicate
  <2>2. Dx1Operands' = Dx1Operands
    BY <1>1 DEF Dx1Operands, ForwardedRegs, X2Retires, TwoCycle, RegistersWith, Operands,
       Operand, HeadData
  <2>3. Dx1Result' = Dx1Result
    BY <1>1, <2>2 DEF Dx1Result, Result, Modulo, Truth, Address
  <2>4. DrainedPreds' = DrainedPreds
    BY <1>1, <2>3 DEF DrainedPreds, Preds2, PredicatesWith, WritesPredicate, WriterValue
  <2>5. /\ FlushedRegs' = FlushedRegs /\ FlushedSpad' = FlushedSpad
        /\ FlushedInputs' = FlushedInputs /\ FlushedOutputs' = FlushedOutputs
    BY <1>1, <2>1, <2>2, <2>3 DEF FlushedRegs, FlushedSpad, FlushedInputs, FlushedOutputs,
       RegistersWith, Stored, Address, Dequeued, Enqueued
  <2>6. CASE halted
    BY <1>1, <2>6 DEF Flushed, CurrentState
  <2>7. CASE ~halted
    <3>1. (ControlInv /\ DataInv /\ ~halted => Flushed =
             State(FlushedRegs, DrainedPreds, FlushedSpad, FlushedInputs, FlushedOutputs))'
      BY FlushedRunning, PTL
    <3> QED
      BY <1>1, <2>4, <2>5, <2>7, <3>1, FlushedRunning DEF State
  <2> QED
    BY <2>6, <2>7
<1>3. MachineHalted' = MachineHalted
  BY <1>1 DEF MachineHalted, WrongPath, WritesPredicate
<1> QED
  BY <1>1, <1>2, <1>3

LEMMA MachineSteps ==
    ControlInv /\ DataInv /\ ControlInv' /\ DataInv' /\ [Next]_vars => [Machine!Next]_(Machine!vars)
<1> SUFFICES ASSUME ControlInv, DataInv, ControlInv', DataInv', [Next]_vars
             PROVE  [Machine!Next]_(Machine!vars)
  OBVIOUS
<1>1. CASE Edge
  <2>1. PICK arriving \in [InputChannels -> Arriving \cup {NoPacket}],
             acknowledged \in SUBSET OutputChannels : Clock(arriving, acknowledged)
    BY <1>1 DEF Edge
  <2>2. ExecutionControl(Retiring)
    BY <2>1 DEF Clock
  <2>3. CASE halted \/ dx1.op = "halt"
    BY <2>1, <2>3, HaltedEdge
  <2>4. CASE ~halted /\ dx1.op # "halt"
    <3>1. Retiring.op # "halt"
      BY <2>4, BubbleFields DEF Retiring, X2Retires, TwoCycle, TwoCycleOps
    <3>2. ~halted'
      BY <2>2, <2>4, <3>1 DEF ExecutionControl
    <3> QED
      BY <2>1, <2>4, <3>2, RunningEdge
  <2> QED
    BY <2>3, <2>4
<1>2. CASE BeginExecution \/ UNCHANGED vars
  BY <1>2, MachineStutters DEF Machine!vars, MachineHalted
<1> QED
  BY <1>1, <1>2 DEF Next

\* For every program, every width, depth and number of channels, and all four settings
\* of the knobs, the pipelined core does nothing the sequential machine would not do.
THEOREM CoreImplementsMachine == Spec => ImplementsMachine
<1>1. Init => ControlInv /\ DataInv /\ Machine!Init
  BY ControlInvInit, DataInvInit, MachineInit
<1>2. ControlInv /\ DataInv /\ [Next]_vars => ControlInv' /\ DataInv'
  BY ControlInvKept, DataInvKept
<1>3. ControlInv /\ DataInv /\ ControlInv' /\ DataInv' /\ [Next]_vars
        => [Machine!Next]_(Machine!vars)
  BY MachineSteps
<1> QED
  BY <1>1, <1>2, <1>3, PTL DEF Spec, ImplementsMachine, Machine!Spec
=============================================================================
