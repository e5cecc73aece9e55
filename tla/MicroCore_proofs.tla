-------------------------- MODULE MicroCore_proofs --------------------------
(***************************************************************************)
(* Proofs about MicroCore: for each of the eight cores, for every program, *)
(* every width and depth and all four settings of the two knobs, a         *)
(* prediction is resolved exactly by the instruction that opened it, what  *)
(* is annulled was reversible, the channels are respected with up to three *)
(* instructions in flight, and the core implements TiaMachine.             *)
(***************************************************************************)
EXTENDS MicroCore, CoreUnits_proofs

-----------------------------------------------------------------------------
(* The cores.                                                              *)

\* What the proofs need to know of the eight records.
LEMMA CoreShape ==
    ASSUME core \in Cores
    PROVE  /\ core.stages \in 0 .. 3 /\ core.fetch \in 0 .. 1
           /\ core.fetch <= core.stages
           /\ core.stages = 0 => ~core.twoStages /\ ~HasSpeculativePredicateUnit
<1>1. core \in AllCores /\ (HasSpeculativePredicateUnit => core # tdx)
  BY CoresAssumption
<1>2. core = tdx => core.stages = 0 /\ core.fetch = 0 /\ ~core.twoStages
  BY DEF tdx
<1>3. core # tdx => core.stages \in 1 .. 3 /\ core.fetch \in 0 .. 1
  BY <1>1 DEF AllCores, td_x, tdx1_x2, td_x1_x2, t_dx, t_d_x, t_dx1_x2, t_d_x1_x2
<1> QED
  BY <1>1, <1>2, <1>3

\* The fields of a pipeline register that has been annulled.
LEMMA EmptyEntryFields ==
    /\ EmptyEntry.ins = Bubble /\ EmptyEntry.x = NoOperands /\ EmptyEntry.result = 0
  BY DEF EmptyEntry

-----------------------------------------------------------------------------
(* The control invariant.                                                  *)

\* What the pipeline registers may hold: bubbles or valid instructions, and
\* nothing until the execution control unit has enabled the core.
PipelineShape ==
    /\ core \in Cores /\ prog \in Programs
    /\ speculating \in BOOLEAN
    /\ HasSpeculativePredicateUnit \/ ~speculating
    /\ \A s \in InFlightStages : pipe[s].ins = Bubble \/ pipe[s].ins.vi
    /\ internalEnable => execute
    /\ ~halted /\ ~internalEnable => \A s \in InFlightStages : pipe[s].ins = Bubble

\* That a prediction is open exactly while its writer flies and that what follows
\* the writer is reversible are inductive together with the shape only.
ControlInv ==
    /\ PipelineShape
    /\ SpeculationTracksWriter
    /\ SpeculationIsReversible

\* The signals between the predicate unit and the pipeline.
Ends   == EndSpeculation(Retiring)
Hit    == PredictionHit(Retiring, DatapathTrue)
Begins == BeginSpeculation(HazardFree, Retiring, DatapathTrue)

LEMMA Signals ==
    /\ Ends <=> speculating /\ WritesPredicate(Retiring)
    /\ Hit <=> Ends /\ savedPrediction = DatapathTrue
    /\ Miss <=> Ends /\ savedPrediction # DatapathTrue
    /\ Override <=> /\ speculating
                    /\ \/ WritesPredicate(HazardFree) /\ ~Hit
                       \/ HazardFree.op = "ssw"
                       \/ HazardFree.icd # {} /\ ~Hit
    /\ Begins <=> /\ HasSpeculativePredicateUnit /\ (~speculating \/ Hit)
                  /\ WritesPredicate(HazardFree) /\ ~Override
    /\ Begins \in BOOLEAN
  BY DEF Ends, Hit, Miss, Override, Begins, EndSpeculation, PredictionHit, PredictionMiss,
         TriggerOverride, BeginSpeculation

\* When the predicate unit is clocked, a prediction is open if one begins or the
\* one that was open does not end.
LEMMA SpeculatingAfter ==
    ASSUME PredicateUnit(HazardFree, Retiring, DatapathTrue)
    PROVE  IF internalEnable THEN speculating' = (Begins \/ (speculating /\ ~Ends))
                             ELSE speculating' = speculating
  BY DEF PredicateUnit, predicateUnit, StillSpeculating, Begins, Ends

\* What leaves the trigger stage, before and after the override.
LEMMA IssueShape ==
    ASSUME prog \in Programs
    PROVE  /\ HazardFree = Bubble \/ HazardFree.vi
           /\ ~HasSpeculativePredicateUnit /\ WritesPredicate(HazardFree) =>
                 \A s \in InFlightStages : ~WritesPredicate(pipe[s].ins)
           /\ Issued = Bubble \/ (Issued = HazardFree /\ ~Override)
           /\ ~Override => Issued = HazardFree
           /\ ~(internalEnable /\ execute /\ ~halted) => Issued = Bubble
<1>1. /\ Triggering = Bubble \/ Triggering.vi
      /\ ~(internalEnable /\ execute /\ ~halted) => Triggering = Bubble
  BY TriggeredFits DEF Triggering
<1> QED
  BY <1>1, BubbleFields DEF HazardFree, ControlHazard, Issued

\* The pipeline registers after an edge: every instruction moves by one stage,
\* unless a misprediction annuls them all.
LEMMA PipelineAfter ==
    ASSUME core \in Cores, PipelineRegisters, NEW s \in InFlightStages
    PROVE  /\ Miss => pipe'[s].ins = Bubble
           /\ ~Miss /\ s = 1 => pipe'[s].ins = Issued
           /\ ~Miss /\ s # 1 => s - 1 \in InFlightStages /\ pipe'[s].ins = pipe[s - 1].ins
<1>1. PICK undriven :
        pipe' = [t \in InFlightStages |-> IF Flushes(t) THEN EmptyEntry ELSE Moved(t, undriven)]
  BY DEF PipelineRegisters
<1>2. pipe'[s] = IF Miss THEN EmptyEntry ELSE Moved(s, undriven)
  BY <1>1 DEF Flushes
<1>3. Moved(s, undriven).ins = InStage(s - 1)
  BY DEF Moved
<1>4. s \in 1 .. core.stages /\ core.stages \in 0 .. 3
  BY CoreShape DEF InFlightStages
<1>5. s # 1 => s - 1 \in InFlightStages
  BY <1>4 DEF InFlightStages
<1>6. s = 1 => InStage(s - 1) = Issued
  BY DEF InStage
<1>7. s # 1 => InStage(s - 1) = pipe[s - 1].ins
  BY <1>4 DEF InStage
<1> QED
  BY <1>2, <1>3, <1>5, <1>6, <1>7, EmptyEntryFields

\* The instruction in the last stage retires, and no other.
LEMMA RetiringStage ==
    ASSUME core \in Cores, HasSpeculativePredicateUnit
    PROVE  core.stages \in InFlightStages /\ Retiring = pipe[core.stages].ins
  BY CoreShape DEF InFlightStages, Retiring

LEMMA ShapeKept ==
    ASSUME ControlInv, [Next]_vars
    PROVE  PipelineShape' /\ InFlightStages' = InFlightStages
<1>1. CASE Edge
  <2>1. PICK arriving, acknowledged : Clock(arriving, acknowledged)
    BY <1>1 DEF Edge
  <2>2. /\ prog' = prog /\ execute' = execute /\ core' = core /\ ExecutionControl(Retiring)
        /\ PipelineRegisters /\ PredicateUnit(HazardFree, Retiring, DatapathTrue)
    BY <2>1 DEF Clock
  <2>3. prog \in Programs /\ core \in Cores /\ InFlightStages' = InFlightStages
    BY <2>2 DEF ControlInv, PipelineShape, InFlightStages
  <2>4. speculating' \in BOOLEAN /\ (HasSpeculativePredicateUnit \/ ~speculating')
    BY <2>2, Signals, SpeculatingAfter DEF ControlInv, PipelineShape
  <2>5. ASSUME NEW s \in InFlightStages PROVE pipe'[s].ins = Bubble \/ pipe'[s].ins.vi
    BY <2>2, <2>3, IssueShape, PipelineAfter DEF ControlInv, PipelineShape
  <2>6. ASSUME ~halted', ~internalEnable', NEW s \in InFlightStages PROVE pipe'[s].ins = Bubble
    <3>1. ~halted /\ ~execute /\ ~internalEnable
      BY <2>2, <2>6 DEF ExecutionControl, ControlInv, PipelineShape
    <3> QED
      BY <3>1, <2>2, <2>3, IssueShape, PipelineAfter DEF ControlInv, PipelineShape
  <2>7. (internalEnable => execute)'
    BY <2>2 DEF ExecutionControl
  <2> QED
    BY <2>2, <2>3, <2>4, <2>5, <2>6, <2>7 DEF PipelineShape
<1>2. CASE BeginExecution \/ UNCHANGED vars
  BY <1>2 DEF BeginExecution, vars, control, predicateUnit, ControlInv, PipelineShape,
              InFlightStages
<1> QED
  BY <1>1, <1>2 DEF Next

\* How predictions and their writers move when the core runs.
LEMMA SpeculationStep ==
    ASSUME ControlInv, ~halted, internalEnable, PipelineRegisters,
           PredicateUnit(HazardFree, Retiring, DatapathTrue)
    PROVE  /\ \A s, t \in InFlightStages :
                 WritesPredicate(pipe'[s].ins) /\ WritesPredicate(pipe'[t].ins) => s = t
           /\ HasSpeculativePredicateUnit =>
                 speculating' = (\E s \in InFlightStages : WritesPredicate(pipe'[s].ins))
           /\ speculating' =>
                 \A s, t \in InFlightStages :
                    s < t /\ WritesPredicate(pipe'[t].ins) =>
                       pipe'[s].ins.icd = {} /\ pipe'[s].ins.op # "ssw"
<1>0. /\ core \in Cores /\ prog \in Programs /\ ~WritesPredicate(Bubble)
      /\ speculating' = (Begins \/ (speculating /\ ~Ends))
      /\ core.stages \in 0 .. 3 /\ InFlightStages = 1 .. core.stages
  BY SpeculatingAfter, CoreShape, BubbleFields DEF ControlInv, PipelineShape, InFlightStages
<1>a. /\ \A s, t \in InFlightStages :
            WritesPredicate(pipe[s].ins) /\ WritesPredicate(pipe[t].ins) => s = t
      /\ HasSpeculativePredicateUnit =>
            speculating = (\E s \in InFlightStages : WritesPredicate(pipe[s].ins))
      /\ HasSpeculativePredicateUnit \/ ~speculating
  BY DEF ControlInv, PipelineShape, SpeculationTracksWriter
\* A writer behind the trigger stage was one stage further up before.
<1>b. ASSUME NEW s \in InFlightStages, WritesPredicate(pipe'[s].ins), s # 1
      PROVE  ~Miss /\ s - 1 \in InFlightStages /\ pipe'[s].ins = pipe[s - 1].ins
  BY <1>0, <1>b, PipelineAfter
<1>c. ASSUME NEW s \in InFlightStages, WritesPredicate(pipe'[s].ins), s = 1
      PROVE  ~Miss /\ WritesPredicate(HazardFree) /\ ~Override /\ pipe'[s].ins = Issued
  BY <1>0, <1>c, PipelineAfter, IssueShape
<1>1. CASE ~HasSpeculativePredicateUnit
  <2>1. ~speculating /\ ~speculating'
    BY <1>0, <1>1, <1>a, Signals
  <2>2. \A s \in InFlightStages : s = 1 /\ WritesPredicate(pipe'[s].ins) =>
            \A t \in InFlightStages : ~WritesPredicate(pipe[t].ins)
    BY <1>0, <1>1, <1>c, IssueShape
  <2>3. ASSUME NEW s \in InFlightStages, NEW t \in InFlightStages,
               WritesPredicate(pipe'[s].ins), WritesPredicate(pipe'[t].ins)
        PROVE  s = t
    <3>1. CASE s = 1 \/ t = 1
      BY <2>2, <2>3, <3>1, <1>b
    <3>2. CASE s # 1 /\ t # 1
      <4>1. s - 1 = t - 1
        BY <2>3, <3>2, <1>a, <1>b
      <4> QED
        BY <4>1, <1>0
    <3> QED
      BY <3>1, <3>2
  <2> QED
    BY <1>1, <2>1, <2>3
<1>2. CASE HasSpeculativePredicateUnit /\ (~speculating \/ Ends)
  <2>1. core.stages \in InFlightStages /\ Retiring = pipe[core.stages].ins
    BY <1>0, <1>2, RetiringStage
  \* Nothing that writes a predicate stays in the pipeline.
  <2>2. \A s \in InFlightStages : WritesPredicate(pipe'[s].ins) => s = 1
    <3> SUFFICES ASSUME NEW s \in InFlightStages, WritesPredicate(pipe'[s].ins), s # 1
                 PROVE  FALSE
      OBVIOUS
    <3>1. s - 1 \in InFlightStages /\ WritesPredicate(pipe[s - 1].ins)
      BY <1>b
    <3>2. speculating /\ Ends
      BY <1>2, <1>a, <3>1
    <3>3. WritesPredicate(pipe[core.stages].ins)
      BY <2>1, <3>2, Signals
    <3>4. s - 1 = core.stages
      BY <1>a, <2>1, <3>1, <3>3
    <3> QED
      BY <3>4, <1>0
  <2>3. Begins = (\E s \in InFlightStages : WritesPredicate(pipe'[s].ins))
    <3>1. ASSUME Begins PROVE 1 \in InFlightStages /\ WritesPredicate(pipe'[1].ins)
      <4>1. ~Miss /\ ~Override /\ WritesPredicate(HazardFree)
        BY <3>1, Signals
      <4>2. 1 \in InFlightStages
        BY <1>0, <2>1
      <4>3. pipe'[1].ins = HazardFree
        BY <1>0, <4>1, <4>2, PipelineAfter, IssueShape
      <4> QED
        BY <4>1, <4>2, <4>3
    <3>2. ASSUME NEW s \in InFlightStages, WritesPredicate(pipe'[s].ins) PROVE Begins
      <4>1. ~Miss /\ WritesPredicate(HazardFree) /\ ~Override
        BY <2>2, <3>2, <1>c
      <4>2. ~speculating \/ Hit
        BY <1>2, <4>1, Signals DEF DatapathTrue
      <4> QED
        BY <1>2, <4>1, <4>2, Signals
    <3> QED
      BY <3>1, <3>2, Signals
  <2>4. speculating' = Begins
    BY <1>0, <1>2, Signals
  <2>5. \A s, t \in InFlightStages : s < t => ~WritesPredicate(pipe'[t].ins)
    BY <1>0, <2>2
  <2> QED
    BY <2>2, <2>3, <2>4, <2>5
<1>3. CASE HasSpeculativePredicateUnit /\ speculating /\ ~Ends
  <2>1. ~Miss /\ ~Hit /\ ~Begins /\ speculating'
    BY <1>0, <1>3, Signals
  <2>2. ~WritesPredicate(Issued) /\ Issued.op # "ssw" /\ Issued.icd = {}
    BY <1>0, <1>3, <2>1, IssueShape, BubbleFields, Signals
  <2>3. PICK w \in InFlightStages : WritesPredicate(pipe[w].ins)
    BY <1>3, <1>a
  <2>4. w # core.stages
    BY <1>0, <1>3, <2>3, RetiringStage, Signals
  <2>5. w + 1 \in InFlightStages /\ pipe'[w + 1].ins = pipe[w].ins
    <3>1. w + 1 \in InFlightStages /\ w + 1 # 1 /\ (w + 1) - 1 = w
      BY <1>0, <2>4
    <3> QED
      BY <1>0, <2>1, <3>1, PipelineAfter
  <2>6. \A s \in InFlightStages : WritesPredicate(pipe'[s].ins) => s = w + 1
    <3> SUFFICES ASSUME NEW s \in InFlightStages, WritesPredicate(pipe'[s].ins)
                 PROVE  s = w + 1
      OBVIOUS
    <3>1. s # 1
      BY <1>c, <2>2
    <3>2. s - 1 = w
      BY <1>a, <1>b, <2>3, <3>1
    <3> QED
      BY <1>0, <3>2
  <2>7. ASSUME NEW s \in InFlightStages, s < w + 1
        PROVE  pipe'[s].ins.icd = {} /\ pipe'[s].ins.op # "ssw"
    <3>1. CASE s = 1
      BY <1>0, <2>1, <2>2, <3>1, PipelineAfter
    <3>2. CASE s # 1
      <4>1. s - 1 \in InFlightStages /\ pipe'[s].ins = pipe[s - 1].ins /\ s - 1 < w
        BY <1>0, <2>1, <2>7, <3>2, PipelineAfter
      <4> QED
        BY <1>3, <2>3, <4>1 DEF ControlInv, SpeculationIsReversible
    <3> QED
      BY <3>1, <3>2
  <2> QED
    BY <2>1, <2>3, <2>5, <2>6, <2>7
<1> QED
  BY <1>1, <1>2, <1>3, <1>a

LEMMA ControlInvKept == ControlInv /\ [Next]_vars => ControlInv'
<1> SUFFICES ASSUME ControlInv, [Next]_vars
             PROVE  SpeculationTracksWriter' /\ SpeculationIsReversible'
  BY ShapeKept DEF ControlInv
<1>0. InFlightStages' = InFlightStages
  BY ShapeKept
<1>1. CASE Edge
  <2>1. PICK arriving, acknowledged : Clock(arriving, acknowledged)
    BY <1>1 DEF Edge
  <2>2. ExecutionControl(Retiring) /\ PredicateUnit(HazardFree, Retiring, DatapathTrue)
        /\ PipelineRegisters
    BY <2>1 DEF Clock
  <2>3. CASE ~halted' /\ internalEnable
    <3>1. ~halted
      BY <2>2, <2>3 DEF ExecutionControl
    <3> QED
      BY <1>0, <2>2, <2>3, <3>1, SpeculationStep
      DEF SpeculationTracksWriter, SpeculationIsReversible, WritesPredicate
  <2>4. CASE ~halted' /\ ~internalEnable
    <3>1. /\ ~halted /\ prog \in Programs /\ core \in Cores
          /\ \A s \in InFlightStages : pipe[s].ins = Bubble
      BY <2>2, <2>4 DEF ExecutionControl, ControlInv, PipelineShape
    <3>2. /\ \A s \in InFlightStages : pipe'[s].ins = Bubble
          /\ speculating' = speculating
      BY <2>2, <2>4, <3>1, IssueShape, PipelineAfter, SpeculatingAfter
    <3> QED
      BY <1>0, <3>1, <3>2, BubbleFields
      DEF ControlInv, SpeculationTracksWriter, SpeculationIsReversible, WritesPredicate
  <2>5. CASE halted'
    BY <2>5 DEF SpeculationTracksWriter, SpeculationIsReversible
  <2> QED
    BY <2>3, <2>4, <2>5
<1>2. CASE BeginExecution \/ UNCHANGED vars
  <2>1. pipe' = pipe /\ halted' = halted /\ speculating' = speculating
    BY <1>2 DEF BeginExecution, vars, control, predicateUnit
  <2>2. SpeculationTracksWriter'
    BY <1>0, <2>1 DEF ControlInv, SpeculationTracksWriter, WritesPredicate
  <2>3. SpeculationIsReversible'
    BY <1>0, <2>1 DEF ControlInv, SpeculationIsReversible, WritesPredicate
  <2> QED
    BY <2>2, <2>3
<1> QED
  BY <1>1, <1>2 DEF Next

LEMMA ControlInvInit == Init => ControlInv
<1> SUFFICES ASSUME Init PROVE ControlInv
  OBVIOUS
<1>1. \A s \in InFlightStages : pipe[s].ins = Bubble
  BY EmptyEntryFields DEF Init
<1> QED
  BY <1>1, BubbleFields DEF Init, InitUnits, ControlInv, PipelineShape,
     SpeculationTracksWriter, SpeculationIsReversible

\* For each of the cores, for every program, width, depth and setting of the
\* knobs: a prediction is open exactly while its writer is in flight, in whichever
\* stage, and what may have to be annulled has had no lasting effect.
THEOREM SpeculationSafety == Spec => [](SpeculationTracksWriter /\ SpeculationIsReversible)
<1>1. Init => ControlInv
  BY ControlInvInit
<1>2. ControlInv /\ [Next]_vars => ControlInv'
  BY ControlInvKept
<1>3. ControlInv => SpeculationTracksWriter /\ SpeculationIsReversible
  BY DEF ControlInv
<1> QED
  BY <1>1, <1>2, <1>3, PTL DEF Spec

-----------------------------------------------------------------------------
(* Types, and the channels.                                                *)

\* Why no dequeue finds a channel empty and no enqueue finds one full: a packet
\* waits for a dequeue that is still in a pipeline register, and a slot for every
\* packet in flight.
ChannelInv ==
    /\ core.fetch = 1 =>
          \A c \in InputChannels : c \in pipe[1].ins.icd => inq[c] # << >>
    /\ \A c \in OutputChannels : Len(outq[c]) + Outstanding(c) <= ChannelDepth

DataInv ==
    /\ TypeOK
    /\ RunsOn(prog, core)
    /\ \A s \in InFlightStages : InFlight(pipe[s].ins)
    /\ ChannelInv

\* What the trigger stage issues fits the channels as they are.
LEMMA IssueFits ==
    ASSUME prog \in Programs
    PROVE  /\ InFlight(Issued)
           /\ InFlight(HazardFree)
           /\ \A c \in Issued.icd : c \in InputChannels /\ c \notin UpdatedEmpty
           /\ \A c \in HazardFree.oci : c \notin UpdatedFull
           /\ \A c \in Issued.oci : c \notin UpdatedFull
<1>1. /\ InFlight(Triggering)
      /\ \A c \in Triggering.icd : c \in InputChannels /\ c \notin UpdatedEmpty
      /\ \A c \in Triggering.oci : c \notin UpdatedFull
  BY TriggeredFits DEF Triggering
<1>2. HazardFree = Bubble \/ HazardFree = Triggering
  BY DEF HazardFree
<1>3. Issued = Bubble \/ Issued = HazardFree
  BY DEF Issued
<1> QED
  BY <1>1, <1>2, <1>3, BubbleFields DEF InFlight

LEMMA EntryType ==
    ASSUME TypeOK, NEW s \in InFlightStages
    PROVE  pipe[s].ins \in Instruction /\ pipe[s].x \in [1 .. 3 -> Word] /\ pipe[s].result \in Word
  BY DEF TypeOK, Entry

\* A core without stages has no scratchpad, so that no load retires there.
LEMMA NoEarlyLoad ==
    ASSUME core \in Cores, prog \in Programs, RunsOn(prog, core), core.stages = 0
    PROVE  ~Registered(Retiring)
<1>1. core = tdx /\ ~core.twoStages /\ ~core.scratchpad
  BY CoresAssumption
  DEF AllCores, tdx, td_x, tdx1_x2, td_x1_x2, t_dx, t_d_x, t_dx1_x2, t_d_x1_x2
<1>2. Triggering = Bubble \/ \E i \in DOMAIN prog : Triggering = prog[i]
  BY TriggeredFits DEF Triggering
<1>3. Triggering.op # "lsw"
  BY <1>1, <1>2, BubbleFields DEF RunsOn
<1> QED
  BY <1>1, <1>3, BubbleFields DEF Registered, Retiring, HazardFree

LEMMA RetiringType ==
    ASSUME DataInv, prog \in Programs
    PROVE  /\ InFlight(Retiring)
           /\ RetiringOperands \in [1 .. 3 -> Word]
           /\ DatapathResult \in Word
<1>1. core \in Cores /\ UnitsTypeOK
  BY DEF DataInv, TypeOK
<1>2. core.stages # 0 => core.stages \in InFlightStages
  BY <1>1, CoreShape DEF InFlightStages
<1>3. InFlight(Retiring)
  BY <1>2, IssueFits DEF Retiring, DataInv
<1>4. RetiringOperands \in [1 .. 3 -> Word]
  <2>1. CASE core.fetch = core.stages
    BY <1>1, <1>3, <2>1, OperandsType DEF RetiringOperands, UnitsTypeOK
  <2>2. CASE core.fetch # core.stages
    <3>1. core.stages \in InFlightStages
      BY <1>1, <1>2, <2>2, CoreShape
    <3> QED
      BY <2>2, <3>1, EntryType DEF RetiringOperands, DataInv
  <2> QED
    BY <2>1, <2>2
<1>5. DatapathResult \in Word
  <2>1. CASE Registered(Retiring) /\ core.stages # 0
    BY <1>2, <2>1, EntryType DEF DatapathResult, DataInv
  <2>2. CASE ~(Registered(Retiring) /\ core.stages # 0)
    <3>1. ~Registered(Retiring)
      BY <1>1, <2>2, NoEarlyLoad DEF DataInv
    <3> QED
      BY <1>1, <1>4, <3>1, ResultType DEF DatapathResult, UnitsTypeOK
  <2> QED
    BY <2>1, <2>2
<1> QED
  BY <1>3, <1>4, <1>5

\* The instruction that dequeues, and what becomes of the channels it looks at.
LEMMA DequeuingStage ==
    ASSUME core \in Cores
    PROVE  \/ core.fetch = 0 /\ InStage(core.fetch) = Issued /\ UpdatedEmpty = EmptyBehind({})
           \/ /\ core.fetch = 1 /\ 1 \in InFlightStages
              /\ InStage(core.fetch) = pipe[1].ins /\ UpdatedEmpty = EmptyBehind(pipe[1].ins.icd)
  BY CoreShape DEF InStage, UpdatedEmpty, InFlightStages

\* Behind the dequeue of this cycle a channel that is not taken to be empty holds
\* a packet after the edge.
LEMMA InputKept ==
    ASSUME TypeOK, NEW c \in InputChannels, NEW p \in Arriving \cup {NoPacket}
    PROVE  /\ InputChannelAfter(c, c \in DequeueSignals, p) \in Queue
           /\ Len(InputChannelAfter(c, c \in DequeueSignals, p)) <= ChannelDepth
           /\ core.fetch = 1 /\ c \notin UpdatedEmpty =>
                 InputChannelAfter(c, c \in DequeueSignals, p) # << >>
<1> DEFINE dequeue == c \in DequeueSignals
           held == Len(inq[c])
<1>1. held \in Nat /\ inq[c] \in Seq(Packet) /\ UnitsTypeOK /\ core \in Cores
  BY DEF TypeOK, UnitsTypeOK, Queue
<1>2. inq[c] # << >> => held > 0
  BY <1>1
<1>3. core.fetch = 1 /\ dequeue => c \in pipe[1].ins.icd
  BY <1>1, DequeuingStage DEF DequeueSignals
<1>4. dequeue \in BOOLEAN
  BY DEF DequeueSignals
<1>5. core.fetch = 1 /\ c \notin UpdatedEmpty =>
        \/ ~(held <= (IF c \in pipe[1].ins.icd THEN 1 ELSE 0))
        \/ held > 0 /\ c \notin pipe[1].ins.icd
  BY <1>1, <1>2, DequeuingStage DEF EmptyBehind, EmptyChannels
<1> HIDE DEF dequeue, held
<1>6. core.fetch = 1 /\ c \notin UpdatedEmpty => held > (IF dequeue THEN 1 ELSE 0)
  BY <1>1, <1>3, <1>5
<1>7. /\ InputChannelAfter(c, dequeue, p) \in Queue
      /\ Len(InputChannelAfter(c, dequeue, p)) <= ChannelDepth
      /\ Len(inq[c]) > (IF dequeue THEN 1 ELSE 0) => InputChannelAfter(c, dequeue, p) # << >>
  BY <1>1, <1>4, InputChannelStep
<1> QED
  BY <1>6, <1>7 DEF dequeue, held

\* An output channel keeps its type and grows by at most the packet sent to it.
LEMMA OutputKept ==
    ASSUME DataInv, prog \in Programs,
           NEW c \in OutputChannels, NEW acknowledged \in SUBSET OutputChannels,
           NEW after, after = OutputChannelAfter(c, c \in EnqueueSignals, Outgoing,
                                                 c \in acknowledged)
    PROVE  /\ after \in Queue /\ Len(after) \in Nat /\ Len(after) <= ChannelDepth
           /\ Len(after) <= Len(outq[c]) + (IF c \in EnqueueSignals THEN 1 ELSE 0)
<1> DEFINE enqueue == c \in EnqueueSignals
           taken == c \in acknowledged
<1>1. Outgoing \in Packet
  BY RetiringType, InFlightType DEF Outgoing, Packet, Instruction
<1>2. UnitsTypeOK /\ enqueue \in BOOLEAN /\ taken \in BOOLEAN
  BY DEF DataInv, TypeOK, EnqueueSignals
<1>3. after = OutputChannelAfter(c, enqueue, Outgoing, taken)
  OBVIOUS
<1> HIDE DEF enqueue, taken
<1>4. /\ after \in Queue /\ Len(after) <= ChannelDepth
      /\ Len(after) <= Len(outq[c]) + (IF enqueue THEN 1 ELSE 0)
  BY <1>1, <1>2, <1>3, OutputChannelStep
<1>5. Len(after) \in Nat
  BY <1>4 DEF Queue
<1> QED
  BY <1>4, <1>5 DEF enqueue

\* What the trigger stage takes a channel with room to be.
LEMMA RoomForIssue ==
    ASSUME TypeOK, NEW c \in OutputChannels, c \notin UpdatedFull
    PROVE  Len(outq[c]) + Outstanding(c) < ChannelDepth
<1> DEFINE held == Len(outq[c])
<1>1. held \in Nat /\ held <= ChannelDepth /\ ChannelDepth \in Nat /\ Outstanding(c) \in 0 .. 3
  BY SizesAssumption DEF TypeOK, UnitsTypeOK, Queue, Outstanding
<1>2. \/ ~(held + Outstanding(c) >= ChannelDepth)
      \/ held # ChannelDepth /\ ~(Outstanding(c) > 0)
  BY DEF UpdatedFull, FullChannels
<1> HIDE DEF held
<1>3. held + Outstanding(c) < ChannelDepth
  BY <1>1, <1>2
<1> QED
  BY <1>3 DEF held

\* The retiring instruction fills a slot and leaves the pipeline, the issued one
\* enters it: the slots taken and those spoken for grow by at most that packet.
LEMMA OutstandingAfter ==
    ASSUME DataInv, prog \in Programs, PipelineRegisters, core' = core, NEW c \in OutputChannels
    PROVE  (IF c \in EnqueueSignals THEN 1 ELSE 0) + Outstanding(c)'
              <= Outstanding(c) + (IF c \in Issued.oci \/ c \in HazardFree.oci THEN 1 ELSE 0)
<1> DEFINE send(s) == IF Sends(s, c) THEN 1 ELSE 0
           next(s) == IF s \in InFlightStages /\ c \in pipe'[s].ins.oci THEN 1 ELSE 0
           enqueued == IF c \in EnqueueSignals THEN 1 ELSE 0
           issued == IF c \in Issued.oci \/ c \in HazardFree.oci THEN 1 ELSE 0
<1>1. core \in Cores /\ InFlightStages' = InFlightStages
  BY DEF DataInv, TypeOK, InFlightStages
<1>2. core.stages \in 0 .. 3 /\ InFlightStages = 1 .. core.stages
  BY <1>1, CoreShape DEF InFlightStages
<1>3. Outstanding(c) = send(1) + send(2) + send(3)
  BY DEF Outstanding
<1>4. Outstanding(c)' = next(1) + next(2) + next(3)
  BY <1>1 DEF Outstanding, Sends
<1>5. next(1) <= issued
  BY <1>1, <1>2, PipelineAfter, BubbleFields
<1>6. next(2) <= send(1) /\ (core.stages < 2 => next(2) = 0)
  <2>1. ASSUME 2 \in InFlightStages, c \in pipe'[2].ins.oci PROVE Sends(1, c)
    <3>1. 2 - 1 \in InFlightStages /\ pipe'[2].ins = pipe[2 - 1].ins
      BY <1>1, <2>1, PipelineAfter, BubbleFields
    <3>2. 2 - 1 = 1
      OBVIOUS
    <3> QED
      BY <2>1, <3>1, <3>2 DEF Sends
  <2> QED
    BY <1>2, <2>1
<1>7. next(3) <= send(2) /\ (core.stages < 3 => next(3) = 0)
  <2>1. ASSUME 3 \in InFlightStages, c \in pipe'[3].ins.oci PROVE Sends(2, c)
    <3>1. 3 - 1 \in InFlightStages /\ pipe'[3].ins = pipe[3 - 1].ins
      BY <1>1, <2>1, PipelineAfter, BubbleFields
    <3>2. 3 - 1 = 2
      OBVIOUS
    <3> QED
      BY <2>1, <3>1, <3>2 DEF Sends
  <2> QED
    BY <1>2, <2>1
<1>8. core.stages = 0 => enqueued <= issued /\ next(1) = 0
  BY <1>2 DEF EnqueueSignals, Retiring
<1>9. core.stages # 0 => enqueued <= send(core.stages)
  <2>1. core.stages # 0 /\ c \in EnqueueSignals =>
          core.stages \in InFlightStages /\ c \in pipe[core.stages].ins.oci
    BY <1>2 DEF EnqueueSignals, Retiring
  <2> QED
    BY <2>1 DEF Sends
<1>10. /\ send(1) \in 0 .. 1 /\ send(2) \in 0 .. 1 /\ send(3) \in 0 .. 1
       /\ enqueued \in 0 .. 1 /\ issued \in 0 .. 1
       /\ next(1) \in 0 .. 1 /\ next(2) \in 0 .. 1 /\ next(3) \in 0 .. 1
  OBVIOUS
<1> HIDE DEF send, next, enqueued, issued
<1>11. enqueued + (next(1) + next(2) + next(3)) <= send(1) + send(2) + send(3) + issued
  <2>1. CASE core.stages = 0
    BY <2>1, <1>6, <1>7, <1>8, <1>10
  <2>2. CASE core.stages = 1
    BY <2>2, <1>5, <1>6, <1>7, <1>9, <1>10
  <2>3. CASE core.stages = 2
    BY <2>3, <1>5, <1>6, <1>7, <1>9, <1>10
  <2>4. CASE core.stages = 3
    BY <2>4, <1>5, <1>6, <1>7, <1>9, <1>10
  <2> QED
    BY <1>2, <2>1, <2>2, <2>3, <2>4
<1> QED
  BY <1>3, <1>4, <1>11 DEF enqueued, issued

LEMMA ChannelStep ==
    ASSUME DataInv, ControlInv, NEW arriving \in [InputChannels -> Arriving \cup {NoPacket}],
           NEW acknowledged \in SUBSET OutputChannels, Clock(arriving, acknowledged)
    PROVE  ChannelInv'
<1>1. /\ PipelineRegisters /\ core' = core
      /\ \A c \in InputChannels :
            inq'[c] = InputChannelAfter(c, c \in DequeueSignals, arriving[c])
      /\ \A c \in OutputChannels :
            outq'[c] = OutputChannelAfter(c, c \in EnqueueSignals, Outgoing,
                                          c \in acknowledged)
  BY DEF Clock
<1>2. TypeOK /\ core \in Cores /\ prog \in Programs /\ ChannelDepth \in Nat
  BY SizesAssumption DEF DataInv, ControlInv, PipelineShape
<1>3. ASSUME core.fetch = 1, NEW c \in InputChannels, c \in pipe'[1].ins.icd
      PROVE  inq'[c] # << >>
  <2>1. 1 \in InFlightStages
    BY <1>2, <1>3, DequeuingStage, CoreShape
  <2>2. c \in Issued.icd
    BY <1>1, <1>2, <1>3, <2>1, PipelineAfter, BubbleFields
  <2>3. c \notin UpdatedEmpty
    BY <1>2, <2>2, IssueFits
  <2>4. arriving[c] \in Arriving \cup {NoPacket}
    OBVIOUS
  <2> QED
    BY <1>1, <1>2, <1>3, <2>3, <2>4, InputKept
<1>4. ASSUME NEW c \in OutputChannels
      PROVE  Len(outq'[c]) + Outstanding(c)' <= ChannelDepth
  <2> DEFINE enqueued == IF c \in EnqueueSignals THEN 1 ELSE 0
             issued == IF c \in Issued.oci \/ c \in HazardFree.oci THEN 1 ELSE 0
             before == Len(outq[c])
             after == Len(outq'[c])
             pending == Outstanding(c)
             left == Outstanding(c)'
  <2>1. /\ before \in Nat /\ pending \in 0 .. 3 /\ left \in 0 .. 3
        /\ before + pending <= ChannelDepth
    BY DEF DataInv, TypeOK, UnitsTypeOK, ChannelInv, Queue, Outstanding
  <2>2. after \in Nat /\ after <= before + enqueued
    BY <1>1, <1>2, OutputKept
  <2>3. enqueued + left <= pending + issued
    BY <1>1, <1>2, OutstandingAfter
  <2>4. issued = 1 => before + pending < ChannelDepth
    <3>1. issued = 1 => c \notin UpdatedFull
      BY <1>2, IssueFits
    <3> QED
      BY <1>2, <3>1, RoomForIssue
  <2>5. enqueued \in 0 .. 1 /\ issued \in 0 .. 1
    OBVIOUS
  <2> HIDE DEF enqueued, issued, before, after, pending, left
  <2>6. after + left <= ChannelDepth
    BY <1>2, <2>1, <2>2, <2>3, <2>4, <2>5
  <2> QED
    BY <2>6 DEF after, left
<1> QED
  BY <1>1, <1>3, <1>4 DEF ChannelInv

\* The operands an instruction carries out of a stage behind its fetch.
LEMMA OperandsInType ==
    ASSUME DataInv, prog \in Programs, NEW s \in 0 .. core.stages,
           s = core.fetch \/ s \in InFlightStages
    PROVE  /\ OperandsIn(s) \in [1 .. 3 -> Word]
           /\ InFlight(InStage(s))
<1>1. TypeOK /\ UnitsTypeOK /\ core \in Cores
  BY DEF DataInv, TypeOK
<1>2. InFlight(InStage(s))
  BY <1>1, IssueFits, CoreShape DEF InStage, DataInv, InFlightStages
<1>3. InFlight(InStage(core.fetch))
  BY <1>1, IssueFits, DequeuingStage DEF DataInv
<1>4. FetchedOperands \in [1 .. 3 -> Word]
  <2>1. ForwardedRegs \in [Registers -> Word]
    BY <1>1, RetiringType, RegistersWithType DEF ForwardedRegs, UnitsTypeOK
  <2> QED
    BY <1>1, <1>3, <2>1, OperandsType DEF FetchedOperands, UnitsTypeOK
<1>5. s # core.fetch => pipe[s].x \in [1 .. 3 -> Word]
  BY <1>1, EntryType
<1> QED
  BY <1>2, <1>4, <1>5 DEF OperandsIn

LEMMA MovedType ==
    ASSUME DataInv, prog \in Programs, NEW s \in InFlightStages, NEW undriven \in Word
    PROVE  Moved(s, undriven) \in Entry
<1> DEFINE ins == InStage(s - 1)
           fetched == IF s > core.fetch THEN OperandsIn(s - 1) ELSE NoOperands
           x == IF s = core.stages /\ ins.op = "mac" /\ ~core.thirdOperand
                THEN [fetched EXCEPT ![3] = undriven] ELSE fetched
           result == IF s = core.stages THEN ResultRegister(ins, x) ELSE 0
<1>1. core \in Cores /\ UnitsTypeOK /\ TypeOK
  BY DEF DataInv, TypeOK
<1>2. core.stages \in 0 .. 3 /\ core.fetch \in 0 .. 1 /\ s \in 1 .. core.stages
  BY <1>1, CoreShape DEF InFlightStages
<1>3. InFlight(ins)
  BY <1>1, <1>2, IssueFits DEF InStage, DataInv, InFlightStages
<1>4. ins \in Instruction
  BY <1>3, InFlightType
<1>5. fetched \in [1 .. 3 -> Word]
  <2>1. s > core.fetch => s - 1 \in 0 .. core.stages /\ (s - 1 = core.fetch \/ s - 1 \in InFlightStages)
    BY <1>2 DEF InFlightStages
  <2>2. s > core.fetch => OperandsIn(s - 1) \in [1 .. 3 -> Word]
    BY <2>1, OperandsInType
  <2> QED
    BY <2>2, SmallWords DEF NoOperands
<1>6. x \in [1 .. 3 -> Word]
  BY <1>5
<1>7. result \in Word
  <2>1. s = core.stages => pipe[core.stages].result \in Word
    BY <1>1, EntryType
  <2>2. Result(ins.op, x, spad) \in Word
    BY <1>1, <1>6, ResultType DEF UnitsTypeOK
  <2> QED
    BY <2>1, <2>2, SmallWords DEF ResultRegister
<1> QED
  BY <1>4, <1>6, <1>7 DEF Moved, Entry

LEMMA StoredByPipeType ==
    ASSUME DataInv, prog \in Programs
    PROVE  StoredByPipe \in [0 .. ScratchpadDepth - 1 -> Word]
<1>1. core \in Cores /\ UnitsTypeOK
  BY DEF DataInv, TypeOK
<1>2. core.fetch < core.stages =>
        /\ core.stages - 1 \in 0 .. core.stages
        /\ core.stages - 1 = core.fetch \/ core.stages - 1 \in InFlightStages
  BY <1>1, CoreShape DEF InFlightStages
<1>3. core.fetch < core.stages => OperandsIn(core.stages - 1) \in [1 .. 3 -> Word]
  BY <1>2, OperandsInType
<1> QED
  BY <1>1, <1>3, StoredType DEF StoredByPipe, UnitsTypeOK

LEMMA PipelineType ==
    ASSUME DataInv, ControlInv, PipelineRegisters
    PROVE  /\ pipe' \in [InFlightStages -> Entry]
           /\ \A s \in InFlightStages : InFlight(pipe'[s].ins)
<1>1. core \in Cores /\ prog \in Programs
  BY DEF ControlInv, PipelineShape
<1>2. PICK undriven \in Undriven(InStage(IF core.stages = 0 THEN 0 ELSE core.stages - 1)) :
        pipe' = [s \in InFlightStages |->
                    IF Flushes(s) THEN EmptyEntry ELSE Moved(s, undriven)]
  BY DEF PipelineRegisters
<1>3. undriven \in Word
  BY SmallWords DEF Undriven
<1>4. EmptyEntry \in Entry
  BY BubbleType, SmallWords DEF EmptyEntry, Entry, NoOperands
<1>5. \A s \in InFlightStages : Moved(s, undriven) \in Entry
  BY <1>1, <1>3, MovedType
<1>6. InFlight(Bubble) /\ InFlight(Issued)
  BY <1>1, IssueFits DEF InFlight
<1>7. \A s \in InFlightStages : InFlight(pipe'[s].ins)
  BY <1>1, <1>6, PipelineAfter DEF DataInv
<1> QED
  BY <1>2, <1>4, <1>5, <1>7

LEMMA DataInvKept ==
    ASSUME DataInv, ControlInv, [Next]_vars
    PROVE  DataInv'
<1>1. CASE Edge
  <2>1. PICK arriving \in [InputChannels -> Arriving \cup {NoPacket}],
             acknowledged \in SUBSET OutputChannels : Clock(arriving, acknowledged)
    BY <1>1 DEF Edge
  <2>2. /\ ExecutionControl(Retiring) /\ PipelineRegisters
        /\ PredicateUnit(HazardFree, Retiring, DatapathTrue)
        /\ regs' = RegistersWith(regs, Retiring, DatapathResult)
        /\ spad' = StoredByPipe
        /\ inq' = [c \in InputChannels |->
                     InputChannelAfter(c, c \in DequeueSignals, arriving[c])]
        /\ outq' = [c \in OutputChannels |->
                      OutputChannelAfter(c, c \in EnqueueSignals, Outgoing, c \in acknowledged)]
        /\ core' = core /\ prog' = prog /\ execute' = execute
    BY <2>1 DEF Clock
  <2>3. TypeOK /\ UnitsTypeOK /\ core \in Cores /\ prog \in Programs
    BY DEF DataInv, TypeOK, ControlInv, PipelineShape
  <2>4. /\ pipe' \in [InFlightStages -> Entry] /\ InFlightStages' = InFlightStages
        /\ \A s \in InFlightStages : InFlight(pipe'[s].ins)
    BY <2>2, PipelineType DEF InFlightStages
  <2>5. ChannelInv'
    BY <2>1, ChannelStep
  <2>6. prog' \in Seq(Instruction) /\ execute' \in BOOLEAN
    BY <2>2, <2>3 DEF UnitsTypeOK
  <2>7. internalEnable' \in BOOLEAN /\ halted' \in BOOLEAN
    BY <2>2, <2>3 DEF ExecutionControl, UnitsTypeOK
  <2>8. regs' \in [Registers -> Word]
    BY <2>2, <2>3, RetiringType, RegistersWithType DEF UnitsTypeOK
  <2>9. spad' \in [0 .. ScratchpadDepth - 1 -> Word]
    BY <2>2, <2>3, StoredByPipeType
  <2>10. inq' \in [InputChannels -> Queue] /\ \A c \in InputChannels : Len(inq'[c]) <= ChannelDepth
    <3>1. \A c \in InputChannels : arriving[c] \in Arriving \cup {NoPacket}
      OBVIOUS
    <3> QED
      BY <2>2, <2>3, <3>1, InputKept
  <2>11. outq' \in [OutputChannels -> Queue] /\ \A c \in OutputChannels : Len(outq'[c]) <= ChannelDepth
    BY <2>2, <2>3, OutputKept
  <2>12. /\ preds' \in SUBSET Predicates
         /\ predictor' \in [Predicates -> PredictorStates]
         /\ speculating' \in BOOLEAN /\ savedPrediction' \in BOOLEAN
         /\ savedPreds' \in SUBSET Predicates
    <3>1. InFlight(HazardFree) /\ InFlight(Retiring)
      BY <2>3, IssueFits, RetiringType
    <3>2. DatapathTrue \in BOOLEAN
      BY DEF DatapathTrue
    <3> QED
      BY <2>2, <2>3, <3>1, <3>2, PredicateUnitType
  <2>13. TypeOK'
    BY <2>2, <2>3, <2>4, <2>6, <2>7, <2>8, <2>9, <2>10, <2>11, <2>12 DEF TypeOK, UnitsTypeOK
  <2>14. (\A s \in InFlightStages : InFlight(pipe[s].ins))'
    BY <2>4 DEF InFlight, WellFormed, Checked, WritesPredicate
  <2>15. RunsOn(prog, core)'
    BY <2>2 DEF DataInv, RunsOn
  <2> QED
    BY <2>5, <2>13, <2>14, <2>15 DEF DataInv
<1>2. CASE BeginExecution \/ UNCHANGED vars
  <2>1. /\ core' = core /\ prog' = prog /\ execute' \in BOOLEAN
        /\ internalEnable' = internalEnable
        /\ halted' = halted /\ regs' = regs /\ spad' = spad /\ inq' = inq /\ outq' = outq
        /\ preds' = preds /\ predictor' = predictor /\ speculating' = speculating
        /\ savedPrediction' = savedPrediction /\ savedPreds' = savedPreds /\ pipe' = pipe
    BY <1>2 DEF BeginExecution, vars, control, predicateUnit, DataInv, TypeOK, UnitsTypeOK
  <2>2. InFlightStages' = InFlightStages
    BY <2>1 DEF InFlightStages
  <2>3. TypeOK'
    BY <2>1, <2>2 DEF DataInv, TypeOK, UnitsTypeOK
  <2>4. ChannelInv'
    BY <2>1, <2>2 DEF DataInv, ChannelInv, Outstanding, Sends
  <2>5. (\A s \in InFlightStages : InFlight(pipe[s].ins))'
    BY <2>1, <2>2 DEF DataInv, InFlight, WellFormed, Checked, WritesPredicate
  <2>6. RunsOn(prog, core)'
    BY <2>1 DEF DataInv, RunsOn
  <2> QED
    BY <2>3, <2>4, <2>5, <2>6 DEF DataInv
<1> QED
  BY <1>1, <1>2 DEF Next

LEMMA DataInvInit == Init => DataInv
<1> SUFFICES ASSUME Init PROVE DataInv
  OBVIOUS
<1>1. /\ core \in Cores /\ RunsOn(prog, core) /\ UnitsTypeOK
      /\ pipe = [s \in InFlightStages |-> EmptyEntry]
  BY UnitsInit DEF Init
<1>2. EmptyEntry \in Entry
  BY BubbleType, SmallWords DEF EmptyEntry, Entry, NoOperands
<1>3. TypeOK
  BY <1>1, <1>2 DEF TypeOK
<1>4. \A s \in InFlightStages : pipe[s].ins = Bubble /\ InFlight(pipe[s].ins)
  BY <1>1, EmptyEntryFields DEF InFlight
<1>5. \A c \in OutputChannels : Outstanding(c) = 0 /\ outq[c] = << >>
  BY <1>4, BubbleFields DEF Outstanding, Sends, Init, InitUnits
<1>6. core.fetch = 1 => pipe[1].ins.icd = {}
  BY <1>1, <1>4, DequeuingStage, BubbleFields
<1>7. Len(<< >>) = 0 /\ ChannelDepth \in Nat
  BY SizesAssumption
<1>8. ChannelInv
  BY <1>5, <1>6, <1>7 DEF ChannelInv
<1> QED
  BY <1>1, <1>3, <1>4, <1>8 DEF DataInv

LEMMA ChannelsRespectedFrom ==
    ASSUME DataInv, ControlInv
    PROVE  ChannelsRespected
<1>1. TypeOK /\ core \in Cores /\ prog \in Programs
  BY DEF DataInv, ControlInv, PipelineShape
<1>2. ASSUME NEW c \in DequeueSignals PROVE inq[c] # << >>
  <2>1. c \in InStage(core.fetch).icd
    BY DEF DequeueSignals
  <2>2. CASE core.fetch = 0
    <3>1. c \in InputChannels /\ c \notin EmptyBehind({})
      BY <1>1, <2>1, <2>2, DequeuingStage, IssueFits
    <3>2. inq[c] # << >>
      <4>1. ASSUME inq[c] = << >> PROVE c \in EmptyBehind({})
        BY <3>1, <4>1 DEF EmptyBehind, EmptyChannels
      <4> QED
        BY <3>1, <4>1
    <3> QED
      BY <3>2
  <2>3. CASE core.fetch = 1
    <3>1. c \in pipe[1].ins.icd /\ 1 \in InFlightStages
      BY <1>1, <2>1, <2>3, DequeuingStage
    <3>2. c \in InputChannels
      BY <1>1, <3>1, EntryType DEF Instruction
    <3> QED
      BY <2>3, <3>1, <3>2 DEF DataInv, ChannelInv
  <2> QED
    BY <1>1, <2>2, <2>3, CoreShape
<1>3. ASSUME NEW c \in EnqueueSignals PROVE Len(outq[c]) < ChannelDepth
  <2>1. c \in Retiring.oci
    BY DEF EnqueueSignals
  <2>2. c \in OutputChannels
    BY <1>1, <2>1, RetiringType, InFlightType DEF Instruction
  <2>3. Len(outq[c]) \in Nat /\ ChannelDepth \in Nat /\ Outstanding(c) \in 0 .. 3
    BY <1>1, <2>2, SizesAssumption DEF TypeOK, UnitsTypeOK, Queue, Outstanding
  <2>4. CASE core.stages = 0
    <3>1. c \notin UpdatedFull
      BY <1>1, <2>1, <2>4, IssueFits DEF Retiring
    <3>2. Len(outq[c]) + Outstanding(c) < ChannelDepth
      BY <1>1, <2>2, <3>1, RoomForIssue
    <3> QED
      BY <2>3, <3>2
  <2>5. CASE core.stages # 0
    <3>1. core.stages \in 1 .. 3 /\ Sends(core.stages, c)
      BY <1>1, <2>1, <2>5, CoreShape DEF Retiring, Sends, InFlightStages
    <3>2. Outstanding(c) > 0
      BY <3>1 DEF Outstanding
    <3>3. Len(outq[c]) + Outstanding(c) <= ChannelDepth
      BY <2>2 DEF DataInv, ChannelInv
    <3> QED
      BY <2>3, <3>2, <3>3
  <2> QED
    BY <2>4, <2>5
<1> QED
  BY <1>2, <1>3 DEF ChannelsRespected

\* For each of the cores, for every program, every number and depth of channels,
\* every word width and both ways of tracking the channel status: all registers
\* keep their types and the core never dequeues an empty channel nor enqueues to
\* a full one.
THEOREM CoreSafety == Spec => [](TypeOK /\ ChannelsRespected)
<1>1. Init => ControlInv /\ DataInv
  BY ControlInvInit, DataInvInit
<1>2. ControlInv /\ DataInv /\ [Next]_vars => ControlInv' /\ DataInv'
  BY ControlInvKept, DataInvKept
<1>3. ControlInv /\ DataInv => TypeOK /\ ChannelsRespected
  BY ChannelsRespectedFrom DEF DataInv
<1> QED
  BY <1>1, <1>2, <1>3, PTL DEF Spec

-----------------------------------------------------------------------------
(* Refinement of the sequential machine: the drained state.                *)

\* Which cores forward results to the operand fetch, and which have to wait.
LEMMA CoreConnections ==
    ASSUME core \in Cores
    PROVE  /\ core.stages <= core.fetch + 2
           /\ core.stages = core.fetch => ~core.scratchpad /\ ~core.twoStages
           /\ core.stages # core.fetch => core.forwarding
           /\ core.stages = core.fetch + 2 => core.dataHazards
<1>1. core \in AllCores
  BY CoresAssumption
<1>2. CASE core = tdx \/ core = t_dx
  BY <1>2 DEF tdx, t_dx
<1>3. CASE core = td_x \/ core = tdx1_x2
  BY <1>3 DEF td_x, tdx1_x2
<1>4. CASE core = td_x1_x2
  BY <1>4 DEF td_x1_x2
<1>5. CASE core = t_d_x \/ core = t_dx1_x2
  BY <1>5 DEF t_d_x, t_dx1_x2
<1>6. CASE core = t_d_x1_x2
  BY <1>6 DEF t_d_x1_x2
<1> QED
  BY <1>1, <1>2, <1>3, <1>4, <1>5, <1>6 DEF AllCores

\* The architectural states, and what an instruction finds: one of them, with what
\* cut off the instructions that follow.
ArchState ==
    [regs : [Registers -> Word], preds : SUBSET Predicates,
     spad : [0 .. ScratchpadDepth - 1 -> Word],
     inq : [InputChannels -> Queue], outq : [OutputChannels -> Queue]]

Found == [arch : ArchState, cut : {"none", "halt", "miss"}]

\* The instructions behind stage s have finished.
Older(s) == IF s = 0 THEN Then(1, Then(2, Then(3, Start)))
            ELSE IF s = 1 THEN Then(2, Then(3, Start))
            ELSE IF s = 2 THEN Then(3, Start) ELSE Start

\* The operands, the result and the predicate of the instruction in stage s, if it
\* finds d.
FinalOperands(s, d) ==
    IF s > core.fetch THEN pipe[s].x ELSE Operands(pipe[s].ins, d.arch.regs, d.arch.inq)
FinalValue(s, d) ==
    IF Registered(pipe[s].ins) /\ s = core.stages THEN pipe[s].result
    ELSE Result(pipe[s].ins.op, FinalOperands(s, d), d.arch.spad)
Refuted(s, d) ==
    speculating /\ WritesPredicate(pipe[s].ins) /\ (FinalValue(s, d) # 0) # savedPrediction

LEMMA FetchedState ==
    ASSUME NEW a \in ArchState, NEW m, NEW i, NEW f, f = [a EXCEPT !.spad = m, !.inq = i]
    PROVE  f = State(a.regs, a.preds, m, i, a.outq)
  BY DEF ArchState, State

\* The state that remains, field by field.
FinishedIsLeft ==
    \A s, d, ins, x, v, after :
       /\ d.arch \in ArchState /\ ins = pipe[s].ins /\ x = FinalOperands(s, d)
       /\ v = FinalValue(s, d) /\ after = Finished(s, d).arch
       => /\ after = State(after.regs, after.preds, after.spad, after.inq, after.outq)
          /\ after.regs = RegistersWith(d.arch.regs, ins, v)
          /\ after.preds = (IF Refuted(s, d) THEN savedPreds
                            ELSE IF speculating THEN d.arch.preds
                            ELSE PredicatesWith(d.arch.preds, ins, v))
          /\ after.spad = (IF s = core.stages THEN d.arch.spad ELSE Stored(ins, x, d.arch.spad))
          /\ after.inq = (IF s > core.fetch THEN d.arch.inq ELSE Dequeued(d.arch.inq, ins.icd))
          /\ after.outq = Enqueued(d.arch.outq, ins, v)
          /\ Finished(s, d).cut = (IF ins.op = "halt" THEN "halt"
                                   ELSE IF Refuted(s, d) THEN "miss" ELSE "none")

LEMMA FinishedFields == FinishedIsLeft
<1> SUFFICES ASSUME NEW s, NEW d, NEW ins, NEW x, NEW v, NEW after,
                    d.arch \in ArchState, ins = pipe[s].ins, x = FinalOperands(s, d),
                    v = FinalValue(s, d), after = Finished(s, d).arch
             PROVE  
          /\ after = State(after.regs, after.preds, after.spad, after.inq, after.outq)
          /\ after.regs = RegistersWith(d.arch.regs, ins, v)
          /\ after.preds = (IF Refuted(s, d) THEN savedPreds
                            ELSE IF speculating THEN d.arch.preds
                            ELSE PredicatesWith(d.arch.preds, ins, v))
          /\ after.spad = (IF s = core.stages THEN d.arch.spad ELSE Stored(ins, x, d.arch.spad))
          /\ after.inq = (IF s > core.fetch THEN d.arch.inq ELSE Dequeued(d.arch.inq, ins.icd))
          /\ after.outq = Enqueued(d.arch.outq, ins, v)
          /\ Finished(s, d).cut = (IF ins.op = "halt" THEN "halt"
                                   ELSE IF Refuted(s, d) THEN "miss" ELSE "none")
  BY DEF FinishedIsLeft
<1> DEFINE a == d.arch
           m1 == IF s = core.stages THEN a.spad ELSE Stored(ins, x, a.spad)
           i1 == IF s > core.fetch THEN a.inq ELSE Dequeued(a.inq, ins.icd)
           r1 == RegistersWith(a.regs, ins, v)
           q1 == PredicatesWith(a.preds, ins, v)
           o1 == Enqueued(a.outq, ins, v)
           f == [a EXCEPT !.spad = m1, !.inq = i1]
           done == WriteBack(ins, v, f)
           wrong == Refuted(s, d)
           p1 == IF wrong THEN savedPreds ELSE IF speculating THEN a.preds ELSE done.preds
<1>1. wrong <=> speculating /\ WritesPredicate(ins) /\ (v # 0) # savedPrediction
  BY DEF Refuted
<1>2. /\ Finished(s, d).arch = [done EXCEPT !.preds = p1]
      /\ Finished(s, d).cut =
            IF ins.op = "halt" THEN "halt" ELSE IF wrong THEN "miss" ELSE "none"
  BY <1>1 DEF Finished, FinalOperands, FinalValue
<1>3. a \in ArchState
  OBVIOUS
<1> HIDE DEF m1, i1, a, wrong
<1>4. f = State(a.regs, a.preds, m1, i1, a.outq)
  BY <1>3, FetchedState
<1>5. done = State(r1, q1, m1, i1, o1)
  BY <1>4, WriteBackState
<1> HIDE DEF f, done, p1, q1, r1, o1
<1>6. done.preds = q1 /\ [done EXCEPT !.preds = p1] = State(r1, p1, m1, i1, o1)
  BY <1>5 DEF State
<1>7. p1 = IF wrong THEN savedPreds ELSE IF speculating THEN a.preds ELSE q1
  BY <1>6 DEF p1
<1>8. after = State(r1, p1, m1, i1, o1)
  BY <1>2, <1>6
<1>9. /\ after.regs = r1 /\ after.preds = p1 /\ after.spad = m1 /\ after.inq = i1
      /\ after.outq = o1
  BY <1>8, StateFields
<1> QED
  BY <1>2, <1>7, <1>8, <1>9 DEF a, m1, i1, r1, q1, o1, wrong

\* What the drained state is made of, stage by stage.
OlderIsThen ==
    /\ Older(3) = Start /\ Drained = Older(0)
    /\ core.stages = 0 => Drained = Start
    /\ \A s \in 1 .. 3 : \A d : d = Older(s) =>
          Older(s - 1) = IF s > core.stages \/ d.cut # "none" THEN d ELSE Finished(s, d)

OlderTyped == \A s \in 0 .. 3 : Older(s) \in Found

FinalTyped == \A s \in InFlightStages, d \in Found : /\ FinalOperands(s, d) \in [1 .. 3 -> Word]
                                       /\ FinalValue(s, d) \in Word

LEMMA OlderSteps == OlderIsThen
<1>1. Start.cut = "none"
  BY DEF Start
<1>2. ASSUME NEW s \in 1 .. 3 PROVE Older(s - 1) = Then(s, Older(s))
  BY DEF Older
<1>3. ASSUME core.stages = 0 PROVE Drained = Start
  BY <1>1, <1>3 DEF Drained, Then
<1> QED
  BY <1>2, <1>3 DEF OlderIsThen, Older, Then, Drained

LEMMA FinalType == DataInv => FinalTyped
<1> SUFFICES ASSUME DataInv, NEW s \in InFlightStages, NEW d \in Found
             PROVE  FinalOperands(s, d) \in [1 .. 3 -> Word] /\ FinalValue(s, d) \in Word
  BY DEF FinalTyped
<1>1. InFlight(pipe[s].ins) /\ pipe[s].x \in [1 .. 3 -> Word] /\ pipe[s].result \in Word
  BY EntryType DEF DataInv
<1>2. FinalOperands(s, d) \in [1 .. 3 -> Word]
  BY <1>1, OperandsType DEF FinalOperands, Found, ArchState
<1>3. FinalValue(s, d) \in Word
  BY <1>1, <1>2, ResultType DEF FinalValue, Found, ArchState
<1> QED
  BY <1>2, <1>3

LEMMA OlderType == DataInv => OlderTyped
<1> SUFFICES ASSUME DataInv PROVE OlderTyped
  OBVIOUS
<1>1. Start \in Found
  BY DEF Start, Found, ArchState, CurrentState, DataInv, TypeOK, UnitsTypeOK
<1>2. ASSUME NEW s \in 1 .. 3, NEW d \in Found, s <= core.stages
      PROVE  Finished(s, d) \in Found
  <2>1. s \in InFlightStages /\ savedPreds \in SUBSET Predicates /\ d.arch \in ArchState
    BY <1>2, CoreShape DEF InFlightStages, DataInv, TypeOK, UnitsTypeOK, Found
  <2>2. InFlight(pipe[s].ins) /\ FinalOperands(s, d) \in [1 .. 3 -> Word] /\ FinalValue(s, d) \in Word
    BY <2>1, FinalType DEF DataInv, FinalTyped
  <2>3. Finished(s, d).arch \in ArchState
    <3> DEFINE ins == pipe[s].ins
               x == FinalOperands(s, d)
               v == FinalValue(s, d)
               after == Finished(s, d).arch
    <3>1. RegistersWith(d.arch.regs, ins, v) \in [Registers -> Word]
      BY <2>1, <2>2, RegistersWithType DEF ArchState
    <3>2. PredicatesWith(d.arch.preds, ins, v) \in SUBSET Predicates
      BY <2>1, <2>2, WriterIndex DEF PredicatesWith, ArchState
    <3>3. Stored(ins, x, d.arch.spad) \in [0 .. ScratchpadDepth - 1 -> Word]
      BY <2>1, <2>2, StoredType DEF ArchState
    <3>4. Dequeued(d.arch.inq, ins.icd) \in [InputChannels -> Queue]
      BY <2>1, DequeuedType DEF ArchState
    <3>5. Enqueued(d.arch.outq, ins, v) \in [OutputChannels -> Queue]
      BY <2>1, <2>2, EnqueuedType DEF ArchState
    <3>6. /\ after = State(after.regs, after.preds, after.spad, after.inq, after.outq)
          /\ after.regs \in [Registers -> Word] /\ after.preds \in SUBSET Predicates
          /\ after.spad \in [0 .. ScratchpadDepth - 1 -> Word]
          /\ after.inq \in [InputChannels -> Queue] /\ after.outq \in [OutputChannels -> Queue]
      BY <2>1, <3>1, <3>2, <3>3, <3>4, <3>5, FinishedFields DEF FinishedIsLeft, ArchState
    <3> QED
      BY <3>6 DEF State, ArchState
  <2>4. Finished(s, d).cut \in {"none", "halt", "miss"}
    BY <2>1, FinishedFields DEF FinishedIsLeft
  <2>5. Finished(s, d) = [arch |-> Finished(s, d).arch, cut |-> Finished(s, d).cut]
    BY DEF Finished
  <2> QED
    BY <2>3, <2>4, <2>5 DEF Found
<1>3. \A s \in 1 .. 3 : Older(s) \in Found => Older(s - 1) \in Found
  <2> SUFFICES ASSUME NEW s \in 1 .. 3, NEW d \in Found, d = Older(s)
               PROVE  Older(s - 1) \in Found
    OBVIOUS
  <2>1. Older(s - 1) = IF s > core.stages \/ d.cut # "none" THEN d ELSE Finished(s, d)
    BY OlderSteps DEF OlderIsThen
  <2>2. core.stages \in Nat
    BY CoreShape DEF DataInv, TypeOK
  <2> QED
    BY <1>2, <2>1, <2>2
<1>4. Older(3) \in Found
  BY <1>1, OlderSteps DEF OlderIsThen
<1>5. Older(2) \in Found
  <2>1. 3 \in 1 .. 3 /\ 3 - 1 = 2
    OBVIOUS
  <2> QED
    BY <1>3, <1>4, <2>1
<1>6. Older(1) \in Found
  <2>1. 2 \in 1 .. 3 /\ 2 - 1 = 1
    OBVIOUS
  <2> QED
    BY <1>3, <1>5, <2>1
<1>7. Older(0) \in Found
  <2>1. 1 \in 1 .. 3 /\ 1 - 1 = 0
    OBVIOUS
  <2> QED
    BY <1>3, <1>6, <2>1
<1>8. \A s \in 0 .. 3 : s = 0 \/ s = 1 \/ s = 2 \/ s = 3
  OBVIOUS
<1> QED
  BY <1>4, <1>5, <1>6, <1>7, <1>8 DEF OlderTyped

\* Nothing is found behind the last stage.
BehindIsStart ==
    core \in Cores => \A s \in 0 .. 3 : s >= core.stages => Older(s) = Start

LEMMA OlderIsStart == BehindIsStart
<1> SUFFICES ASSUME core \in Cores, NEW s \in 0 .. 3, s >= core.stages
             PROVE  Older(s) = Start
  BY DEF BehindIsStart
<1>1. core.stages \in 0 .. 3
  BY CoreShape
<1>2. Older(3) = Start
  BY OlderSteps DEF OlderIsThen
<1>3. core.stages < 3 => Older(2) = Start
  <2>1. 3 \in 1 .. 3 /\ 3 - 1 = 2
    OBVIOUS
  <2> QED
    BY <1>1, <1>2, <2>1, OlderSteps DEF OlderIsThen
<1>4. core.stages < 2 => Older(1) = Start
  <2>1. 2 \in 1 .. 3 /\ 2 - 1 = 1
    OBVIOUS
  <2> QED
    BY <1>1, <1>3, <2>1, OlderSteps DEF OlderIsThen
<1>5. core.stages = 0 => Older(0) = Start
  BY OlderSteps DEF OlderIsThen
<1> QED
  BY <1>1, <1>2, <1>3, <1>4, <1>5

\* What the retiring instruction leaves is what the datapath gives it.
LEMMA RetiringLeaves ==
    ASSUME ControlInv, DataInv, core.stages # 0, NEW d, d = Older(core.stages - 1)
    PROVE  /\ d = Finished(core.stages, Start) /\ Retiring = pipe[core.stages].ins
           /\ core.stages \in InFlightStages
           /\ FinalValue(core.stages, Start) = DatapathResult
           /\ d.arch.regs = RegistersWith(regs, Retiring, DatapathResult)
           /\ d.arch.preds = (IF Miss THEN savedPreds ELSE IF speculating THEN preds
                              ELSE PredicatesWith(preds, Retiring, DatapathResult))
           /\ d.arch.spad = spad
           /\ d.arch.inq = (IF core.stages > core.fetch THEN inq
                            ELSE Dequeued(inq, Retiring.icd))
           /\ d.arch.outq = Enqueued(outq, Retiring, DatapathResult)
           /\ d.cut = (IF Retiring.op = "halt" THEN "halt" ELSE IF Miss THEN "miss" ELSE "none")
<1>1. core \in Cores /\ core.stages \in 1 .. 3 /\ core.stages \in InFlightStages
      /\ core.fetch <= core.stages /\ core.fetch \in 0 .. 1
  BY CoreShape DEF DataInv, TypeOK, InFlightStages
<1>2. Older(core.stages) = Start /\ Start.cut = "none" /\ Start.arch = CurrentState
  BY <1>1, OlderIsStart DEF BehindIsStart, Start
<1>3. d = Finished(core.stages, Start)
  BY <1>1, <1>2, OlderSteps DEF OlderIsThen
<1>4. Start \in Found /\ Start.arch \in ArchState
  <2>1. Start \in Found
    BY <1>1, <1>2, OlderType DEF OlderTyped
  <2> QED
    BY <2>1 DEF Found
<1>5. Retiring = pipe[core.stages].ins
  BY <1>1 DEF Retiring
<1>6. /\ CurrentState.regs = regs /\ CurrentState.inq = inq /\ CurrentState.spad = spad
      /\ CurrentState.preds = preds /\ CurrentState.outq = outq
  BY DEF CurrentState
<1>7. FinalOperands(core.stages, Start) = RetiringOperands
  <2>1. core.stages > core.fetch <=> core.fetch # core.stages
    BY <1>1
  <2> QED
    BY <1>2, <1>5, <1>6, <2>1 DEF FinalOperands, RetiringOperands
<1>8. FinalValue(core.stages, Start) = DatapathResult
  BY <1>2, <1>5, <1>6, <1>7 DEF FinalValue, DatapathResult
<1>9. Refuted(core.stages, Start) = Miss
  BY <1>5, <1>8 DEF Refuted, Miss, PredictionMiss, EndSpeculation, DatapathTrue
<1> QED
  BY <1>1, <1>2, <1>3, <1>4, <1>5, <1>6, <1>7, <1>8, <1>9, FinishedFields DEF FinishedIsLeft

-----------------------------------------------------------------------------
(* Where the instructions in flight come from.                             *)

\* The instructions in flight are those of the program, and with a data hazard
\* detector none of them needs the register the one in front of it will write.
PathInv ==
    /\ \A s \in InFlightStages :
          pipe[s].ins = Bubble \/ \E n \in DOMAIN prog : pipe[s].ins = prog[n]
    /\ core.dataHazards /\ core.fetch = 1 /\ pipe[2].ins.dt = "register" =>
          \A k \in 1 .. 3 : pipe[1].ins.src[k].type = "register" =>
                               pipe[1].ins.src[k].index # pipe[2].ins.di

\* An instruction the trigger stage issues is one of the program, and reads no
\* register that the instruction in front of it will write too late.
LEMMA IssuedFrom ==
    ASSUME prog \in Programs
    PROVE  /\ HazardFree = Bubble \/ HazardFree = Triggering
           /\ Issued = Bubble \/ (Issued = Triggering /\ Issued = HazardFree)
           /\ Issued = Bubble \/ \E n \in DOMAIN prog : Issued = prog[n]
           /\ core.dataHazards /\ pipe[1].ins.dt = "register" =>
                 \A k \in 1 .. 3 : Issued.src[k].type = "register" =>
                                      Issued.src[k].index # pipe[1].ins.di
<1>1. Triggering = Bubble \/ \E n \in DOMAIN prog : Triggering = prog[n]
  BY TriggeredFits DEF Triggering
<1>2. \A k \in 1 .. 3 : Bubble.src[k].type # "register"
  BY DEF Bubble, NoSource
<1> QED
  BY <1>1, <1>2 DEF Issued, HazardFree, DataHazard

LEMMA PathInvInit == Init => PathInv
<1> SUFFICES ASSUME Init PROVE PathInv
  OBVIOUS
<1>1. /\ core \in Cores /\ \A s \in InFlightStages : pipe[s].ins = Bubble
  BY EmptyEntryFields DEF Init
<1>2. core.dataHazards /\ core.fetch = 1 => 2 \in InFlightStages
  <2>1. core \in AllCores
    BY <1>1, CoresAssumption
  <2>2. core.dataHazards /\ core.fetch = 1 => core.stages = 3
    BY <2>1 DEF AllCores, tdx, td_x, tdx1_x2, td_x1_x2, t_dx, t_d_x, t_dx1_x2, t_d_x1_x2
  <2> QED
    BY <2>2 DEF InFlightStages
<1> QED
  BY <1>1, <1>2, BubbleFields DEF PathInv

LEMMA PathInvKept ==
    ASSUME ControlInv, PathInv, [Next]_vars
    PROVE  PathInv'
<1>1. CASE Edge
  <2>1. PICK arriving, acknowledged : Clock(arriving, acknowledged)
    BY <1>1 DEF Edge
  <2>2. prog' = prog /\ core' = core /\ PipelineRegisters
    BY <2>1 DEF Clock
  <2>3. prog \in Programs /\ core \in Cores /\ InFlightStages' = InFlightStages
    BY <2>2 DEF ControlInv, PipelineShape, InFlightStages
  <2>4. ASSUME NEW s \in InFlightStages
        PROVE  pipe'[s].ins = Bubble \/ \E n \in DOMAIN prog : pipe'[s].ins = prog[n]
    BY <2>2, <2>3, IssuedFrom, PipelineAfter DEF PathInv
  <2>5. ASSUME core.dataHazards, core.fetch = 1, pipe'[2].ins.dt = "register",
               NEW k \in 1 .. 3, pipe'[1].ins.src[k].type = "register"
        PROVE  pipe'[1].ins.src[k].index # pipe'[2].ins.di
    <3>1. core.stages = 3
      <4>1. core \in AllCores
        BY <2>3, CoresAssumption
      <4> QED
        BY <2>5, <4>1 DEF AllCores, tdx, td_x, tdx1_x2, td_x1_x2, t_dx, t_d_x, t_dx1_x2, t_d_x1_x2
    <3>2. 1 \in InFlightStages /\ 2 \in InFlightStages /\ 2 - 1 = 1
      BY <3>1 DEF InFlightStages
    <3>3. ~Miss
      BY <2>2, <2>3, <2>5, <3>2, PipelineAfter, BubbleFields
    <3>4. pipe'[1].ins = Issued /\ pipe'[2].ins = pipe[1].ins
      BY <2>2, <2>3, <3>2, <3>3, PipelineAfter
    <3> QED
      BY <2>3, <2>5, <3>4, IssuedFrom
  <2> QED
    BY <2>2, <2>3, <2>4, <2>5 DEF PathInv
<1>2. CASE BeginExecution \/ UNCHANGED vars
  <2>1. core' = core /\ prog' = prog /\ pipe' = pipe
    BY <1>2 DEF BeginExecution, vars
  <2> QED
    BY <2>1 DEF PathInv, InFlightStages
<1> QED
  BY <1>1, <1>2 DEF Next

\* The core is connected to what its instructions need.
LEMMA StageFits ==
    ASSUME DataInv, PathInv, prog \in Programs, NEW s \in 0 .. core.stages,
           NEW ins, ins = InStage(s)
    PROVE  /\ ins = Bubble \/ \E n \in DOMAIN prog : ins = prog[n]
           /\ ins.op \in {"lsw", "ssw"} => core.scratchpad
           /\ AvoidThirdOperand /\ ins.op = "mac" => core.thirdOperand
           /\ InFlight(ins)
<1>1. core.stages \in Nat
  BY CoreShape DEF DataInv, TypeOK
<1>2. s = 0 \/ (s # 0 /\ s \in InFlightStages)
  BY <1>1 DEF InFlightStages
<1>3. ins = Bubble \/ \E n \in DOMAIN prog : ins = prog[n]
  BY <1>2, IssuedFrom DEF InStage, PathInv
<1>4. InFlight(ins)
  BY <1>2, IssueFits DEF InStage, DataInv
<1> QED
  BY <1>3, <1>4, BubbleFields DEF DataInv, RunsOn

\* The operands an instruction takes are those it would take when all instructions
\* in front of it have finished: results are forwarded or waited for.
LEMMA OperandsFetched ==
    ASSUME ControlInv, DataInv, PathInv, core.fetch # core.stages,
           NEW d, d = Older(core.fetch), d.cut = "none"
    PROVE  Operands(InStage(core.fetch), d.arch.regs, inq) = FetchedOperands
<1> DEFINE ins == InStage(core.fetch)
<1>1. core \in Cores /\ prog \in Programs /\ regs \in [Registers -> Word]
  BY DEF ControlInv, PipelineShape, DataInv, TypeOK, UnitsTypeOK
<1>2. /\ core.stages \in 0 .. 3 /\ core.fetch \in 0 .. 1 /\ core.forwarding
      /\ core.stages = core.fetch + 1 \/ core.stages = core.fetch + 2
      /\ core.stages = core.fetch + 2 => core.dataHazards
  BY <1>1, CoreShape, CoreConnections
<1>3. \A e : e = Older(core.stages - 1) => e.arch.regs = ForwardedRegs
  BY <1>2, RetiringLeaves DEF ForwardedRegs
<1>4. CASE core.stages = core.fetch + 1
  <2>1. core.stages - 1 = core.fetch
    BY <1>2, <1>4
  <2> QED
    BY <1>3, <2>1 DEF FetchedOperands
<1>5. CASE core.stages = core.fetch + 2
  <2> DEFINE t == core.fetch + 1
  <2>1. t \in 1 .. 3 /\ t - 1 = core.fetch /\ t = core.stages - 1 /\ t <= core.stages
        /\ t \in InFlightStages /\ t # core.stages
    BY <1>2, <1>5 DEF InFlightStages
  <2> HIDE DEF t
  <2>2. PICK e : e = Older(t)
    OBVIOUS
  <2>3. d = IF t > core.stages \/ e.cut # "none" THEN e ELSE Finished(t, e)
    BY <2>1, <2>2, OlderSteps DEF OlderIsThen
  <2>4. d = Finished(t, e)
    BY <1>2, <2>1, <2>3
  <2>5. e \in Found /\ e.arch \in ArchState /\ e.arch.regs = ForwardedRegs
    <3>1. e \in Found
      BY <2>1, <2>2, OlderType DEF OlderTyped
    <3> QED
      BY <1>3, <2>1, <2>2, <3>1 DEF Found
  <2>6. d.arch.regs = RegistersWith(ForwardedRegs, pipe[t].ins, FinalValue(t, e))
    BY <2>4, <2>5, FinishedFields DEF FinishedIsLeft
  <2>7. ASSUME NEW k \in 1 .. 3, ins.src[k].type = "register", pipe[t].ins.dt = "register"
        PROVE  ins.src[k].index # pipe[t].ins.di
    <3>1. CASE core.fetch = 0
      <4>1. t = 1 /\ ins = Issued
        BY <3>1 DEF InStage, t
      <4> QED
        BY <1>1, <1>2, <1>5, <2>7, <4>1, IssuedFrom
    <3>2. CASE core.fetch = 1
      <4>1. t = 2 /\ ins = pipe[1].ins
        BY <3>2 DEF InStage, t
      <4> QED
        BY <1>2, <1>5, <2>7, <3>2, <4>1 DEF PathInv
    <3> QED
      BY <1>2, <3>1, <3>2
  <2>8. \A k \in 1 .. 3 : ins.src[k].type = "register" =>
          d.arch.regs[ins.src[k].index] = ForwardedRegs[ins.src[k].index]
    <3> SUFFICES ASSUME NEW k \in 1 .. 3, ins.src[k].type = "register"
                 PROVE  d.arch.regs[ins.src[k].index] = ForwardedRegs[ins.src[k].index]
      OBVIOUS
    <3>1. ins.src[k].index \in Registers
      <4>1. InFlight(ins)
        BY <1>1, <1>2, StageFits
      <4> QED
        BY <4>1 DEF InFlight, WellFormed, Bubble, NoSource
    <3>2. ForwardedRegs \in [Registers -> Word]
      BY <1>1, RetiringType, RegistersWithType DEF ForwardedRegs
    <3> QED
      BY <2>6, <2>7, <3>1, <3>2 DEF RegistersWith
  <2> HIDE DEF ins
  <2>9. \A k \in 1 .. 3 : Operand(ins, k, d.arch.regs, inq) = Operand(ins, k, ForwardedRegs, inq)
    BY <2>8 DEF Operand
  <2> QED
    BY <2>9 DEF FetchedOperands, Operands, ins
<1> QED
  BY <1>2, <1>4, <1>5

-----------------------------------------------------------------------------
(* What a clock edge moves, stage by stage.                                *)

\* A core that is not enabled, or has nothing in flight, issues and retires nothing.
LEMMA AtRest ==
    ASSUME ControlInv, ~halted
    PROVE  /\ ~internalEnable \/ ~execute => Issued = Bubble /\ Retiring = Bubble
           /\ \A s \in InFlightStages : pipe[s].ins # Bubble => internalEnable /\ execute
           /\ Issued # Bubble => internalEnable /\ execute /\ Issued.vi
           /\ Retiring # Bubble => internalEnable /\ execute /\ Retiring.vi
<1>1. /\ internalEnable => execute
      /\ ~internalEnable => \A s \in InFlightStages : pipe[s].ins = Bubble
      /\ \A s \in InFlightStages : pipe[s].ins = Bubble \/ pipe[s].ins.vi
      /\ prog \in Programs /\ core \in Cores
  BY DEF ControlInv, PipelineShape
<1>2. /\ ~(internalEnable /\ execute /\ ~halted) => Issued = Bubble /\ HazardFree = Bubble
      /\ Issued = Bubble \/ Issued.vi
      /\ HazardFree = Bubble \/ HazardFree.vi
  BY <1>1, IssueShape, TriggeredFits DEF Triggering, HazardFree
<1>3. core.stages # 0 => core.stages \in InFlightStages /\ Retiring = pipe[core.stages].ins
  BY <1>1, CoreShape DEF InFlightStages, Retiring
<1>4. core.stages = 0 => Retiring = HazardFree
  BY DEF Retiring
<1> QED
  BY <1>1, <1>2, <1>3, <1>4

\* What an edge does to the channels of a core that has not halted.
LEMMA EdgeQueues ==
    ASSUME ControlInv, DataInv, ~halted,
           NEW arriving \in [InputChannels -> Arriving \cup {NoPacket}],
           NEW acknowledged \in SUBSET OutputChannels, Clock(arriving, acknowledged)
    PROVE  /\ InputsGrow(Dequeued(inq, InStage(core.fetch).icd), inq')
           /\ OutputsShrink(Enqueued(outq, Retiring, DatapathResult), outq')
<1>1. /\ inq' = [c \in InputChannels |->
                   InputChannelAfter(c, c \in DequeueSignals, arriving[c])]
      /\ outq' = [c \in OutputChannels |->
                    OutputChannelAfter(c, c \in EnqueueSignals, Outgoing, c \in acknowledged)]
  BY DEF Clock
<1>2. UnitsTypeOK /\ core \in Cores /\ prog \in Programs
  BY DEF DataInv, TypeOK, ControlInv, PipelineShape
<1>3. DequeueSignals = InStage(core.fetch).icd
  BY <1>2, AtRest, DequeuingStage, BubbleFields DEF DequeueSignals, ControlInv, PipelineShape
<1>4. EnqueueSignals = Retiring.oci
  BY AtRest, BubbleFields DEF EnqueueSignals
<1>5. InFlight(Retiring) /\ DatapathResult \in Word
  BY <1>2, RetiringType
<1>6. /\ \A c \in InStage(core.fetch).icd : inq[c] # << >>
      /\ \A c \in Retiring.oci : Len(outq[c]) < ChannelDepth
  BY <1>3, <1>4, ChannelsRespectedFrom DEF ChannelsRespected
<1>7. InputsGrow(Dequeued(inq, InStage(core.fetch).icd), inq')
  BY <1>1, <1>2, <1>3, <1>6, InputEdge
<1>8. OutputsShrink(Enqueued(outq, Retiring, DatapathResult), outq')
  BY <1>1, <1>2, <1>4, <1>5, <1>6, OutputEdge DEF Outgoing
<1> QED
  BY <1>7, <1>8

\* After a halt the channels only gain what arrives and lose what is taken.
LEMMA QueuesHalted ==
    ASSUME DataInv, halted,
           NEW arriving \in [InputChannels -> Arriving \cup {NoPacket}],
           NEW acknowledged \in SUBSET OutputChannels, Clock(arriving, acknowledged)
    PROVE  InputsGrow(inq, inq') /\ OutputsShrink(outq, outq')
<1>1. DequeueSignals = {} /\ EnqueueSignals = {}
  BY DEF DequeueSignals, EnqueueSignals
<1>2. ASSUME NEW c \in InputChannels PROVE Grows(inq[c], inq'[c])
  <2>1. arriving[c] # NoPacket => arriving[c] \in Packet
    BY PacketsAssumption
  <2>2. inq'[c] = InputChannelAfter(c, c \in DequeueSignals, arriving[c])
    BY DEF Clock
  <2> QED
    BY <1>1, <2>1, <2>2 DEF InputChannelAfter, Grows
<1>3. ASSUME NEW c \in OutputChannels PROVE Shrinks(outq[c], outq'[c])
  <2>1. outq'[c] = OutputChannelAfter(c, c \in EnqueueSignals, Outgoing, c \in acknowledged)
    BY DEF Clock
  <2> QED
    BY <1>1, <2>1 DEF OutputChannelAfter, Shrinks
<1> QED
  BY <1>2, <1>3 DEF InputsGrow, OutputsShrink

\* What a pipeline register takes over from the stage in front of it.
LEMMA EntryAfter ==
    ASSUME DataInv, PathInv, AvoidThirdOperand, prog \in Programs, PipelineRegisters, ~Miss,
           NEW t \in InFlightStages, NEW s, s = t - 1, NEW ins, ins = InStage(s)
    PROVE  /\ pipe'[t].ins = ins
           /\ s >= core.fetch => pipe'[t].x = OperandsIn(s)
           /\ t = core.stages => pipe'[t].result = ResultRegister(ins, pipe'[t].x)
<1>1. /\ core.stages \in 0 .. 3 /\ core.fetch \in 0 .. 1 /\ t \in 1 .. core.stages
      /\ s \in 0 .. core.stages
  BY CoreShape DEF DataInv, TypeOK, InFlightStages
<1>2. PICK undriven :
        pipe' = [u \in InFlightStages |-> IF Flushes(u) THEN EmptyEntry ELSE Moved(u, undriven)]
  BY DEF PipelineRegisters
<1>3. pipe'[t] = Moved(t, undriven)
  BY <1>2 DEF Flushes
<1>4. ~(ins.op = "mac" /\ ~core.thirdOperand)
  BY <1>1, StageFits
<1>5. t > core.fetch <=> s >= core.fetch
  BY <1>1
<1> QED
  BY <1>3, <1>4, <1>5 DEF Moved

\* A predicate writer that does not retire at this edge keeps its prediction open.
LEMMA WriterKept ==
    ASSUME ControlInv, ~halted, PredicateUnit(HazardFree, Retiring, DatapathTrue),
           NEW s \in InFlightStages, s # core.stages, WritesPredicate(pipe[s].ins)
    PROVE  /\ speculating' = speculating
           /\ savedPrediction' = savedPrediction /\ savedPreds' = savedPreds
           /\ speculating => ~Ends /\ ~Hit
<1>1. /\ core \in Cores /\ prog \in Programs /\ speculating \in BOOLEAN
      /\ HasSpeculativePredicateUnit \/ ~speculating
      /\ \A u, t \in InFlightStages :
            WritesPredicate(pipe[u].ins) /\ WritesPredicate(pipe[t].ins) => u = t
      /\ HasSpeculativePredicateUnit =>
            speculating = (\E u \in InFlightStages : WritesPredicate(pipe[u].ins))
  BY DEF ControlInv, PipelineShape, SpeculationTracksWriter
<1>2. internalEnable
  BY AtRest, BubbleFields
<1>3. ~Ends /\ ~Hit
  BY <1>1, Signals, RetiringStage
<1>4. ~Begins
  BY <1>1, <1>3, Signals
<1>5. /\ speculating' = (speculating /\ ~Ends)
      /\ savedPrediction' = savedPrediction /\ savedPreds' = savedPreds
  BY <1>2, <1>4, NoneBegins DEF Begins, Ends
<1> QED
  BY <1>1, <1>3, <1>5

\* What an operation other than a load computes does not depend on the scratchpad.
LEMMA ResultIgnores ==
    ASSUME NEW op, op # "lsw", NEW x, NEW m1, NEW m2
    PROVE  Result(op, x, m1) = Result(op, x, m2)
  BY DEF Result

\* An instruction that moves on computes one stage later what it would have computed.
LEMMA Carried ==
    ASSUME ControlInv, DataInv, PathInv, AvoidThirdOperand, ~halted, ~Miss,
           PipelineRegisters, spad' = StoredByPipe, core' = core,
           NEW t \in InFlightStages, NEW s, s = t - 1, s >= core.fetch,
           NEW ins, ins = InStage(s), ins # Bubble,
           NEW d, d = Older(s), d.cut = "none", NEW e, e.arch.regs = d.arch.regs,
           d.arch.inq = inq,
           IF t = core.stages THEN d.arch.spad = spad /\ e.arch.spad = spad'
                              ELSE e.arch.spad = d.arch.spad,
           NEW x, x = IF s > core.fetch THEN pipe[s].x
                      ELSE Operands(ins, d.arch.regs, d.arch.inq),
           NEW v, v = Result(ins.op, x, d.arch.spad)
    PROVE  /\ pipe'[t].ins = ins
           /\ x = FinalOperands(t, e)' /\ v = FinalValue(t, e)'
           /\ (IF t = core.stages THEN e.arch.spad ELSE Stored(ins, x, e.arch.spad)) =
                 Stored(ins, x, d.arch.spad)
<1>1. /\ core.stages \in 0 .. 3 /\ core.fetch \in 0 .. 1 /\ t \in 1 .. core.stages
      /\ s \in 0 .. core.stages /\ prog \in Programs /\ core \in Cores
  BY CoreShape DEF DataInv, TypeOK, InFlightStages, ControlInv, PipelineShape
<1>2. /\ pipe'[t].ins = ins /\ pipe'[t].x = OperandsIn(s)
      /\ t = core.stages => pipe'[t].result = ResultRegister(ins, pipe'[t].x)
  BY <1>1, EntryAfter
<1>3. OperandsIn(s) = x
  <2>1. CASE s = core.fetch
    <3>1. core.fetch # core.stages
      BY <1>1, <2>1
    <3>2. Operands(InStage(core.fetch), d.arch.regs, inq) = FetchedOperands
      BY <2>1, <3>1, OperandsFetched
    <3> QED
      BY <1>1, <2>1, <3>2 DEF OperandsIn
  <2>2. CASE s # core.fetch
    <3>1. s > core.fetch
      BY <1>1, <2>2
    <3> QED
      BY <2>2, <3>1 DEF OperandsIn
  <2> QED
    BY <2>1, <2>2
<1>4. x = FinalOperands(t, e)'
  <2>1. t > core.fetch
    BY <1>1
  <2> QED
    BY <1>2, <1>3, <2>1 DEF FinalOperands
<1>5. internalEnable
  <2>1. s = 0 \/ (s # 0 /\ s \in InFlightStages)
    BY <1>1 DEF InFlightStages
  <2> QED
    BY <2>1, AtRest DEF InStage
<1>6. v = FinalValue(t, e)'
  <2>1. FinalValue(t, e)' = IF Registered(ins) /\ t = core.stages THEN pipe'[t].result
                            ELSE Result(ins.op, x, e.arch.spad)
    BY <1>2, <1>4 DEF FinalValue, Registered
  <2>2. CASE Registered(ins) /\ t = core.stages
    BY <1>2, <1>3, <1>5, <2>1, <2>2 DEF ResultRegister
  <2>3. CASE ~Registered(ins) /\ t = core.stages
    BY <2>1, <2>3, ResultIgnores DEF Registered
  <2>4. CASE t # core.stages
    BY <2>1, <2>4
  <2> QED
    BY <2>2, <2>3, <2>4
<1>7. ASSUME t = core.stages PROVE spad' = Stored(ins, x, spad)
  <2>1. core.fetch < core.stages /\ core.stages - 1 = s
    BY <1>1, <1>7
  <2> QED
    BY <1>3, <2>1 DEF StoredByPipe
<1> QED
  BY <1>2, <1>4, <1>6, <1>7

\* d is what an instruction in stage s finds before the edge, e what it finds behind
\* the edge in the next stage.  Both are the same state, but for the packets that
\* arrive and leave, and what stage fetch and the instruction next to retirement do
\* at the edge.
Moves(s, d, e) ==
    /\ e.cut = d.cut
    /\ OutputsShrink(d.arch.outq, e.arch.outq)
    /\ ~HasSpeculativePredicateUnit /\ HazardFree = Bubble => e.arch.preds = d.arch.preds
    /\ d.cut = "none" =>
          /\ e.arch.regs = d.arch.regs
          /\ e.arch.inq = inq'
          /\ d.arch.inq = IF s >= core.fetch THEN inq ELSE Dequeued(inq, pipe[1].ins.icd)
          /\ IF s + 1 = core.stages THEN d.arch.spad = spad /\ e.arch.spad = spad'
                                    ELSE e.arch.spad = d.arch.spad
    /\ d.cut = "miss" =>
          /\ e.arch.regs = d.arch.regs /\ e.arch.preds = d.arch.preds
          /\ e.arch.spad = d.arch.spad
          /\ InputsGrow(d.arch.inq, e.arch.inq)
    /\ d.cut = "halt" =>
          \E icd \in SUBSET InputChannels : InputsGrow(Dequeued(d.arch.inq, icd), e.arch.inq)

\* Without speculation, and with nothing issued, the retiring instruction brings
\* the result of its predicate.
LEMMA RetiringPreds ==
    ASSUME ControlInv, DataInv, ~halted, ~HasSpeculativePredicateUnit, HazardFree = Bubble,
           PredicateUnit(HazardFree, Retiring, DatapathTrue)
    PROVE  preds' = PredicatesWith(preds, Retiring, DatapathResult)
<1>1. ~speculating /\ preds \in SUBSET Predicates
  BY DEF ControlInv, PipelineShape, DataInv, TypeOK, UnitsTypeOK
<1>2. ~Ends /\ ~Miss /\ ~Override /\ ~Begins
  BY <1>1, Signals
<1>3. CASE internalEnable
  <2>1. preds' = NextPreds(Bubble, Retiring, DatapathTrue)
    BY <1>2, <1>3, NoneBegins DEF Begins, Miss, Override
  <2> QED
    BY <1>1, <1>2, <2>1, ResultOnly DEF DatapathTrue, Ends
<1>4. CASE ~internalEnable
  <2>1. Retiring = Bubble /\ preds' = preds
    BY <1>4, AtRest DEF PredicateUnit, predicateUnit
  <2> QED
    BY <2>1, BubbleFields DEF PredicatesWith
<1> QED
  BY <1>3, <1>4

LEMMA MovesLast ==
    ASSUME ControlInv, DataInv, DataInv', ~halted, ~halted', ~Miss, core.stages # 0,
           NEW arriving \in [InputChannels -> Arriving \cup {NoPacket}],
           NEW acknowledged \in SUBSET OutputChannels, Clock(arriving, acknowledged),
           NEW t, t = core.stages, NEW s, s = t - 1, NEW d, d = Older(s), NEW e, e = Older(t)'
    PROVE  Moves(s, d, e)
<1>1. /\ core' = core /\ regs' = RegistersWith(regs, Retiring, DatapathResult)
      /\ PredicateUnit(HazardFree, Retiring, DatapathTrue) /\ ExecutionControl(Retiring)
  BY DEF Clock
<1>2. /\ core \in Cores /\ core.stages \in 1 .. 3 /\ core.fetch \in 0 .. 1
      /\ core.fetch <= core.stages /\ s + 1 = core.stages /\ s = core.stages - 1
  BY CoreShape DEF DataInv, TypeOK
<1>3. e = Start'
  <2>1. BehindIsStart'
    BY OlderIsStart, PTL
  <2> QED
    BY <1>1, <1>2, <2>1 DEF BehindIsStart
<1>4. /\ e.cut = "none" /\ e.arch.regs = regs' /\ e.arch.preds = preds' /\ e.arch.spad = spad'
      /\ e.arch.inq = inq' /\ e.arch.outq = outq'
  BY <1>3 DEF Start, CurrentState
<1>5. Retiring.op # "halt"
  BY <1>1, AtRest, BubbleFields DEF ExecutionControl
<1>6. /\ d.arch.regs = RegistersWith(regs, Retiring, DatapathResult)
      /\ d.arch.preds = (IF speculating THEN preds
                         ELSE PredicatesWith(preds, Retiring, DatapathResult))
      /\ d.arch.spad = spad
      /\ d.arch.inq = (IF core.stages > core.fetch THEN inq ELSE Dequeued(inq, Retiring.icd))
      /\ d.arch.outq = Enqueued(outq, Retiring, DatapathResult)
      /\ d.cut = "none" /\ Retiring = pipe[core.stages].ins
  BY <1>5, RetiringLeaves
<1>7. OutputsShrink(d.arch.outq, e.arch.outq)
  BY <1>4, <1>6, EdgeQueues
<1>8. d.arch.inq = IF s >= core.fetch THEN inq ELSE Dequeued(inq, pipe[1].ins.icd)
  <2>1. CASE core.stages > core.fetch
    BY <1>2, <1>6, <2>1
  <2>2. CASE core.stages = core.fetch
    <3>1. core.stages = 1 /\ ~(s >= core.fetch)
      BY <1>2, <2>2
    <3> QED
      BY <1>6, <2>2, <3>1
  <2> QED
    BY <1>2, <2>1, <2>2
<1>9. ASSUME ~HasSpeculativePredicateUnit, HazardFree = Bubble PROVE e.arch.preds = d.arch.preds
  <2>1. ~speculating
    BY <1>9 DEF ControlInv, PipelineShape
  <2> QED
    BY <1>1, <1>4, <1>6, <1>9, <2>1, RetiringPreds
<1> QED
  BY <1>1, <1>2, <1>4, <1>6, <1>7, <1>8, <1>9 DEF Moves

\* What an instruction in flight adds, it adds on both sides of the edge.
LEMMA MovesOn ==
    ASSUME ControlInv, DataInv, PathInv, DataInv', AvoidThirdOperand, ~halted, ~Miss,
           NEW arriving \in [InputChannels -> Arriving \cup {NoPacket}],
           NEW acknowledged \in SUBSET OutputChannels, Clock(arriving, acknowledged),
           NEW s \in InFlightStages, s # core.stages, NEW t, t = s + 1,
           NEW d, d = Older(s), NEW e, e = Older(t)', Moves(s, d, e)
    PROVE  Moves(s - 1, Older(s - 1), Older(s)')
<1>1. /\ core' = core /\ PipelineRegisters /\ spad' = StoredByPipe
      /\ PredicateUnit(HazardFree, Retiring, DatapathTrue)
  BY DEF Clock
<1>2. /\ core \in Cores /\ core.stages \in 0 .. 3 /\ core.fetch \in 0 .. 1
      /\ s \in 1 .. core.stages /\ t \in 1 .. core.stages /\ t \in InFlightStages
      /\ s = t - 1 /\ s >= core.fetch /\ InFlightStages' = InFlightStages /\ prog \in Programs
  BY <1>1, CoreShape DEF DataInv, TypeOK, InFlightStages, ControlInv, PipelineShape
<1> DEFINE ins == pipe[s].ins
           x == FinalOperands(s, d)
           v == FinalValue(s, d)
           d2 == Older(s - 1)
           e2 == Older(s)'
<1>3. d \in Found /\ e \in Found /\ d.arch \in ArchState /\ e.arch \in ArchState
  <2>1. d \in Found
    BY <1>2, OlderType DEF OlderTyped
  <2>2. OlderTyped'
    <3>1. (DataInv => OlderTyped)'
      BY OlderType, PTL
    <3> QED
      BY <3>1
  <2>3. e \in Found
    BY <1>2, <2>2 DEF OlderTyped
  <2> QED
    BY <2>1, <2>3 DEF Found
<1>4. d2 = IF d.cut # "none" THEN d ELSE Finished(s, d)
  BY <1>2, OlderSteps DEF OlderIsThen
<1>5. e2 = IF e.cut # "none" THEN e ELSE Finished(t, e)'
  <2>1. OlderIsThen'
    BY OlderSteps, PTL
  <2> QED
    BY <1>1, <1>2, <2>1 DEF OlderIsThen
<1>6. CASE d.cut # "none"
  <2>1. d2 = d /\ e2 = e
    BY <1>4, <1>5, <1>6 DEF Moves
  <2> QED
    BY <1>6, <2>1 DEF Moves
<1>7. CASE d.cut = "none"
  <2>1. /\ e.cut = "none" /\ OutputsShrink(d.arch.outq, e.arch.outq)
        /\ ~HasSpeculativePredicateUnit /\ HazardFree = Bubble => e.arch.preds = d.arch.preds
        /\ e.arch.regs = d.arch.regs /\ e.arch.inq = inq' /\ d.arch.inq = inq
        /\ IF t = core.stages THEN d.arch.spad = spad /\ e.arch.spad = spad'
                              ELSE e.arch.spad = d.arch.spad
    BY <1>2, <1>7 DEF Moves
  <2>2. InStage(s) = ins /\ InFlight(ins) /\ x \in [1 .. 3 -> Word] /\ v \in Word
    BY <1>2, <1>3, FinalType DEF InStage, DataInv, FinalTyped
  <2>3. /\ pipe'[t].ins = ins
        /\ ins # Bubble => x = FinalOperands(t, e)' /\ v = FinalValue(t, e)'
        /\ (IF t = core.stages THEN e.arch.spad ELSE Stored(ins, x, e.arch.spad)) =
              Stored(ins, x, d.arch.spad)
    <3>1. pipe'[t].ins = ins
      BY <1>1, <1>2, <2>2, EntryAfter
    <3>2. CASE ins # Bubble
      <4>1. /\ x = IF s > core.fetch THEN pipe[s].x ELSE Operands(ins, d.arch.regs, d.arch.inq)
            /\ v = Result(ins.op, x, d.arch.spad)
        BY DEF FinalOperands, FinalValue
      <4> HIDE DEF ins, x, v
      <4> QED
        BY <1>1, <1>2, <1>7, <2>1, <2>2, <3>1, <3>2, <4>1, Carried
    <3>3. CASE ins = Bubble
      <4>1. Stored(ins, x, d.arch.spad) = d.arch.spad /\ Stored(ins, x, e.arch.spad) = e.arch.spad
        BY <3>3, BubbleFields DEF Stored
      <4>2. t = core.stages => spad' = spad
        <5>1. t = core.stages => core.fetch < core.stages /\ core.stages - 1 = s
          BY <1>2
        <5> QED
          BY <1>1, <2>2, <3>3, <5>1, BubbleFields DEF StoredByPipe, Stored
      <4> QED
        BY <2>1, <3>1, <3>3, <4>1, <4>2
    <3> QED
      BY <3>2, <3>3
  <2> DEFINE y == FinalOperands(t, e)'
             w == FinalValue(t, e)'
  <2>4. w \in Word
    <3>1. FinalTyped'
      <4>1. (DataInv => FinalTyped)'
        BY FinalType, PTL
      <4> QED
        BY <4>1
    <3> QED
      BY <1>2, <1>3, <3>1 DEF FinalTyped
  <2>5. /\ d2.arch.regs = RegistersWith(d.arch.regs, ins, v)
        /\ d2.arch.preds = (IF Refuted(s, d) THEN savedPreds
                            ELSE IF speculating THEN d.arch.preds
                            ELSE PredicatesWith(d.arch.preds, ins, v))
        /\ d2.arch.spad = Stored(ins, x, d.arch.spad)
        /\ d2.arch.inq = (IF s > core.fetch THEN d.arch.inq ELSE Dequeued(d.arch.inq, ins.icd))
        /\ d2.arch.outq = Enqueued(d.arch.outq, ins, v)
        /\ d2.cut = (IF ins.op = "halt" THEN "halt" ELSE IF Refuted(s, d) THEN "miss" ELSE "none")
    BY <1>3, <1>4, <1>7, FinishedFields DEF FinishedIsLeft
  <2>6. /\ e2.arch.regs = RegistersWith(e.arch.regs, ins, w)
        /\ e2.arch.preds = (IF Refuted(t, e)' THEN savedPreds'
                            ELSE IF speculating' THEN e.arch.preds
                            ELSE PredicatesWith(e.arch.preds, ins, w))
        /\ e2.arch.spad = (IF t = core.stages THEN e.arch.spad ELSE Stored(ins, y, e.arch.spad))
        /\ e2.arch.inq = inq'
        /\ e2.arch.outq = Enqueued(e.arch.outq, ins, w)
        /\ e2.cut = (IF ins.op = "halt" THEN "halt" ELSE IF Refuted(t, e)' THEN "miss" ELSE "none")
    <3>1. FinishedIsLeft'
      BY FinishedFields, PTL
    <3>2. t > core.fetch
      BY <1>2
    <3> HIDE DEF ins, x, v
    <3>3. e2 = Finished(t, e)'
      BY <1>5, <2>1
    <3> QED
      BY <1>1, <1>3, <2>1, <2>3, <3>1, <3>2, <3>3 DEF FinishedIsLeft
  <2>7. /\ WritesPredicate(ins) =>
              /\ speculating' = speculating
              /\ savedPrediction' = savedPrediction /\ savedPreds' = savedPreds
              /\ speculating => ~Hit
        /\ WritesPredicate(ins) => ins # Bubble
    BY <1>1, WriterKept, BubbleFields
  <2>8. Refuted(s, d) <=> Refuted(t, e)'
    <3>1. Refuted(s, d) <=> speculating /\ WritesPredicate(ins) /\ (v # 0) # savedPrediction
      BY DEF Refuted
    <3>2. Refuted(t, e)' <=> speculating' /\ WritesPredicate(ins) /\ (w # 0) # savedPrediction'
      BY <2>3 DEF Refuted, WritesPredicate
    <3>3. ins # Bubble => v = w
      BY <2>3
    <3> HIDE DEF ins, v, w
    <3> QED
      BY <2>7, <3>1, <3>2, <3>3
  <2> HIDE DEF ins, x, v, y, w
  <2>9. e2.cut = d2.cut
    BY <2>5, <2>6, <2>8
  <2>10. /\ e2.arch.regs = d2.arch.regs
         /\ e2.arch.spad = d2.arch.spad
         /\ OutputsShrink(d2.arch.outq, e2.arch.outq)
         /\ PredicatesWith(d.arch.preds, ins, w) = PredicatesWith(d.arch.preds, ins, v)
    <3>1. CASE ins = Bubble
      <4>1. /\ d.arch.outq \in [OutputChannels -> Queue] /\ e.arch.outq \in [OutputChannels -> Queue]
            /\ inq \in [InputChannels -> Queue]
        BY <1>3 DEF ArchState, DataInv, TypeOK, UnitsTypeOK
      <4>2. \A r, p, m, z, u : /\ RegistersWith(r, Bubble, u) = r /\ PredicatesWith(p, Bubble, u) = p
                               /\ Stored(Bubble, z, m) = m
        BY BubbleFields DEF RegistersWith, PredicatesWith, Stored
      <4>3. \A u : /\ Enqueued(d.arch.outq, Bubble, u) = d.arch.outq
                   /\ Enqueued(e.arch.outq, Bubble, u) = e.arch.outq
        BY <4>1, BubbleEffects
      <4> QED
        BY <2>1, <2>3, <2>5, <2>6, <3>1, <4>2, <4>3
    <3>2. CASE ins # Bubble
      <4>1. w = v /\ y = x
        BY <2>3, <3>2 DEF w, v, y, x, ins
      <4>2. d.arch.outq \in [OutputChannels -> Queue]
        BY <1>3 DEF ArchState
      <4>3. OutputsShrink(Enqueued(d.arch.outq, ins, v), Enqueued(e.arch.outq, ins, v))
        BY <2>1, <2>2, <4>2, EnqueuedShrinks
      <4> QED
        BY <2>1, <2>3, <2>5, <2>6, <4>1, <4>3
    <3> QED
      BY <3>1, <3>2
  <2>11. ASSUME ~HasSpeculativePredicateUnit, HazardFree = Bubble PROVE e2.arch.preds = d2.arch.preds
    <3>1. ~speculating /\ ~speculating'
      <4>1. ~Begins /\ ~speculating
        BY <2>11, Signals DEF ControlInv, PipelineShape
      <4> QED
        BY <1>1, <4>1, SpeculatingAfter
    <3>2. ~Refuted(s, d)
      BY <3>1 DEF Refuted
    <3> QED
      BY <2>1, <2>5, <2>6, <2>8, <2>10, <2>11, <3>1, <3>2
  <2>12. InputsGrow(Dequeued(inq, InStage(core.fetch).icd), inq')
    BY EdgeQueues
  <2>13. s # core.fetch => s > core.fetch /\ s - 1 >= core.fetch
    BY <1>2
  <2>14. s = core.fetch => ~(s > core.fetch) /\ ~(s - 1 >= core.fetch) /\ s = 1 /\ core.fetch = 1
    BY <1>2
  <2>15. d2.arch.inq = IF s - 1 >= core.fetch THEN inq ELSE Dequeued(inq, pipe[1].ins.icd)
    BY <2>1, <2>5, <2>13, <2>14 DEF ins
  <2>16. inq \in [InputChannels -> Queue] /\ InFlight(InStage(core.fetch))
    BY <1>2, StageFits DEF DataInv, TypeOK, UnitsTypeOK
  <2>17. InStage(core.fetch).icd \in SUBSET InputChannels
    BY <2>16, InFlightType DEF Instruction
  <2>18. ASSUME d2.cut = "halt"
         PROVE  \E icd \in SUBSET InputChannels : InputsGrow(Dequeued(d2.arch.inq, icd), e2.arch.inq)
    <3>1. CASE s = core.fetch
      <4>1. d2.arch.inq = Dequeued(inq, InStage(core.fetch).icd)
        BY <1>2, <2>1, <2>5, <2>14, <2>2, <3>1
      <4>2. Dequeued(d2.arch.inq, {}) = d2.arch.inq
        BY <2>16, <4>1, DequeuedType DEF Dequeued
      <4> QED
        BY <2>6, <2>12, <4>1, <4>2
    <3>2. CASE s # core.fetch
      BY <2>1, <2>5, <2>6, <2>12, <2>13, <2>17, <3>2
    <3> QED
      BY <3>1, <3>2
  <2>19. ASSUME d2.cut = "miss"
         PROVE  e2.arch.preds = d2.arch.preds /\ InputsGrow(d2.arch.inq, e2.arch.inq)
    <3>1. Refuted(s, d) /\ speculating /\ WritesPredicate(ins)
      BY <2>5, <2>19 DEF Refuted, ins
    <3>2. e2.arch.preds = d2.arch.preds
      BY <2>5, <2>6, <2>7, <2>8, <3>1
    <3>3. CASE s = core.fetch
      <4>1. d2.arch.inq = Dequeued(inq, InStage(core.fetch).icd)
        BY <1>2, <2>1, <2>5, <2>14, <2>2, <3>3
      <4> QED
        BY <2>6, <2>12, <3>2, <4>1
    <3>4. CASE s # core.fetch
      <4>1. InStage(core.fetch).icd = {}
        <5>1. CASE core.fetch = 0
          <6>1. ~Hit /\ InStage(core.fetch) = Issued
            BY <2>7, <3>1, <5>1 DEF InStage
          <6>2. Issued = Bubble \/ (Issued = HazardFree /\ ~Override)
            BY <1>2, IssueShape
          <6> QED
            BY <3>1, <6>1, <6>2, Signals, BubbleFields
        <5>2. CASE core.fetch = 1
          <6>1. core.fetch \in InFlightStages /\ core.fetch < s /\ InStage(core.fetch) = pipe[core.fetch].ins
            BY <1>2, <3>4, <5>2 DEF InStage, InFlightStages
          <6> QED
            BY <3>1, <6>1 DEF ControlInv, SpeculationIsReversible, ins
        <5> QED
          BY <1>2, <5>1, <5>2
      <4>2. Dequeued(inq, {}) = inq
        BY <2>16 DEF Dequeued
      <4> QED
        BY <2>1, <2>5, <2>6, <2>12, <2>13, <3>2, <3>4, <4>1, <4>2
    <3> QED
      BY <3>3, <3>4
  <2>20. s - 1 + 1 # core.stages
    BY <1>2
  <2> QED
    BY <2>6, <2>9, <2>10, <2>11, <2>15, <2>18, <2>19, <2>20 DEF Moves
<1> QED
  BY <1>6, <1>7

\* All instructions in flight together make the same state before the edge and one
\* stage further.
LEMMA DrainedMoves ==
    ASSUME ControlInv, DataInv, PathInv, DataInv', AvoidThirdOperand, ~halted, ~halted', ~Miss,
           core.stages # 0,
           NEW arriving \in [InputChannels -> Arriving \cup {NoPacket}],
           NEW acknowledged \in SUBSET OutputChannels, Clock(arriving, acknowledged),
           NEW e, e = Older(1)'
    PROVE  Moves(0, Drained, e)
<1>1. core.stages \in 1 .. 3 /\ Drained = Older(0)
  BY CoreShape, OlderSteps DEF DataInv, TypeOK, OlderIsThen
<1>2. ASSUME NEW s \in {1, 2}, s < core.stages, Moves(s, Older(s), Older(s + 1)')
      PROVE  Moves(s - 1, Older(s - 1), Older(s)')
  <2>1. s \in InFlightStages /\ s # core.stages
    BY <1>1, <1>2 DEF InFlightStages
  <2> QED
    BY <1>2, <2>1, MovesOn
<1>3. ASSUME NEW t \in {1, 2, 3}, t = core.stages PROVE Moves(t - 1, Older(t - 1), Older(t)')
  BY <1>3, MovesLast
<1>4. CASE core.stages = 1
  <2>1. Moves(1 - 1, Older(1 - 1), Older(1)')
    BY <1>3, <1>4
  <2> QED
    BY <1>1, <2>1
<1>5. CASE core.stages = 2
  <2>1. Moves(2 - 1, Older(2 - 1), Older(2)')
    BY <1>3, <1>5
  <2>2. Moves(1, Older(1), Older(1 + 1)')
    BY <2>1
  <2>3. Moves(1 - 1, Older(1 - 1), Older(1)')
    BY <1>2, <1>5, <2>2
  <2> QED
    BY <1>1, <2>3
<1>6. CASE core.stages = 3
  <2>1. Moves(3 - 1, Older(3 - 1), Older(3)')
    BY <1>3, <1>6
  <2>2. Moves(2, Older(2), Older(2 + 1)')
    BY <2>1
  <2>3. Moves(2 - 1, Older(2 - 1), Older(2)')
    BY <1>2, <1>6, <2>2
  <2>4. Moves(1, Older(1), Older(1 + 1)')
    BY <2>3
  <2>5. Moves(1 - 1, Older(1 - 1), Older(1)')
    BY <1>2, <1>6, <2>4
  <2> QED
    BY <1>1, <2>5
<1> QED
  BY <1>1, <1>4, <1>5, <1>6

-----------------------------------------------------------------------------
(* What the trigger stage needs to know of the drained state.              *)

\* Once something has cut off what follows, nothing more is added.
CutRemains == \A s \in 0 .. 3 : Older(s).cut # "none" => Drained = Older(s)

LEMMA OlderCut == DataInv => CutRemains
<1> SUFFICES ASSUME DataInv PROVE CutRemains
  OBVIOUS
<1>1. ASSUME NEW s \in 1 .. 3, Older(s).cut # "none" PROVE Older(s - 1) = Older(s)
  BY <1>1, OlderSteps DEF OlderIsThen
<1>2. Drained = Older(0)
  BY OlderSteps DEF OlderIsThen
<1>3. Older(1).cut # "none" => Older(0) = Older(1)
  <2>1. 1 \in 1 .. 3 /\ 1 - 1 = 0
    OBVIOUS
  <2> QED
    BY <1>1, <2>1
<1>4. Older(2).cut # "none" => Older(1) = Older(2)
  <2>1. 2 \in 1 .. 3 /\ 2 - 1 = 1
    OBVIOUS
  <2> QED
    BY <1>1, <2>1
<1>5. Older(3).cut # "none" => Older(2) = Older(3)
  <2>1. 3 \in 1 .. 3 /\ 3 - 1 = 2
    OBVIOUS
  <2> QED
    BY <1>1, <2>1
<1>6. \A s \in 0 .. 3 : s = 0 \/ s = 1 \/ s = 2 \/ s = 3
  OBVIOUS
<1> QED
  BY <1>2, <1>3, <1>4, <1>5, <1>6 DEF CutRemains

\* While a prediction is open, and as long as no writer is in flight, the predicates
\* are those in the predicate unit, or those it has saved if the writer is refuted.
QuietBehind(s) == speculating \/ \A t \in InFlightStages : t > s => ~WritesPredicate(pipe[t].ins)

PredsAreThere ==
    \A s \in 0 .. 3 :
        QuietBehind(s) /\ Older(s).cut # "halt" =>
            Older(s).arch.preds = IF Older(s).cut = "miss" THEN savedPreds ELSE preds

LEMMA QuietPreds == DataInv => PredsAreThere
<1> SUFFICES ASSUME DataInv PROVE PredsAreThere
  OBVIOUS
<1> DEFINE P(s) == QuietBehind(s) /\ Older(s).cut # "halt" =>
                     Older(s).arch.preds = IF Older(s).cut = "miss" THEN savedPreds ELSE preds
<1>1. P(3)
  BY OlderSteps DEF OlderIsThen, Start, CurrentState
<1>2. ASSUME NEW s \in 1 .. 3, P(s) PROVE P(s - 1)
  <2> SUFFICES ASSUME QuietBehind(s - 1), Older(s - 1).cut # "halt"
               PROVE  Older(s - 1).arch.preds = IF Older(s - 1).cut = "miss" THEN savedPreds ELSE preds
    OBVIOUS
  <2> DEFINE d == Older(s)
             ins == pipe[s].ins
             v == FinalValue(s, d)
  <2>1. Older(s - 1) = IF s > core.stages \/ d.cut # "none" THEN d ELSE Finished(s, d)
    BY OlderSteps DEF OlderIsThen
  <2>2. QuietBehind(s)
    BY CoreShape DEF QuietBehind, InFlightStages, DataInv, TypeOK
  <2>3. d.cut # "halt" => d.arch.preds = IF d.cut = "miss" THEN savedPreds ELSE preds
    BY <1>2, <2>2
  <2>4. CASE s > core.stages \/ d.cut # "none"
    BY <2>1, <2>3, <2>4
  <2>5. CASE ~(s > core.stages \/ d.cut # "none")
    <3>1. d.arch \in ArchState
      BY OlderType DEF OlderTyped, Found
    <3>2. /\ Older(s - 1).arch.preds = (IF Refuted(s, d) THEN savedPreds
                            ELSE IF speculating THEN d.arch.preds
                            ELSE PredicatesWith(d.arch.preds, ins, v))
          /\ Older(s - 1).cut = (IF ins.op = "halt" THEN "halt"
                                   ELSE IF Refuted(s, d) THEN "miss" ELSE "none")
      BY <2>1, <2>5, <3>1, FinishedFields DEF FinishedIsLeft
    <3>3. s \in InFlightStages
      BY <2>5, CoreShape DEF InFlightStages, DataInv, TypeOK
    <3>4. speculating \/ PredicatesWith(d.arch.preds, ins, v) = d.arch.preds
      BY <3>3 DEF QuietBehind, PredicatesWith
    <3> HIDE DEF d, ins, v
    <3> QED
      BY <2>3, <2>5, <3>2, <3>4 DEF P
  <2> QED
    BY <2>4, <2>5
<1> HIDE DEF P
<1>3. P(3 - 1)
  BY <1>1, <1>2
<1>4. P(2 - 1)
  BY <1>2, <1>3
<1>5. P(1 - 1)
  BY <1>2, <1>4
<1>6. \A s \in 0 .. 3 : s = 1 - 1 \/ s = 2 - 1 \/ s = 3 - 1 \/ s = 3
  OBVIOUS
<1>7. \A s \in 0 .. 3 : P(s)
  BY <1>1, <1>3, <1>4, <1>5, <1>6
<1> QED
  BY <1>7 DEF PredsAreThere, P

\* A pipeline full of bubbles adds nothing.
BubblesDrain == (\A s \in InFlightStages : pipe[s].ins = Bubble) => Drained = Start

LEMMA DrainedBubbles == DataInv => BubblesDrain
<1> SUFFICES ASSUME DataInv, \A s \in InFlightStages : pipe[s].ins = Bubble PROVE Drained = Start
  BY DEF BubblesDrain
<1>1. core.stages \in 0 .. 3 /\ Drained = Older(0) /\ Start.cut = "none" /\ Start.arch = CurrentState
  BY CoreShape, OlderSteps DEF DataInv, TypeOK, OlderIsThen, Start
<1>2. CurrentState = State(regs, preds, spad, inq, outq) /\ CurrentState \in ArchState
  BY DEF CurrentState, State, ArchState, DataInv, TypeOK, UnitsTypeOK
<1>3. ASSUME NEW s \in InFlightStages PROVE Finished(s, Start) = Start
  <2> DEFINE x == FinalOperands(s, Start)
             v == FinalValue(s, Start)
             after == Finished(s, Start).arch
  <2>1. inq \in [InputChannels -> Queue] /\ outq \in [OutputChannels -> Queue]
    BY DEF DataInv, TypeOK, UnitsTypeOK
  <2>2. /\ RegistersWith(regs, Bubble, v) = regs /\ PredicatesWith(preds, Bubble, v) = preds
        /\ Stored(Bubble, x, spad) = spad /\ Dequeued(inq, Bubble.icd) = inq
        /\ Enqueued(outq, Bubble, v) = outq
    BY <2>1, BubbleEffects
  <2>3. /\ CurrentState.regs = regs /\ CurrentState.inq = inq /\ CurrentState.spad = spad
        /\ CurrentState.preds = preds /\ CurrentState.outq = outq
    BY DEF CurrentState
  <2>4. ~Refuted(s, Start)
    BY BubbleFields DEF Refuted
  <2>5. after = State(regs, preds, spad, inq, outq) /\ Finished(s, Start).cut = "none"
    <3>1. /\ after = State(after.regs, after.preds, after.spad, after.inq, after.outq)
          /\ after.regs = RegistersWith(regs, Bubble, v)
          /\ after.preds = (IF speculating THEN preds ELSE PredicatesWith(preds, Bubble, v))
          /\ after.spad = (IF s = core.stages THEN spad ELSE Stored(Bubble, x, spad))
          /\ after.inq = (IF s > core.fetch THEN inq ELSE Dequeued(inq, Bubble.icd))
          /\ after.outq = Enqueued(outq, Bubble, v)
          /\ Finished(s, Start).cut = "none"
      <4>1. pipe[s].ins = Bubble /\ Bubble.op # "halt"
        BY BubbleFields
      <4> QED
        BY <1>1, <1>2, <2>3, <2>4, <4>1, FinishedFields DEF FinishedIsLeft
    <3> HIDE DEF x, v, after
    <3> QED
      BY <2>2, <3>1
  <2>6. Finished(s, Start) = [arch |-> after, cut |-> Finished(s, Start).cut]
    BY DEF Finished
  <2> QED
    BY <1>2, <2>5, <2>6 DEF Start
<1>4. ASSUME NEW s \in 1 .. 3, Older(s) = Start PROVE Older(s - 1) = Start
  <2>1. Older(s - 1) = IF s > core.stages \/ Start.cut # "none" THEN Start ELSE Finished(s, Start)
    BY <1>4, OlderSteps DEF OlderIsThen
  <2> QED
    BY <1>1, <1>3, <2>1 DEF InFlightStages
<1>5. Older(3) = Start
  BY OlderSteps DEF OlderIsThen
<1>6. Older(3 - 1) = Start
  BY <1>4, <1>5
<1>7. Older(2 - 1) = Start
  BY <1>4, <1>6
<1>8. Older(1 - 1) = Start
  BY <1>4, <1>7
<1> QED
  BY <1>1, <1>8

\* The packets on their way are in the channels of the drained state.
LEMMA DrainedLengths ==
    ASSUME DataInv, Drained.cut = "none", NEW c \in OutputChannels
    PROVE  Len(Drained.arch.outq[c]) = Len(outq[c]) + Outstanding(c)
<1> DEFINE length(s) == Len(Older(s).arch.outq[c])
           send(s) == IF Sends(s, c) THEN 1 ELSE 0
<1>1. core.stages \in 0 .. 3 /\ Drained = Older(0)
  BY CoreShape, OlderSteps DEF DataInv, TypeOK, OlderIsThen
<1>2. ASSUME NEW s \in 1 .. 3
      PROVE  length(s) \in Nat /\ length(s - 1) = length(s) + send(s)
  <2> DEFINE d == Older(s)
             ins == pipe[s].ins
             v == FinalValue(s, d)
  <2>1. Older(s - 1) = IF s > core.stages \/ d.cut # "none" THEN d ELSE Finished(s, d)
    BY OlderSteps DEF OlderIsThen
  <2>2. d.cut = "none"
    BY OlderCut DEF CutRemains
  <2>3. d \in Found /\ d.arch \in ArchState /\ d.arch.outq \in [OutputChannels -> Queue]
    <3>1. d \in Found
      BY OlderType DEF OlderTyped
    <3> QED
      BY <3>1 DEF Found, ArchState
  <2>4. length(s) \in Nat
    BY <2>3 DEF Queue
  <2>5. CASE s > core.stages
    <3>1. ~Sends(s, c)
      BY <1>1, <2>5 DEF Sends, InFlightStages
    <3> QED
      BY <2>1, <2>4, <2>5, <3>1
  <2>6. CASE ~(s > core.stages)
    <3>1. s \in InFlightStages
      BY <1>1, <2>6 DEF InFlightStages
    <3>2. InFlight(ins) /\ v \in Word
      BY <2>3, <3>1, FinalType DEF FinalTyped, DataInv
    <3>3. Older(s - 1).arch.outq = Enqueued(d.arch.outq, ins, v)
      BY <2>1, <2>2, <2>3, <2>6, FinishedFields DEF FinishedIsLeft
    <3>4. Sends(s, c) <=> c \in ins.oci
      BY <3>1 DEF Sends
    <3>5. /\ c \in ins.oci => length(s - 1) = length(s) + 1
          /\ c \notin ins.oci => length(s - 1) = length(s)
      <4>1. length(s) = Len(d.arch.outq[c]) /\ length(s - 1) = Len(Enqueued(d.arch.outq, ins, v)[c])
        BY <3>3
      <4> HIDE DEF length, d, ins, v
      <4>2. ASSUME NEW o \in [OutputChannels -> Queue]
            PROVE  /\ c \in ins.oci => Len(Enqueued(o, ins, v)[c]) = Len(o[c]) + 1
                   /\ c \notin ins.oci => Len(Enqueued(o, ins, v)[c]) = Len(o[c])
        BY <3>2, EnqueuedLength
      <4> QED
        BY <2>3, <4>1, <4>2
    <3> HIDE DEF length, ins
    <3> QED
      BY <2>4, <3>4, <3>5
  <2> QED
    BY <2>5, <2>6
<1>3. length(3) = Len(outq[c])
  BY OlderSteps DEF OlderIsThen, Start, CurrentState
<1> HIDE DEF length, send
<1>4. length(3) \in Nat /\ length(3 - 1) = length(3) + send(3)
  BY <1>2
<1>5. length(2) \in Nat /\ length(2 - 1) = length(2) + send(2)
  BY <1>2
<1>6. length(1) \in Nat /\ length(1 - 1) = length(1) + send(1)
  BY <1>2
<1>7. Outstanding(c) = send(1) + send(2) + send(3) /\ send(1) \in 0 .. 1 /\ send(2) \in 0 .. 1
      /\ send(3) \in 0 .. 1
  BY DEF Outstanding, send
<1>8. length(0) = Len(outq[c]) + Outstanding(c)
  BY <1>3, <1>4, <1>5, <1>6, <1>7
<1> QED
  BY <1>1, <1>8 DEF length

\* What the channel status updaters show the trigger stage is the status the channels
\* will have behind the instructions in flight, exactly or on the safe side.
LEMMA StatusShown ==
    ASSUME DataInv, execute, ~halted, PipelineShape, Drained.cut = "none",
           NEW i, i = (IF core.fetch = 0 THEN inq ELSE Dequeued(inq, pipe[1].ins.icd)),
           NEW o, o = Drained.arch.outq
    PROVE  /\ NoPackets(i) \subseteq UpdatedEmpty
           /\ NoRoom(o) \subseteq UpdatedFull
           /\ HasFullInformation => UpdatedEmpty = NoPackets(i) /\ UpdatedFull = NoRoom(o)
           /\ \A c \in InputChannels \ UpdatedEmpty : ResolvedTags[c] = Head(i[c]).tag
<1>1. UnitsTypeOK /\ inq \in [InputChannels -> Queue] /\ core.fetch \in 0 .. 1
  BY CoreShape DEF DataInv, TypeOK, UnitsTypeOK
<1>2. /\ NoPackets(i) \subseteq UpdatedEmpty
      /\ HasFullInformation => UpdatedEmpty = NoPackets(i)
      /\ \A c \in InputChannels \ UpdatedEmpty : ResolvedTags[c] = Head(i[c]).tag
  <2> DEFINE icd == IF core.fetch = 0 THEN {} ELSE pipe[1].ins.icd
  <2>1. i = Dequeued(inq, icd)
    BY <1>1 DEF Dequeued
  <2>2. \A c \in icd : c \in InputChannels => inq[c] # << >>
    BY <1>1 DEF DataInv, ChannelInv
  <2>3. UpdatedEmpty = EmptyBehind(icd)
    BY DEF UpdatedEmpty
  <2>4. (IF core.fetch = 1 /\ execute /\ ~halted /\ pipe[1].ins.vi THEN pipe[1].ins.icd ELSE {}) = icd
    <3>1. core.fetch = 1 => 1 \in InFlightStages
      BY CoreShape DEF InFlightStages, DataInv, TypeOK
    <3>2. core.fetch = 1 => pipe[1].ins = Bubble \/ pipe[1].ins.vi
      BY <3>1 DEF PipelineShape
    <3> QED
      BY <1>1, <3>2, BubbleFields
  <2>5. ResolvedTags = TagsBehind(UpdatedEmpty, icd)
    BY <2>4 DEF ResolvedTags
  <2> HIDE DEF icd
  <2> QED
    BY <1>1, <2>1, <2>2, <2>3, <2>5, InputStatus DEF TagsBehind
<1>3. NoRoom(o) \subseteq UpdatedFull /\ (HasFullInformation => UpdatedFull = NoRoom(o))
  <2>1. \A c \in OutputChannels : Len(o[c]) = Len(outq[c]) + Outstanding(c)
    BY DrainedLengths
  <2>2. CASE HasFullInformation
    BY <2>1, <2>2 DEF NoRoom, UpdatedFull
  <2>3. CASE ~HasFullInformation
    <3>1. ASSUME NEW c \in OutputChannels, Len(o[c]) >= ChannelDepth, ~(Outstanding(c) > 0)
          PROVE  Len(outq[c]) = ChannelDepth
      <4> DEFINE before == Len(outq[c])
                 after == Len(o[c])
      <4>1. before \in Nat /\ before <= ChannelDepth /\ ChannelDepth \in Nat
        BY <1>1, SizesAssumption DEF UnitsTypeOK, Queue
      <4>2. after = before + Outstanding(c) /\ after >= ChannelDepth
        BY <2>1, <3>1
      <4>3. Outstanding(c) = 0
        BY <3>1 DEF Outstanding
      <4> HIDE DEF before, after
      <4> QED
        BY <4>1, <4>2, <4>3 DEF before
    <3> QED
      BY <2>3, <3>1 DEF NoRoom, UpdatedFull, FullChannels
  <2> QED
    BY <2>2, <2>3
<1> QED
  BY <1>2, <1>3

-----------------------------------------------------------------------------
(* Steps of the machine.                                                   *)

\* The machine shares its operators with the core.
LEMMA MachineOperators ==
    ASSUME NEW ins, NEW s, NEW t, NEW out
    PROVE  /\ Machine!Execute(ins, s) = Execute(ins, s)
           /\ Machine!Environment(s, out, t) <=> Surroundings(s, out, t)
           /\ Machine!WaitsForChannels(ins) <=> Waits(ins)
           /\ Machine!Dequeued(s, out) = Dequeued(s, out)
<1>1. Machine!Execute(ins, s) = Execute(ins, s)
  BY DEF Machine!Execute, Execute, Machine!Perform, Perform, Machine!Operands, Operands,
         Machine!Operand, Operand, Machine!HeadData, HeadData, Machine!Result, Result,
         Machine!Modulo, Modulo, Machine!Truth, Truth, Machine!Address, Address,
         Machine!Stored, Stored, Machine!Dequeued, Dequeued, Machine!WriteBack, WriteBack,
         Machine!RegistersWith, RegistersWith, Machine!PredicatesWith, PredicatesWith,
         Machine!WritesPredicate, WritesPredicate, Machine!Enqueued, Enqueued,
         Machine!Masked, Masked
<1>2. Machine!Packet = Packet
  BY DEF Machine!Packet, Packet, Machine!Word, Word
<1>3. Machine!Environment(s, out, t) <=> Surroundings(s, out, t)
  BY <1>2 DEF Machine!Environment, Surroundings, Grows
<1>4. Machine!WaitsForChannels(ins) <=> Waits(ins)
  BY DEF Machine!WaitsForChannels, Waits
<1>5. Machine!Dequeued(s, out) = Dequeued(s, out)
  BY DEF Machine!Dequeued, Dequeued
<1> QED
  BY <1>1, <1>3, <1>4, <1>5

\* What the machine's variables stand for.
MachineArch   == IF halted THEN CurrentState ELSE Drained.arch
MachineHalted == halted \/ Drained.cut = "halt"

LEMMA IdleStep ==
    ASSUME prog' = prog, MachineHalted' = MachineHalted,
           NEW a, a = MachineArch, NEW b, b = MachineArch',
           b.regs = a.regs, b.preds = a.preds, b.spad = a.spad,
           InputsGrow(a.inq, b.inq), OutputsShrink(a.outq, b.outq)
    PROVE  Machine!Next
<1>1. Machine!Environment(a, a.outq, b)
  BY IdleSurroundings, MachineOperators
<1>2. Machine!Idle
  BY <1>1 DEF Machine!Idle, MachineHalted, MachineArch
<1> QED
  BY <1>2 DEF Machine!Next

LEMMA FireStep ==
    ASSUME prog' = prog, ~MachineHalted,
           NEW n \in DOMAIN prog, MachineHalted' = (prog[n].op = "halt"),
           NEW ins, ins = prog[n], WellFormed(ins),
           NEW a \in ArchState, a = MachineArch, NEW b, b = MachineArch',
           NEW o2, OutputsShrink(a.outq, o2),
           InputsGrow(Dequeued(a.inq, ins.icd), b.inq),
           NEW v, v = Value(ins, a.regs, a.inq, a.spad),
           b = State(b.regs, b.preds, b.spad, b.inq, b.outq),
           b.regs = RegistersWith(a.regs, ins, v),
           b.preds = Masked(PredicatesWith(a.preds, ins, v), ins),
           b.spad = Stored(ins, Operands(ins, a.regs, a.inq), a.spad),
           b.outq = Enqueued(o2, ins, v),
           Triggered(ins, a.preds, NoPackets(a.inq), NoRoom(a.outq), HeadTags(a.inq)),
           \A j \in DOMAIN prog :
              Triggered(prog[j], a.preds, NoPackets(a.inq), NoRoom(a.outq), HeadTags(a.inq)) /\ j < n
                => ~HasFullInformation /\ Waits(prog[j])
    PROVE  Machine!Next
<1>1. Machine!Eligible =
        {j \in DOMAIN prog :
           Triggered(prog[j], a.preds, NoPackets(a.inq), NoRoom(a.outq), HeadTags(a.inq))}
  <2>1. \A p, empty, full, tag, j :
           Machine!Triggered(prog[j], p, empty, full, tag)
              <=> Triggered(prog[j], p, empty, full, tag)
    BY DEF Machine!Triggered, Triggered
  <2> QED
    BY <2>1 DEF Machine!Eligible, NoPackets, NoRoom, HeadTags, MachineArch
<1>2. n \in Machine!Choices
  BY <1>1, MachineOperators DEF Machine!Choices
<1> DEFINE t == Execute(ins, a)
<1>3. b.regs = t.regs /\ b.preds = t.preds /\ b.spad = t.spad /\ Surroundings(t, a.outq, b)
  <2>1. /\ a = State(a.regs, a.preds, a.spad, a.inq, a.outq)
        /\ a.regs \in [Registers -> Word] /\ a.spad \in [0 .. ScratchpadDepth - 1 -> Word]
        /\ a.inq \in [InputChannels -> Queue] /\ a.outq \in [OutputChannels -> Queue]
    BY DEF ArchState, State
  <2>2. b = State(RegistersWith(a.regs, ins, v), Masked(PredicatesWith(a.preds, ins, v), ins),
                  Stored(ins, Operands(ins, a.regs, a.inq), a.spad), b.inq, Enqueued(o2, ins, v))
    OBVIOUS
  <2> QED
    BY <2>1, <2>2, FireSurroundings
<1>4. t = Machine!Execute(prog[n], a)
  BY MachineOperators
<1>5. Machine!Environment(t, a.outq, b)
  BY <1>3, MachineOperators
<1> HIDE DEF t
<1>6. Machine!Fire(n)
  BY <1>2, <1>3, <1>4, <1>5 DEF Machine!Fire, MachineHalted, MachineArch
<1> QED
  BY <1>6 DEF Machine!Next

\* After a halt only the queues count, and they may lose what instructions behind
\* the halt dequeue.
LEMMA HaltStep ==
    ASSUME prog' = prog, MachineHalted, MachineHalted',
           NEW a \in ArchState, a = MachineArch, NEW b, b = MachineArch',
           NEW icd \in SUBSET InputChannels, InputsGrow(Dequeued(a.inq, icd), b.inq),
           OutputsShrink(a.outq, b.outq)
    PROVE  Machine!Next
<1> DEFINE s == [a EXCEPT !.inq = Dequeued(@, icd)]
<1>1. s.inq = Dequeued(a.inq, icd) /\ s.outq = a.outq
  BY DEF ArchState
<1>2. s = [a EXCEPT !.inq = Machine!Dequeued(@, icd)]
  BY MachineOperators
<1> HIDE DEF s
<1>3. Surroundings(s, s.outq, b)
  BY <1>1, IdleSurroundings
<1>4. Machine!Environment(s, a.outq, b)
  BY <1>1, <1>3, MachineOperators
<1>5. Machine!HaltShadow
  BY <1>2, <1>4 DEF Machine!HaltShadow, MachineHalted, MachineArch
<1> QED
  BY <1>5 DEF Machine!Next

-----------------------------------------------------------------------------
(* The issued instruction.                                                 *)

\* What the instruction that has just been issued adds behind the edge, when nothing
\* in front of it has cut it off.
LEMMA NextDrained ==
    ASSUME DataInv, DataInv', PathInv, AvoidThirdOperand, prog \in Programs, core.stages # 0,
           core' = core, PipelineRegisters, ~Miss,
           NEW e, e = Older(1)', e.cut = "none", NEW ins, ins = Issued,
           NEW y, y = FinalOperands(1, e)', NEW w, w = FinalValue(1, e)',
           NEW f, f = Drained', NEW b, b = f.arch
    PROVE  /\ w \in Word /\ InFlight(ins) /\ e.arch \in ArchState /\ 1 \in InFlightStages
           /\ pipe'[1].ins = ins
           /\ y = (IF 1 > core.fetch THEN pipe'[1].x ELSE Operands(ins, e.arch.regs, e.arch.inq))
           /\ w = (IF Registered(ins) /\ 1 = core.stages THEN pipe'[1].result
                   ELSE Result(ins.op, y, e.arch.spad))
           /\ Refuted(1, e)' <=>
                 speculating' /\ WritesPredicate(ins) /\ (w # 0) # savedPrediction'
           /\ b = State(b.regs, b.preds, b.spad, b.inq, b.outq)
           /\ b.regs = RegistersWith(e.arch.regs, ins, w)
           /\ b.preds = (IF Refuted(1, e)' THEN savedPreds'
                         ELSE IF speculating' THEN e.arch.preds
                         ELSE PredicatesWith(e.arch.preds, ins, w))
           /\ b.spad = (IF 1 = core.stages THEN e.arch.spad ELSE Stored(ins, y, e.arch.spad))
           /\ b.inq = (IF 1 > core.fetch THEN e.arch.inq ELSE Dequeued(e.arch.inq, ins.icd))
           /\ b.outq = Enqueued(e.arch.outq, ins, w)
           /\ f.cut = (IF ins.op = "halt" THEN "halt"
                       ELSE IF Refuted(1, e)' THEN "miss" ELSE "none")
<1>1. /\ core.stages \in 1 .. 3 /\ 1 \in InFlightStages /\ InFlightStages' = InFlightStages
      /\ InStage(0) = Issued /\ core.fetch \in 0 .. 1
  BY CoreShape DEF DataInv, TypeOK, InFlightStages, InStage
<1>2. pipe'[1].ins = ins
  BY <1>1, EntryAfter
<1>3. e \in Found /\ e.arch \in ArchState
  <2>1. (DataInv => OlderTyped)'
    BY OlderType, PTL
  <2>2. e \in Found
    BY <2>1 DEF OlderTyped
  <2> QED
    BY <2>2 DEF Found
<1>4. w \in Word
  <2>1. (DataInv => FinalTyped)'
    BY FinalType, PTL
  <2> QED
    BY <1>1, <1>3, <2>1 DEF FinalTyped
<1>5. f = Finished(1, e)'
  <2>1. OlderIsThen'
    BY OlderSteps, PTL
  <2>2. 1 \in 1 .. 3 /\ 1 - 1 = 0 /\ ~(1 > core.stages)
    BY <1>1
  <2> QED
    BY <2>1, <2>2 DEF OlderIsThen
<1>6. FinishedIsLeft'
  BY FinishedFields, PTL
<1>7. /\ b = State(b.regs, b.preds, b.spad, b.inq, b.outq)
      /\ b.regs = RegistersWith(e.arch.regs, ins, w)
      /\ b.preds = (IF Refuted(1, e)' THEN savedPreds'
                    ELSE IF speculating' THEN e.arch.preds
                    ELSE PredicatesWith(e.arch.preds, ins, w))
      /\ b.spad = (IF 1 = core.stages THEN e.arch.spad ELSE Stored(ins, y, e.arch.spad))
      /\ b.inq = (IF 1 > core.fetch THEN e.arch.inq ELSE Dequeued(e.arch.inq, ins.icd))
      /\ b.outq = Enqueued(e.arch.outq, ins, w)
      /\ f.cut = (IF ins.op = "halt" THEN "halt"
                  ELSE IF Refuted(1, e)' THEN "miss" ELSE "none")
  BY <1>2, <1>3, <1>5, <1>6 DEF FinishedIsLeft
<1>8. Refuted(1, e)' <=> speculating' /\ WritesPredicate(ins) /\ (w # 0) # savedPrediction'
  BY <1>2 DEF Refuted, WritesPredicate
<1>9. /\ y = (IF 1 > core.fetch THEN pipe'[1].x ELSE Operands(ins, e.arch.regs, e.arch.inq))
      /\ w = (IF Registered(ins) /\ 1 = core.stages THEN pipe'[1].result
              ELSE Result(ins.op, y, e.arch.spad))
  BY <1>2 DEF FinalOperands, FinalValue, Registered
<1>10. InFlight(ins)
  BY IssueFits
<1> QED
  BY <1>1, <1>2, <1>3, <1>4, <1>7, <1>8, <1>9, <1>10

\* With the speculative predicate unit the predicates never wait for a result.
NeverWaits == \A s \in 0 .. 3 : QuietBehind(s)

LEMMA SpeculationWaitsNot ==
    ControlInv /\ ~halted /\ HasSpeculativePredicateUnit => NeverWaits
  BY DEF NeverWaits, QuietBehind, ControlInv, PipelineShape, SpeculationTracksWriter

\* No writer retires that was not predicted, unless nothing is issued behind it.
LEMMA RetiringWriterEnds ==
    ASSUME ControlInv, ~halted, core.stages # 0,
           HasSpeculativePredicateUnit \/ HazardFree # Bubble
    PROVE  /\ ~WritesPredicate(Retiring) \/ Ends
           /\ ~HasSpeculativePredicateUnit =>
                 \A s \in InFlightStages : ~WritesPredicate(pipe[s].ins)
<1>1. core.stages \in InFlightStages /\ Retiring = pipe[core.stages].ins
  BY CoreShape DEF InFlightStages, Retiring, ControlInv, PipelineShape
<1>2. ~HasSpeculativePredicateUnit => \A s \in InFlightStages : ~WritesPredicate(pipe[s].ins)
  BY DEF HazardFree, ControlHazard
<1>3. HasSpeculativePredicateUnit /\ WritesPredicate(Retiring) => speculating
  BY <1>1 DEF ControlInv, PipelineShape, SpeculationTracksWriter
<1> QED
  BY <1>1, <1>2, <1>3, Signals

\* A step that fires nothing leaves the predicates of the machine alone.
LEMMA PredsIdle ==
    ASSUME ControlInv, ControlInv', DataInv, DataInv', ~halted, ~halted', core.stages # 0, ~Miss,
           PredicateUnit(HazardFree, Retiring, DatapathTrue), Issued = Bubble,
           Drained.cut = "none", NEW e, e = Older(1)', e.cut = "none",
           ~HasSpeculativePredicateUnit /\ HazardFree = Bubble =>
              e.arch.preds = Drained.arch.preds
    PROVE  e.arch.preds = Drained.arch.preds
<1>1. CASE ~HasSpeculativePredicateUnit
  <2>1. ~Override
    BY <1>1, Signals DEF ControlInv, PipelineShape
  <2> QED
    BY <1>1, <2>1 DEF Issued
<1>2. CASE HasSpeculativePredicateUnit
  <2>1. Drained.arch.preds = preds
    BY <1>2, SpeculationWaitsNot, QuietPreds, OlderSteps DEF NeverWaits, PredsAreThere, OlderIsThen
  <2>2. e.arch.preds = preds'
    <3>1. (ControlInv /\ ~halted /\ HasSpeculativePredicateUnit => NeverWaits)'
      BY SpeculationWaitsNot, PTL
    <3>2. (DataInv => PredsAreThere)'
      BY QuietPreds, PTL
    <3> QED
      BY <1>2, <3>1, <3>2 DEF NeverWaits, PredsAreThere
  <2>3. preds' = preds
    <3>1. CASE ~internalEnable
      BY <3>1 DEF PredicateUnit, predicateUnit
    <3>2. CASE internalEnable
      <4>1. HazardFree = Bubble \/ Override
        BY DEF Issued
      <4>2. ~Begins
        BY <4>1, Signals, BubbleFields
      <4>3. preds' = IF Override THEN preds ELSE NextPreds(HazardFree, Retiring, DatapathTrue)
        BY <3>2, <4>2, NoneBegins DEF Begins, Miss, Override
      <4>4. ~WritesPredicate(Retiring) \/ EndSpeculation(Retiring)
        BY <1>2, RetiringWriterEnds DEF Ends
      <4>5. NextPreds(Bubble, Retiring, DatapathTrue) = Masked(preds, Bubble)
        BY <4>4, MaskOnly DEF DatapathTrue
      <4>6. Masked(preds, Bubble) = preds
        BY BubbleFields DEF Masked
      <4> QED
        BY <4>1, <4>3, <4>5, <4>6
    <3> QED
      BY <3>1, <3>2
  <2> QED
    BY <2>1, <2>2, <2>3
<1> QED
  BY <1>1, <1>2

\* An instruction that is issued saw the predicates the machine sees, and adds its
\* mask and its result to them.
LEMMA PredsFire ==
    ASSUME ControlInv, ControlInv', DataInv, DataInv', ~halted, ~halted', core.stages # 0, ~Miss,
           PredicateUnit(HazardFree, Retiring, DatapathTrue), PipelineRegisters, core' = core,
           NEW ins, ins = Issued, ins # Bubble, WellFormed(ins),
           Drained.cut = "none", NEW e, e = Older(1)', e.cut = "none",
           NEW w, NEW refuted \in BOOLEAN,
           refuted <=> speculating' /\ WritesPredicate(ins) /\ (w # 0) # savedPrediction'
    PROVE  /\ Drained.arch.preds = preds
           /\ (IF refuted THEN savedPreds' ELSE IF speculating' THEN e.arch.preds
               ELSE PredicatesWith(e.arch.preds, ins, w)) =
                 Masked(PredicatesWith(preds, ins, w), ins)
<1>1. /\ ins = HazardFree /\ HazardFree # Bubble /\ ~Override /\ internalEnable
      /\ core \in Cores /\ prog \in Programs /\ speculating \in BOOLEAN
      /\ HasSpeculativePredicateUnit \/ ~speculating
  BY IssueShape DEF ControlInv, PipelineShape
<1>2. /\ ~WritesPredicate(Retiring) \/ EndSpeculation(Retiring)
      /\ ~HasSpeculativePredicateUnit =>
            \A s \in InFlightStages : ~WritesPredicate(pipe[s].ins)
  BY <1>1, RetiringWriterEnds DEF Ends
<1>3. Drained.arch.preds = preds
  <2>1. QuietBehind(0)
    BY <1>2, SpeculationWaitsNot DEF NeverWaits, QuietBehind
  <2> QED
    BY <2>1, QuietPreds, OlderSteps DEF PredsAreThere, OlderIsThen
<1>4. e.arch.preds = preds'
  <2>1. QuietBehind(1)'
    <3>1. CASE HasSpeculativePredicateUnit
      <4>1. (ControlInv /\ ~halted /\ HasSpeculativePredicateUnit => NeverWaits)'
        BY SpeculationWaitsNot, PTL
      <4> QED
        BY <3>1, <4>1 DEF NeverWaits
    <3>2. CASE ~HasSpeculativePredicateUnit
      <4>1. ASSUME NEW t \in InFlightStages, t > 1 PROVE ~WritesPredicate(pipe'[t].ins)
        <5>1. t # 1
          BY <4>1 DEF InFlightStages
        <5> QED
          BY <1>1, <1>2, <3>2, <5>1, PipelineAfter
      <4>2. InFlightStages' = InFlightStages
        BY DEF InFlightStages
      <4> QED
        BY <4>1, <4>2 DEF QuietBehind, WritesPredicate
    <3> QED
      BY <3>1, <3>2
  <2>2. (DataInv => PredsAreThere)'
    BY QuietPreds, PTL
  <2> QED
    BY <2>1, <2>2 DEF PredsAreThere
<1>5. CASE Begins
  <2>1. /\ speculating' = TRUE /\ WritesPredicate(ins)
        /\ (IF (w # 0) = savedPrediction' THEN preds' ELSE savedPreds') =
              Masked(PredicatesWith(preds, ins, w), ins)
    BY <1>1, <1>2, <1>5, PredictionBegins, Signals DEF Begins, DatapathTrue
  <2> QED
    BY <1>3, <1>4, <2>1
<1>6. CASE ~Begins
  <2>1. /\ speculating' = (speculating /\ ~Ends)
        /\ preds' = NextPreds(ins, Retiring, DatapathTrue)
    BY <1>1, <1>6, NoneBegins DEF Begins, Miss, Override, Ends
  <2>2. preds' = Masked(preds, ins)
    BY <1>2, <2>1, MaskOnly DEF DatapathTrue
  <2>3. CASE WritesPredicate(ins)
    <3>1. ~HasSpeculativePredicateUnit
      BY <1>1, <1>6, <2>3, Signals
    <3>2. ~speculating'
      BY <1>1, <2>1, <3>1
    <3>3. PredicatesWith(Masked(preds, ins), ins, w) = Masked(PredicatesWith(preds, ins, w), ins)
      BY MaskCommutes
    <3> QED
      BY <1>3, <1>4, <2>2, <3>2, <3>3
  <2>4. CASE ~WritesPredicate(ins)
    <3>1. \A p : PredicatesWith(p, ins, w) = p
      BY <2>4 DEF PredicatesWith
    <3> QED
      BY <1>3, <1>4, <2>2, <2>4, <3>1
  <2> QED
    BY <2>3, <2>4
<1> QED
  BY <1>5, <1>6

-----------------------------------------------------------------------------
(* The edges, as steps of the machine.                                     *)

LEMMA DrainedType == DataInv => Drained \in Found /\ Drained.arch \in ArchState
<1>1. DataInv => Drained \in Found
  BY OlderType, OlderSteps DEF OlderTyped, OlderIsThen
<1> QED
  BY <1>1 DEF Found

\* An edge of a core with pipeline registers that does not halt and finds no
\* prediction refuted.
LEMMA RunningEdge ==
    ASSUME ControlInv, ControlInv', DataInv, DataInv', PathInv, AvoidThirdOperand,
           ~halted, ~halted', ~Miss, core.stages # 0,
           NEW arriving \in [InputChannels -> Arriving \cup {NoPacket}],
           NEW acknowledged \in SUBSET OutputChannels, Clock(arriving, acknowledged)
    PROVE  Machine!Next
<1>1. /\ prog' = prog /\ core' = core /\ PipelineRegisters /\ spad' = StoredByPipe
      /\ PredicateUnit(HazardFree, Retiring, DatapathTrue)
  BY DEF Clock
<1>2. /\ core \in Cores /\ core.stages \in 1 .. 3 /\ core.fetch \in 0 .. 1
      /\ prog \in Programs /\ inq \in [InputChannels -> Queue]
      /\ inq' \in [InputChannels -> Queue]
  BY CoreShape DEF DataInv, TypeOK, UnitsTypeOK, ControlInv, PipelineShape
<1> DEFINE a == Drained.arch
           ins == Issued
<1>3. PICK e : e = Older(1)'
  OBVIOUS
<1>4. PICK f : f = Drained'
  OBVIOUS
<1>5. PICK b : b = f.arch
  OBVIOUS
<1>6. Moves(0, Drained, e)
  BY <1>3, DrainedMoves
<1>7. a = MachineArch /\ b = MachineArch' /\ a \in ArchState
      /\ MachineHalted = (Drained.cut = "halt") /\ MachineHalted' = (f.cut = "halt")
  BY <1>4, <1>5, DrainedType DEF MachineArch, MachineHalted
<1>8. e.cut = Drained.cut /\ OutputsShrink(a.outq, e.arch.outq)
  BY <1>6 DEF Moves
<1>9. CASE Drained.cut # "none"
  <2>1. f = e
    <3>1. OlderIsThen'
      BY OlderSteps, PTL
    <3>2. 1 \in 1 .. 3 /\ 1 - 1 = 0
      OBVIOUS
    <3> QED
      BY <1>3, <1>4, <1>8, <1>9, <3>1, <3>2 DEF OlderIsThen
  <2>2. CASE Drained.cut = "halt"
    <3>1. PICK icd \in SUBSET InputChannels : InputsGrow(Dequeued(a.inq, icd), b.inq)
      BY <1>5, <1>6, <2>1, <2>2 DEF Moves
    <3> HIDE DEF a
    <3> QED
      BY <1>1, <1>5, <1>7, <1>8, <2>1, <2>2, <3>1, HaltStep
  <2>3. CASE Drained.cut = "miss"
    <3>1. /\ b.regs = a.regs /\ b.preds = a.preds /\ b.spad = a.spad
          /\ InputsGrow(a.inq, b.inq)
      BY <1>5, <1>6, <2>1, <2>3 DEF Moves
    <3>2. MachineHalted' = MachineHalted
      BY <1>7, <1>8, <2>1
    <3> HIDE DEF a
    <3> QED
      BY <1>1, <1>5, <1>7, <1>8, <2>1, <3>1, <3>2, IdleStep
  <2>4. Drained.cut \in {"none", "halt", "miss"}
    BY DrainedType DEF Found
  <2> QED
    BY <1>9, <2>2, <2>3, <2>4
<1>10. CASE Drained.cut = "none"
  <2> DEFINE y == FinalOperands(1, e)'
             w == FinalValue(1, e)'
             refuted == Refuted(1, e)'
  <2>1. /\ e.cut = "none" /\ e.arch.regs = a.regs /\ e.arch.inq = inq'
        /\ a.inq = IF 0 >= core.fetch THEN inq ELSE Dequeued(inq, pipe[1].ins.icd)
        /\ IF 0 + 1 = core.stages THEN a.spad = spad /\ e.arch.spad = spad'
                                  ELSE e.arch.spad = a.spad
        /\ ~HasSpeculativePredicateUnit /\ HazardFree = Bubble => e.arch.preds = a.preds
    BY <1>6, <1>10 DEF Moves
  <2>2. a.inq = (IF core.fetch = 0 THEN inq ELSE Dequeued(inq, pipe[1].ins.icd))
    BY <1>2, <2>1
  <2>3. IF 1 = core.stages THEN a.spad = spad /\ e.arch.spad = spad'
                           ELSE e.arch.spad = a.spad
    BY <1>2, <2>1
  <2>4. /\ w \in Word /\ InFlight(ins) /\ e.arch \in ArchState /\ 1 \in InFlightStages
        /\ pipe'[1].ins = ins
        /\ y = (IF 1 > core.fetch THEN pipe'[1].x ELSE Operands(ins, e.arch.regs, e.arch.inq))
        /\ w = (IF Registered(ins) /\ 1 = core.stages THEN pipe'[1].result
                ELSE Result(ins.op, y, e.arch.spad))
        /\ refuted <=> speculating' /\ WritesPredicate(ins) /\ (w # 0) # savedPrediction'
        /\ b = State(b.regs, b.preds, b.spad, b.inq, b.outq)
        /\ b.regs = RegistersWith(e.arch.regs, ins, w)
        /\ b.preds = (IF refuted THEN savedPreds'
                      ELSE IF speculating' THEN e.arch.preds
                      ELSE PredicatesWith(e.arch.preds, ins, w))
        /\ b.spad = (IF 1 = core.stages THEN e.arch.spad ELSE Stored(ins, y, e.arch.spad))
        /\ b.inq = (IF 1 > core.fetch THEN e.arch.inq ELSE Dequeued(e.arch.inq, ins.icd))
        /\ b.outq = Enqueued(e.arch.outq, ins, w)
        /\ f.cut = (IF ins.op = "halt" THEN "halt" ELSE IF refuted THEN "miss" ELSE "none")
    BY <1>1, <1>2, <1>3, <1>4, <1>5, <2>1, NextDrained
  <2>5. InputsGrow(Dequeued(inq, InStage(core.fetch).icd), inq')
    BY EdgeQueues
  <2>6. core.fetch = 0 => 1 > core.fetch /\ InStage(core.fetch) = ins
    BY DEF InStage
  <2>7. core.fetch = 1 => ~(1 > core.fetch) /\ InStage(core.fetch) = pipe[1].ins
    BY DEF InStage
  <2>8. CASE ins = Bubble
    <3>1. e.arch.preds = a.preds
      BY <1>1, <1>3, <1>10, <2>1, <2>8, PredsIdle
    <3> HIDE DEF y, w, refuted, a
    <3>2. /\ e.arch.outq \in [OutputChannels -> Queue]
          /\ ~WritesPredicate(Bubble) /\ Bubble.op = "nop" /\ Bubble.icd = {}
      <4>1. e.arch.outq \in [OutputChannels -> Queue]
        BY <2>4 DEF ArchState
      <4> QED
        BY <4>1, BubbleFields
    <3>3. /\ RegistersWith(a.regs, Bubble, w) = a.regs
          /\ PredicatesWith(a.preds, Bubble, w) = a.preds
          /\ Stored(Bubble, y, e.arch.spad) = e.arch.spad
          /\ Dequeued(inq', Bubble.icd) = inq' /\ Dequeued(inq, Bubble.icd) = inq
          /\ Enqueued(e.arch.outq, Bubble, w) = e.arch.outq
      <4>1. PICK o : o = e.arch.outq
        OBVIOUS
      <4>2. o \in [OutputChannels -> Queue]
        BY <3>2, <4>1
      <4>3. Enqueued(o, Bubble, w) = o /\ Dequeued(inq, Bubble.icd) = inq
        BY <1>2, <4>2, BubbleEffects
      <4>4. Dequeued(inq', Bubble.icd) = inq'
        BY <1>2, <4>2, BubbleEffects
      <4>5. ASSUME NEW r, NEW p, NEW m
            PROVE  /\ RegistersWith(r, Bubble, w) = r /\ PredicatesWith(p, Bubble, w) = p
                   /\ Stored(Bubble, y, m) = m
        BY <1>2, <4>2, BubbleEffects
      <4> QED
        BY <4>1, <4>3, <4>4, <4>5
    <3>4. b.regs = a.regs /\ b.preds = a.preds /\ b.outq = e.arch.outq /\ b.inq = inq'
      BY <2>1, <2>4, <2>8, <3>1, <3>2, <3>3
    <3>5. b.spad = a.spad
      <4>1. spad' = spad \/ core.stages # 1
        <5>1. Stored(Bubble, OperandsIn(0), spad) = spad
          BY BubbleFields DEF Stored
        <5>2. core.stages = 1 => core.stages - 1 = 0 /\ InStage(0) = Bubble
          BY <2>8 DEF InStage
        <5> QED
          BY <1>1, <5>1, <5>2 DEF StoredByPipe
      <4> QED
        BY <2>3, <2>4, <2>8, <3>3, <4>1
    <3>6. InputsGrow(a.inq, b.inq)
      BY <1>2, <2>2, <2>5, <2>6, <2>7, <2>8, <3>3, <3>4
    <3>7. MachineHalted' = MachineHalted
      BY <1>7, <1>10, <2>4, <2>8, <3>2
    <3> QED
      BY <1>1, <1>7, <1>8, <3>4, <3>5, <3>6, <3>7, IdleStep
  <2>9. CASE ins # Bubble
    <3>1. /\ ins = Triggering /\ execute /\ WellFormed(ins)
      BY <1>2, <2>4, <2>9, IssuedFrom, AtRest DEF InFlight
    <3>2. /\ a.preds = preds
          /\ b.preds = Masked(PredicatesWith(preds, ins, w), ins)
      <4>1. refuted \in BOOLEAN
        BY DEF Refuted
      <4>2. /\ a.preds = preds
            /\ (IF refuted THEN savedPreds' ELSE IF speculating' THEN e.arch.preds
                ELSE PredicatesWith(e.arch.preds, ins, w)) =
                  Masked(PredicatesWith(preds, ins, w), ins)
        <5>1. /\ refuted <=> speculating' /\ WritesPredicate(ins) /\ (w # 0) # savedPrediction'
              /\ e.cut = "none"
          BY <2>1, <2>4
        <5> HIDE DEF ins, w, refuted
        <5>2. ins = Issued
          BY DEF ins
        <5> QED
          BY <1>1, <1>3, <1>10, <2>9, <3>1, <4>1, <5>1, <5>2, PredsFire DEF a
      <4> QED
        BY <2>4, <4>2
    <3>3. PICK n \in DOMAIN prog :
            /\ ins = prog[n]
            /\ Triggered(prog[n], preds, NoPackets(a.inq), NoRoom(a.outq), HeadTags(a.inq))
            /\ \A j \in DOMAIN prog :
                  /\ Triggered(prog[j], preds, NoPackets(a.inq), NoRoom(a.outq), HeadTags(a.inq))
                  /\ j < n
                  => ~HasFullInformation /\ Waits(prog[j])
      <4> DEFINE i == a.inq
                 o == a.outq
      <4>1. PipelineShape
        BY DEF ControlInv
      <4>2. /\ NoPackets(i) \subseteq UpdatedEmpty
            /\ NoRoom(o) \subseteq UpdatedFull
            /\ HasFullInformation => UpdatedEmpty = NoPackets(i) /\ UpdatedFull = NoRoom(o)
            /\ \A c \in InputChannels \ UpdatedEmpty : ResolvedTags[c] = Head(i[c]).tag
        BY <1>10, <2>2, <3>1, <4>1, StatusShown
      <4>3. ins = TriggeredInstruction(UpdatedEmpty, UpdatedFull, ResolvedTags)
        BY <3>1 DEF Triggering
      <4> HIDE DEF ins, i, o
      <4>4. \E n \in DOMAIN prog :
              /\ ins = prog[n]
              /\ Triggered(prog[n], preds, NoPackets(i), NoRoom(o), HeadTags(i))
              /\ \A j \in DOMAIN prog :
                    Triggered(prog[j], preds, NoPackets(i), NoRoom(o), HeadTags(i)) /\ j < n
                      => ~HasFullInformation /\ Waits(prog[j])
        BY <1>2, <2>9, <4>2, <4>3, TriggerAgrees
      <4> QED
        BY <4>4 DEF i, o
    <3> DEFINE v == Value(ins, a.regs, a.inq, a.spad)
    <3>4. \A c \in Checked(ins) : a.inq[c] # << >>
      <4> SUFFICES ASSUME NEW k \in ins.checks PROVE a.inq[k.channel] # << >>
        BY DEF Checked
      <4>1. k.channel \in InputChannels
        BY <3>1 DEF WellFormed, Instruction, Check
      <4> QED
        BY <3>3, <4>1 DEF Triggered, NoPackets
    <3>5. /\ w = v /\ b.spad = Stored(ins, Operands(ins, a.regs, a.inq), a.spad)
          /\ InputsGrow(Dequeued(a.inq, ins.icd), b.inq)
      <4>1. CASE core.fetch = 0
        <5> DEFINE x == Operands(ins, a.regs, a.inq)
        <5>1. a.inq = inq /\ Drained = Older(0) /\ ins = InStage(0) /\ 0 = 1 - 1 /\ 0 >= core.fetch
              /\ ~(0 > core.fetch)
          BY <2>2, <4>1, OlderSteps DEF OlderIsThen, InStage
        <5>2. x = y /\ v = w
              /\ (IF 1 = core.stages THEN e.arch.spad ELSE Stored(ins, x, e.arch.spad)) =
                    Stored(ins, x, a.spad)
          BY <1>1, <1>10, <2>1, <2>3, <2>4, <2>9, <5>1, Carried DEF Value
        <5> HIDE DEF x, y, w, v, ins, a
        <5>3. b.spad = Stored(ins, x, a.spad) /\ b.inq = inq'
          BY <2>1, <2>4, <2>6, <4>1, <5>2
        <5> QED
          BY <2>5, <2>6, <4>1, <5>1, <5>2, <5>3 DEF x
      <4>2. CASE core.fetch = 1
        <5>1. InputsGrow(a.inq, inq') /\ a.inq \in [InputChannels -> Queue]
          BY <1>7, <2>2, <2>5, <2>7, <4>2 DEF ArchState
        <5>2. /\ Operands(ins, a.regs, inq') = Operands(ins, a.regs, a.inq)
              /\ Value(ins, a.regs, inq', a.spad) = v
              /\ InputsGrow(Dequeued(a.inq, ins.icd), Dequeued(inq', ins.icd))
          <6> HIDE DEF a, ins
          <6> QED
            BY <3>1, <3>4, <5>1, FiresLater
        <5>3. core.stages = 1 => ~core.scratchpad /\ ~core.twoStages
          BY <1>2, <4>2, CoreConnections
        <5>4. ins.op \in {"lsw", "ssw"} => core.scratchpad
          <6>1. 0 \in 0 .. core.stages /\ ins = InStage(0)
            BY <1>2 DEF InStage
          <6> QED
            BY <1>2, <6>1, StageFits
        <5>5. e.arch.spad = a.spad
          <6>1. core.stages = 1 => spad' = spad
            BY <1>1, <4>2 DEF StoredByPipe
          <6> QED
            BY <2>3, <6>1
        <5>6. y = Operands(ins, a.regs, inq')
          BY <2>1, <2>4, <2>7, <4>2
        <5>7. w = v
          BY <2>4, <5>2, <5>3, <5>4, <5>5, <5>6 DEF Registered, Value
        <5>8. b.spad = Stored(ins, y, a.spad)
          <6>1. core.stages = 1 => Stored(ins, y, a.spad) = a.spad
            BY <5>3, <5>4 DEF Stored
          <6> QED
            BY <2>4, <5>5, <6>1
        <5>9. b.inq = Dequeued(inq', ins.icd)
          BY <2>1, <2>4, <2>7, <4>2
        <5> QED
          BY <5>2, <5>6, <5>7, <5>8, <5>9
      <4> QED
        BY <1>2, <4>1, <4>2
    <3>6. MachineHalted' = (prog[n].op = "halt") /\ ~MachineHalted
      BY <1>7, <1>10, <2>4, <3>3
    <3>7. b.regs = RegistersWith(a.regs, ins, v) /\ b.outq = Enqueued(e.arch.outq, ins, v)
          /\ b.preds = Masked(PredicatesWith(a.preds, ins, v), ins)
          /\ b = State(b.regs, b.preds, b.spad, b.inq, b.outq)
      BY <2>1, <2>4, <3>2, <3>5
    <3>8. v = Value(ins, a.regs, a.inq, a.spad)
      OBVIOUS
    <3> HIDE DEF a, ins, v
    <3> QED
      BY <1>1, <1>7, <1>8, <3>1, <3>2, <3>3, <3>5, <3>6, <3>7, <3>8, FireStep
  <2> QED
    BY <2>8, <2>9
<1> QED
  BY <1>9, <1>10

\* Behind the writer of a refuted prediction nothing dequeues or stores.
LEMMA NothingBehindMiss ==
    ASSUME ControlInv, ~halted, Miss, core.stages # 0
    PROVE  /\ core.stages > core.fetch => InStage(core.fetch).icd = {}
           /\ InStage(core.stages - 1).op # "ssw"
<1>1. /\ core \in Cores /\ core.stages \in 1 .. 3 /\ core.fetch \in 0 .. 1
      /\ core.stages \in InFlightStages /\ Retiring = pipe[core.stages].ins
      /\ speculating /\ WritesPredicate(Retiring) /\ ~Hit
      /\ prog \in Programs
  BY CoreShape, Signals DEF InFlightStages, Retiring, ControlInv, PipelineShape
<1>2. Issued.icd = {} /\ Issued.op # "ssw"
  <2>1. Issued = Bubble \/ (Issued = HazardFree /\ ~Override)
    BY <1>1, IssueShape
  <2> QED
    BY <1>1, <2>1, Signals, BubbleFields
<1>3. ASSUME NEW s \in InFlightStages, s < core.stages
      PROVE  pipe[s].ins.icd = {} /\ pipe[s].ins.op # "ssw"
  BY <1>1, <1>3 DEF ControlInv, SpeculationIsReversible
<1>4. ASSUME NEW s \in 0 .. 3, s < core.stages
      PROVE  InStage(s).icd = {} /\ InStage(s).op # "ssw"
  <2>1. CASE s = 0
    BY <1>2, <2>1 DEF InStage
  <2>2. CASE s # 0
    <3>1. s \in InFlightStages
      BY <1>1, <1>4, <2>2 DEF InFlightStages
    <3> QED
      BY <1>3, <1>4, <2>2, <3>1 DEF InStage
  <2> QED
    BY <2>1, <2>2
<1>5. core.fetch \in 0 .. 3 /\ core.stages - 1 \in 0 .. 3 /\ core.stages - 1 < core.stages
  BY <1>1
<1> QED
  BY <1>4, <1>5

\* The edge that annuls what follows a mispredicted writer: the machine has not seen
\* any of it.
LEMMA MissEdge ==
    ASSUME ControlInv, DataInv, DataInv', ~halted, ~halted', Miss, core.stages # 0,
           NEW arriving \in [InputChannels -> Arriving \cup {NoPacket}],
           NEW acknowledged \in SUBSET OutputChannels, Clock(arriving, acknowledged)
    PROVE  Machine!Next
<1>1. /\ prog' = prog /\ core' = core /\ PipelineRegisters /\ spad' = StoredByPipe
      /\ regs' = RegistersWith(regs, Retiring, DatapathResult)
      /\ PredicateUnit(HazardFree, Retiring, DatapathTrue) /\ ExecutionControl(Retiring)
  BY DEF Clock
<1>2. /\ core \in Cores /\ core.stages \in 1 .. 3 /\ core.fetch \in 0 .. 1
      /\ core.fetch <= core.stages /\ InFlightStages' = InFlightStages
  BY <1>1, CoreShape DEF DataInv, TypeOK, InFlightStages
<1>3. Ends /\ ~Hit /\ ~Begins /\ WritesPredicate(Retiring) /\ Retiring # Bubble
  BY Signals, BubbleFields
<1>4. internalEnable /\ execute
  BY <1>3, AtRest
<1>5. Retiring.op # "halt"
  BY <1>1, <1>4 DEF ExecutionControl
<1>6. PICK d : d = Older(core.stages - 1)
  OBVIOUS
<1>7. /\ Retiring = pipe[core.stages].ins
      /\ d.arch.regs = RegistersWith(regs, Retiring, DatapathResult)
      /\ d.arch.preds = savedPreds /\ d.arch.spad = spad
      /\ d.arch.inq = (IF core.stages > core.fetch THEN inq ELSE Dequeued(inq, Retiring.icd))
      /\ d.arch.outq = Enqueued(outq, Retiring, DatapathResult)
      /\ d.cut = "miss"
  BY <1>5, <1>6, RetiringLeaves
<1>8. Drained = d
  <2>1. core.stages - 1 \in 0 .. 3
    BY <1>2
  <2> QED
    BY <1>6, <1>7, <2>1, OlderCut DEF CutRemains
<1>9. Drained' = Start'
  <2>1. BubblesDrain'
    <3>1. (DataInv => BubblesDrain)'
      BY DrainedBubbles, PTL
    <3> QED
      BY <3>1
  <2>2. \A s \in InFlightStages : pipe'[s].ins = Bubble
    BY <1>1, <1>2, PipelineAfter
  <2> QED
    BY <1>2, <2>1, <2>2 DEF BubblesDrain
<1>10. preds' = savedPreds
  BY <1>1, <1>3, <1>4, NoneBegins DEF Begins, Miss
<1>11. spad' = spad
  BY <1>1, NothingBehindMiss DEF StoredByPipe, Stored
<1>12. /\ InputsGrow(Dequeued(inq, InStage(core.fetch).icd), inq')
       /\ OutputsShrink(Enqueued(outq, Retiring, DatapathResult), outq')
  BY EdgeQueues
<1>13. InputsGrow(d.arch.inq, inq')
  <2>1. CASE core.stages > core.fetch
    <3>1. Dequeued(inq, {}) = inq
      BY DEF Dequeued, DataInv, TypeOK, UnitsTypeOK
    <3> QED
      BY <1>7, <1>12, <2>1, <3>1, NothingBehindMiss
  <2>2. CASE ~(core.stages > core.fetch)
    <3>1. core.fetch = core.stages /\ InStage(core.fetch) = Retiring
      BY <1>2, <1>7, <2>2 DEF InStage
    <3> QED
      BY <1>7, <1>12, <2>2, <3>1
  <2> QED
    BY <2>1, <2>2
<1>14. MachineArch = d.arch /\ MachineArch' = CurrentState' /\ MachineHalted' = MachineHalted
  BY <1>7, <1>8, <1>9 DEF MachineArch, MachineHalted, Start
<1>15. /\ CurrentState'.regs = regs' /\ CurrentState'.preds = preds' /\ CurrentState'.spad = spad'
       /\ CurrentState'.inq = inq' /\ CurrentState'.outq = outq'
  BY DEF CurrentState
<1> QED
  BY <1>1, <1>7, <1>10, <1>11, <1>12, <1>13, <1>14, <1>15, IdleStep

\* The edge at which a halt retires.
LEMMA HaltingEdge ==
    ASSUME ControlInv, DataInv, ~halted, halted', core.stages # 0,
           NEW arriving \in [InputChannels -> Arriving \cup {NoPacket}],
           NEW acknowledged \in SUBSET OutputChannels, Clock(arriving, acknowledged)
    PROVE  Machine!Next
<1>1. prog' = prog /\ Retiring.op = "halt"
  BY DEF Clock, ExecutionControl
<1>2. /\ core \in Cores /\ core.stages \in 1 .. 3 /\ core.fetch \in 0 .. 1
      /\ core.fetch <= core.stages /\ prog \in Programs /\ inq \in [InputChannels -> Queue]
  BY CoreShape DEF DataInv, TypeOK, UnitsTypeOK, ControlInv, PipelineShape
<1>3. PICK d : d = Older(core.stages - 1)
  OBVIOUS
<1>4. /\ Retiring = pipe[core.stages].ins
      /\ d.arch.inq = (IF core.stages > core.fetch THEN inq ELSE Dequeued(inq, Retiring.icd))
      /\ d.arch.outq = Enqueued(outq, Retiring, DatapathResult)
      /\ d.cut = "halt"
  BY <1>1, <1>3, RetiringLeaves
<1>5. Drained = d
  <2>1. core.stages - 1 \in 0 .. 3
    BY <1>2
  <2> QED
    BY <1>3, <1>4, <2>1, OlderCut DEF CutRemains
<1>6. /\ InputsGrow(Dequeued(inq, InStage(core.fetch).icd), inq')
      /\ OutputsShrink(Enqueued(outq, Retiring, DatapathResult), outq')
  BY EdgeQueues
<1>7. PICK icd \in SUBSET InputChannels : InputsGrow(Dequeued(d.arch.inq, icd), inq')
  <2>1. CASE core.stages > core.fetch
    <3>1. InFlight(InStage(core.fetch))
      BY <1>2, DequeuingStage, IssueFits DEF DataInv
    <3>2. InStage(core.fetch).icd \in SUBSET InputChannels
      BY <3>1, InFlightType DEF Instruction
    <3> QED
      BY <1>4, <1>6, <2>1, <3>2
  <2>2. CASE ~(core.stages > core.fetch)
    <3>1. core.fetch = core.stages /\ InStage(core.fetch) = Retiring
      BY <1>2, <1>4, <2>2 DEF InStage
    <3>2. Dequeued(d.arch.inq, {}) = d.arch.inq
      BY <1>2, <1>4, <2>2, DequeuedType DEF Dequeued
    <3> QED
      BY <1>4, <1>6, <2>2, <3>1, <3>2
  <2> QED
    BY <2>1, <2>2
<1>8. MachineArch = d.arch /\ MachineArch' = CurrentState' /\ MachineHalted /\ MachineHalted'
  BY <1>4, <1>5 DEF MachineArch, MachineHalted
<1>9. d.arch \in ArchState /\ CurrentState'.inq = inq' /\ CurrentState'.outq = outq'
  BY <1>5, DrainedType DEF CurrentState
<1> QED
  BY <1>1, <1>4, <1>6, <1>7, <1>8, <1>9, HaltStep

\* An edge after the halt.
LEMMA HaltedEdge ==
    ASSUME DataInv, halted,
           NEW arriving \in [InputChannels -> Arriving \cup {NoPacket}],
           NEW acknowledged \in SUBSET OutputChannels, Clock(arriving, acknowledged)
    PROVE  Machine!Next
<1>1. prog' = prog /\ halted'
  BY DEF Clock, ExecutionControl
<1>2. InputsGrow(inq, inq') /\ OutputsShrink(outq, outq')
  BY QueuesHalted
<1>3. CurrentState \in ArchState /\ inq \in [InputChannels -> Queue]
  BY DEF CurrentState, ArchState, DataInv, TypeOK, UnitsTypeOK
<1>4. /\ CurrentState.inq = inq /\ CurrentState.outq = outq
      /\ CurrentState'.inq = inq' /\ CurrentState'.outq = outq'
  BY DEF CurrentState
<1>5. Dequeued(inq, {}) = inq
  BY <1>3 DEF Dequeued
<1>6. MachineArch = CurrentState /\ MachineArch' = CurrentState' /\ MachineHalted /\ MachineHalted'
  BY <1>1 DEF MachineArch, MachineHalted
<1> QED
  BY <1>1, <1>2, <1>3, <1>4, <1>5, <1>6, HaltStep

\* The single-cycle core does in one edge what the machine does in one step.
LEMMA SingleCycleEdge ==
    ASSUME ControlInv, DataInv, DataInv', ~halted, core.stages = 0,
           NEW arriving \in [InputChannels -> Arriving \cup {NoPacket}],
           NEW acknowledged \in SUBSET OutputChannels, Clock(arriving, acknowledged)
    PROVE  Machine!Next
<1>1. /\ prog' = prog /\ core' = core /\ spad' = StoredByPipe
      /\ regs' = RegistersWith(regs, Retiring, DatapathResult)
      /\ PredicateUnit(HazardFree, Retiring, DatapathTrue) /\ ExecutionControl(Retiring)
      /\ outq' = [c \in OutputChannels |->
                    OutputChannelAfter(c, c \in EnqueueSignals, Outgoing, c \in acknowledged)]
  BY DEF Clock
<1>2. /\ core \in Cores /\ core.fetch = 0 /\ ~core.scratchpad /\ prog \in Programs
      /\ ~HasSpeculativePredicateUnit /\ ~speculating /\ InFlightStages = {}
      /\ UnitsTypeOK /\ RunsOn(prog, core)
  BY CoreShape, CoreConnections DEF DataInv, TypeOK, InFlightStages, ControlInv, PipelineShape
<1> DEFINE ins == Issued
           v == DatapathResult
           a == CurrentState
           b == CurrentState'
<1>3. /\ ins = HazardFree /\ ins = Retiring /\ InStage(core.fetch) = ins /\ InFlight(ins)
      /\ ~Miss /\ ~Override /\ ~Begins /\ ~Ends
      /\ ins = Bubble \/ ins = Triggering
  BY <1>2, Signals, IssueFits, IssuedFrom DEF Issued, Retiring, InStage
<1>4. Drained = Start /\ Drained' = Start'
  <2>1. OlderIsThen'
    BY OlderSteps, PTL
  <2> QED
    BY <1>1, <2>1, OlderSteps DEF OlderIsThen
<1>5. MachineArch = a /\ MachineArch' = b /\ ~MachineHalted /\ MachineHalted' = halted'
  <2>1. /\ Drained.arch = a /\ Drained.cut = "none"
        /\ (Drained.arch)' = b /\ (Drained.cut)' = "none"
    BY <1>4 DEF Start
  <2>2. halted' \in BOOLEAN
    BY DEF DataInv, TypeOK, UnitsTypeOK
  <2> HIDE DEF a, b
  <2>3. CurrentState = a /\ CurrentState' = b
    BY DEF a, b
  <2> QED
    BY <2>1, <2>2, <2>3 DEF MachineArch, MachineHalted
<1>6. /\ a.regs = regs /\ a.preds = preds /\ a.spad = spad /\ a.inq = inq /\ a.outq = outq
      /\ b.regs = regs' /\ b.preds = preds' /\ b.spad = spad' /\ b.inq = inq' /\ b.outq = outq'
      /\ a \in ArchState /\ b = State(b.regs, b.preds, b.spad, b.inq, b.outq)
  BY <1>2 DEF CurrentState, ArchState, State, UnitsTypeOK
<1>7. spad' = spad /\ regs' = RegistersWith(regs, ins, v)
  BY <1>1, <1>2, <1>3 DEF StoredByPipe
<1>8. /\ InputsGrow(Dequeued(inq, ins.icd), inq')
      /\ OutputsShrink(Enqueued(outq, ins, v), outq')
  BY <1>3, EdgeQueues
<1>9. internalEnable => preds' = NextPreds(ins, ins, v # 0)
  BY <1>1, <1>3, NoneBegins DEF Begins, Miss, Override, DatapathTrue
<1>10. CASE ins = Bubble
  <2>1. preds' = preds
    <3>1. CASE internalEnable
      <4>1. NextPreds(Bubble, Bubble, v # 0) = Masked(preds, Bubble)
        BY BubbleFields, MaskOnly
      <4>2. Masked(preds, Bubble) = preds
        BY BubbleFields DEF Masked
      <4> QED
        BY <1>9, <1>10, <3>1, <4>1, <4>2
    <3>2. CASE ~internalEnable
      BY <1>1, <3>2 DEF PredicateUnit, predicateUnit
    <3> QED
      BY <3>1, <3>2
  <2>2. /\ RegistersWith(regs, Bubble, v) = regs /\ Dequeued(inq, Bubble.icd) = inq
        /\ Enqueued(outq, Bubble, v) = outq
    BY <1>2, BubbleEffects DEF UnitsTypeOK
  <2>3. MachineHalted' = MachineHalted
    BY <1>1, <1>3, <1>5, <1>10, BubbleFields DEF ExecutionControl, MachineHalted
  <2> HIDE DEF a, b, v
  <2> QED
    BY <1>1, <1>5, <1>6, <1>7, <1>8, <1>10, <2>1, <2>2, <2>3, IdleStep
<1>11. CASE ins # Bubble
  <2>1. ins = Triggering /\ internalEnable /\ execute /\ ins.vi /\ WellFormed(ins)
    BY <1>3, <1>11, AtRest DEF InFlight
  <2>2. PICK n \in DOMAIN prog :
          /\ ins = prog[n]
          /\ Triggered(prog[n], preds, NoPackets(inq), NoRoom(outq), HeadTags(inq))
          /\ \A j \in DOMAIN prog :
                Triggered(prog[j], preds, NoPackets(inq), NoRoom(outq), HeadTags(inq)) /\ j < n
                => ~HasFullInformation /\ Waits(prog[j])
    <3>1. PipelineShape /\ Drained.cut = "none" /\ outq = Drained.arch.outq
      BY <1>4, <1>6 DEF ControlInv, Start
    <3>2. inq = (IF core.fetch = 0 THEN inq ELSE Dequeued(inq, pipe[1].ins.icd))
      BY <1>2
    <3>3. /\ NoPackets(inq) \subseteq UpdatedEmpty
          /\ NoRoom(outq) \subseteq UpdatedFull
          /\ HasFullInformation => UpdatedEmpty = NoPackets(inq) /\ UpdatedFull = NoRoom(outq)
          /\ \A c \in InputChannels \ UpdatedEmpty : ResolvedTags[c] = Head(inq[c]).tag
      BY <2>1, <3>1, <3>2, StatusShown
    <3>4. ins = TriggeredInstruction(UpdatedEmpty, UpdatedFull, ResolvedTags)
      BY <2>1 DEF Triggering
    <3> HIDE DEF ins
    <3> QED
      BY <1>2, <1>11, <3>3, <3>4, TriggerAgrees
  <2>3. ins.op \notin {"lsw", "ssw"}
    BY <1>2, <2>2 DEF RunsOn
  <2>4. v = Value(ins, regs, inq, spad)
    BY <1>2, <1>3, NoEarlyLoad DEF DatapathResult, RetiringOperands, Value
  <2>5. spad' = Stored(ins, Operands(ins, regs, inq), spad)
    BY <1>7, <2>3 DEF Stored
  <2>6. preds' = Masked(PredicatesWith(preds, ins, v), ins)
    <3>1. preds' = NextPreds(ins, ins, v # 0)
      BY <1>9, <2>1
    <3>2. ~EndSpeculation(ins)
      BY <1>2 DEF EndSpeculation
    <3> HIDE DEF ins, v
    <3>3. CASE WritesPredicate(ins)
      <4>1. ins.di \notin ins.set /\ ins.di \notin ins.unset
        BY <2>1, <3>3 DEF WellFormed
      <4> QED
        BY <3>1, <3>2, <3>3, <4>1 DEF NextPreds, PredicatesWith, Masked
    <3>4. CASE ~WritesPredicate(ins)
      BY <3>1, <3>4, MaskOnly DEF PredicatesWith
    <3> QED
      BY <3>3, <3>4
  <2>7. PICK o2 : OutputsShrink(outq, o2) /\ outq' = Enqueued(o2, ins, v)
    <3>1. EnqueueSignals = ins.oci
      BY <1>3, <2>1 DEF EnqueueSignals
    <3>2. \A c \in ins.oci : Len(outq[c]) < ChannelDepth
      BY <1>2, <3>1, ChannelsRespectedFrom DEF ChannelsRespected
    <3>3. Outgoing = [tag |-> ins.oct, data |-> v]
      BY <1>3 DEF Outgoing
    <3> DEFINE o2 == [c \in OutputChannels |->
                        IF c \in acknowledged /\ outq[c] # << >> THEN Tail(outq[c])
                                                             ELSE outq[c]]
    <3>4. OutputsShrink(outq, o2)
      BY DEF OutputsShrink, Shrinks
    <3>5. \A c \in OutputChannels : c \in EnqueueSignals => Len(outq[c]) # ChannelDepth
      BY <1>2, <3>1, <3>2, SizesAssumption DEF UnitsTypeOK, Queue
    <3>6. outq' = [c \in OutputChannels |->
                     IF c \in EnqueueSignals THEN Append(o2[c], Outgoing) ELSE o2[c]]
      BY <1>1, <3>5 DEF OutputChannelAfter
    <3> HIDE DEF ins, v, o2
    <3>7. outq' = Enqueued(o2, ins, v)
      BY <3>1, <3>3, <3>6 DEF Enqueued
    <3> QED
      BY <3>4, <3>7
  <2>8. MachineHalted' = (prog[n].op = "halt")
    BY <1>1, <1>3, <1>5, <2>1, <2>2 DEF ExecutionControl
  <2> HIDE DEF a, b, v, ins
  <2>9. /\ b.regs = RegistersWith(a.regs, ins, v)
        /\ b.preds = Masked(PredicatesWith(a.preds, ins, v), ins)
        /\ b.spad = Stored(ins, Operands(ins, a.regs, a.inq), a.spad)
        /\ b.outq = Enqueued(o2, ins, v)
        /\ OutputsShrink(a.outq, o2) /\ InputsGrow(Dequeued(a.inq, ins.icd), b.inq)
        /\ v = Value(ins, a.regs, a.inq, a.spad)
    BY <1>6, <1>7, <1>8, <2>4, <2>5, <2>6, <2>7
  <2>10. /\ Triggered(ins, a.preds, NoPackets(a.inq), NoRoom(a.outq), HeadTags(a.inq))
         /\ \A j \in DOMAIN prog :
              Triggered(prog[j], a.preds, NoPackets(a.inq), NoRoom(a.outq), HeadTags(a.inq)) /\ j < n
                => ~HasFullInformation /\ Waits(prog[j])
    BY <1>6, <2>2
  <2> QED
    BY <1>1, <1>5, <1>6, <2>1, <2>2, <2>8, <2>9, <2>10, FireStep
<1> QED
  BY <1>10, <1>11

\* An edge, whatever it retires.
LEMMA EdgeSteps ==
    ASSUME ControlInv, ControlInv', DataInv, DataInv', PathInv, AvoidThirdOperand, Edge
    PROVE  Machine!Next
<1>1. PICK arriving \in [InputChannels -> Arriving \cup {NoPacket}],
           acknowledged \in SUBSET OutputChannels : Clock(arriving, acknowledged)
  BY DEF Edge
<1>2. CASE halted
  BY <1>1, <1>2, HaltedEdge
<1>3. CASE ~halted /\ core.stages = 0
  BY <1>1, <1>3, SingleCycleEdge
<1>4. CASE ~halted /\ core.stages # 0 /\ halted'
  BY <1>1, <1>4, HaltingEdge
<1>5. CASE ~halted /\ core.stages # 0 /\ ~halted' /\ Miss
  BY <1>1, <1>5, MissEdge
<1>6. CASE ~halted /\ core.stages # 0 /\ ~halted' /\ ~Miss
  BY <1>1, <1>6, RunningEdge
<1> QED
  BY <1>2, <1>3, <1>4, <1>5, <1>6

\* What the drained state is made of does not change when the host starts the core.
LEMMA MachineStutters ==
    ASSUME BeginExecution \/ UNCHANGED vars
    PROVE  UNCHANGED << prog, MachineArch, MachineHalted >>
<1>1. /\ prog' = prog /\ halted' = halted /\ regs' = regs /\ spad' = spad /\ inq' = inq
      /\ outq' = outq /\ preds' = preds /\ speculating' = speculating
      /\ savedPrediction' = savedPrediction /\ savedPreds' = savedPreds
      /\ core' = core /\ pipe' = pipe
  BY DEF BeginExecution, vars, control, predicateUnit
<1>2. CurrentState' = CurrentState
  BY <1>1 DEF CurrentState
<1>3. Start' = Start
  BY <1>2 DEF Start
<1>4. ASSUME NEW s, NEW d PROVE Finished(s, d)' = Finished(s, d)
  BY <1>1 DEF Finished, Registered
<1>5. ASSUME NEW s, NEW d PROVE Then(s, d)' = Then(s, d)
  BY <1>1, <1>4 DEF Then
<1>6. ASSUME NEW s \in 1 .. 3, Older(s)' = Older(s) PROVE Older(s - 1)' = Older(s - 1)
  <2>1. PICK d : d = Older(s)
    OBVIOUS
  <2>2. Older(s - 1) = Then(s, d)
    BY <2>1, OlderSteps DEF OlderIsThen, Then
  <2>3. OlderIsThen'
    BY OlderSteps, PTL
  <2>4. d = Older(s)'
    BY <1>6, <2>1
  <2>5. Older(s - 1)' = Then(s, d)'
    BY <2>3, <2>4 DEF OlderIsThen, Then
  <2> QED
    BY <1>5, <2>2, <2>5
<1>7. Older(3)' = Older(3) /\ Drained = Older(0) /\ Drained' = Older(0)'
  <2>1. OlderIsThen'
    BY OlderSteps, PTL
  <2> QED
    BY <1>3, <2>1, OlderSteps DEF OlderIsThen
<1>8. Older(2)' = Older(2)
  <2>1. Older(3 - 1)' = Older(3 - 1)
    BY <1>6, <1>7
  <2> QED
    BY <2>1
<1>9. Older(1)' = Older(1)
  <2>1. Older(2 - 1)' = Older(2 - 1)
    BY <1>6, <1>8
  <2> QED
    BY <2>1
<1>10. Older(0)' = Older(0)
  <2>1. Older(1 - 1)' = Older(1 - 1)
    BY <1>6, <1>9
  <2> QED
    BY <2>1
<1>11. Drained' = Drained
  BY <1>7, <1>10
<1> QED
  BY <1>1, <1>2, <1>11 DEF MachineArch, MachineHalted

LEMMA MachineInit == Init => Machine!Init
<1> SUFFICES ASSUME Init PROVE Machine!Init
  OBVIOUS
<1>1. /\ preds = {} /\ inq = [c \in InputChannels |-> << >>]
      /\ outq = [c \in OutputChannels |-> << >>] /\ ~halted
  BY DEF Init, InitUnits
<1>2. Drained = Start
  <2>1. \A s \in InFlightStages : pipe[s].ins = Bubble
    BY EmptyEntryFields DEF Init
  <2> QED
    BY <2>1, DataInvInit, DrainedBubbles DEF BubblesDrain
<1> QED
  BY <1>1, <1>2 DEF Start, CurrentState, Machine!Init

LEMMA MachineSteps ==
    ASSUME ControlInv, ControlInv', DataInv, DataInv', PathInv, AvoidThirdOperand, [Next]_vars
    PROVE  [Machine!Next]_(Machine!vars)
<1>1. CASE Edge
  BY <1>1, EdgeSteps
<1>2. CASE BeginExecution \/ UNCHANGED vars
  BY <1>2, MachineStutters DEF Machine!vars, MachineArch, MachineHalted
<1> QED
  BY <1>1, <1>2 DEF Next

\* For each of the cores, for every program that leaves an undriven third operand
\* alone, for every width, depth and number of channels, and for all four settings
\* of the knobs, the core does nothing the sequential machine would not do.
THEOREM CoresImplementMachine == AvoidThirdOperand /\ Spec => ImplementsMachine
<1>1. Init => ControlInv /\ DataInv /\ PathInv /\ Machine!Init
  BY ControlInvInit, DataInvInit, PathInvInit, MachineInit
<1>2. ControlInv /\ DataInv /\ PathInv /\ [Next]_vars => ControlInv' /\ DataInv' /\ PathInv'
  BY ControlInvKept, DataInvKept, PathInvKept
<1>3. AvoidThirdOperand /\ ControlInv /\ DataInv /\ PathInv /\ ControlInv' /\ DataInv'
         /\ [Next]_vars => [Machine!Next]_(Machine!vars)
  BY MachineSteps
<1> QED
  <2>1. SUFFICES ASSUME AvoidThirdOperand PROVE Spec => ImplementsMachine
    OBVIOUS
  <2>2. ControlInv /\ DataInv /\ PathInv /\ ControlInv' /\ DataInv' /\ [Next]_vars
           => [Machine!Next]_(Machine!vars)
    BY <1>3, <2>1
  <2> QED
    BY <1>1, <1>2, <2>2, PTL DEF Spec, ImplementsMachine, Machine!Spec
=============================================================================
