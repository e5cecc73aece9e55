---------------------------- MODULE IntegerCore ----------------------------
(***************************************************************************)
(* The default core of a processing element (integer_core.sv): an in-order *)
(* pipeline of three stages.                                               *)
(*                                                                         *)
(*   T    trigger resolution, and the predicate update mask takes effect   *)
(*   DX1  operand fetch, dequeue, single-cycle execution and retirement    *)
(*   X2   second half of multiplier and scratchpad operations, retirement  *)
(*                                                                         *)
(* One Clock step is one positive clock edge of the whole core: what the   *)
(* combinational logic computes from the registers, and every register     *)
(* update at the edge.  The two knobs of the core's design space are       *)
(* constants: predicate speculation, and exact channel status.             *)
(***************************************************************************)
EXTENDS CoreUnits

VARIABLES
    dx1,              \* instruction in the T|DX1 pipeline register
    x2,               \* instruction in the DX1|X2 pipeline register
    x2Result          \* what the second stage of its functional unit yields

pipeline  == << dx1, x2, x2Result >>
vars == << prog, control, regs, spad, inq, outq, predicateUnit, pipeline >>

-----------------------------------------------------------------------------
(* Retirement and operand forwarding.                                      *)

\* Results come from X2 first: a two-cycle instruction there retires.  In DX1 a
\* single-cycle instruction (or a bubble) retires at once.
X2Retires == TwoCycle(x2)

Retiring ==
    IF X2Retires THEN x2
    ELSE IF ~TwoCycle(dx1) THEN dx1
    ELSE Bubble

\* Mutant of ForwardedRegs: a two-cycle instruction misses the result of the
\* two-cycle instruction just ahead of it.
NotForwardedRegs == regs

\* Registers as the operands of DX1 see them: a two-cycle instruction takes the
\* result that is leaving X2 in this very cycle.
ForwardedRegs ==
    IF TwoCycle(dx1) /\ X2Retires THEN RegistersWith(regs, x2, x2Result) ELSE regs

Dx1Operands == Operands(dx1, ForwardedRegs, inq)
Dx1Result   == Result(dx1.op, Dx1Operands, spad)

DatapathResult == IF X2Retires THEN x2Result ELSE Dx1Result

DatapathTrue == DatapathResult # 0

-----------------------------------------------------------------------------
(* Channel status and trigger resolution.                                  *)

DequeueSignals == IF execute /\ ~halted /\ dx1.vi THEN dx1.icd ELSE {}

UpdatedEmpty == EmptyBehind(dx1.icd)

\* Mutants of UpdatedFull: the instruction in X2 is forgotten; one slot is wasted.
FullForgettingX2 ==
    IF HasFullInformation
    THEN {c \in OutputChannels :
            Len(outq[c]) + (IF c \in dx1.oci THEN 1 ELSE 0) >= ChannelDepth}
    ELSE FullChannels \cup dx1.oci
FullOneEarly ==
    {c \in OutputChannels : Len(outq[c]) + 1 >= ChannelDepth} \cup dx1.oci \cup x2.oci

\* Output channels the trigger stage takes to be full, counting the packets of
\* the instructions in DX1 and X2.
UpdatedFull ==
    IF HasFullInformation
    THEN {c \in OutputChannels :
            Len(outq[c]) + (IF c \in dx1.oci THEN 1 ELSE 0)
                         + (IF c \in x2.oci THEN 1 ELSE 0) >= ChannelDepth}
    ELSE FullChannels \cup dx1.oci \cup x2.oci

ResolvedTags == TagsBehind(UpdatedEmpty, DequeueSignals)

Triggering == TriggeredInstruction(UpdatedEmpty, UpdatedFull, ResolvedTags)

\* Mutant of Collision: two instructions may retire in the same cycle.
NoCollision == FALSE

\* A single-cycle instruction may not be issued behind a two-cycle one: both
\* would retire in the same cycle.
Collision == ~TwoCycle(Triggering) /\ TwoCycle(dx1)

\* Mutant of ControlHazard: the writer in X2 is not seen.
HazardForgettingX2 == ~HasSpeculativePredicateUnit /\ WritesPredicate(dx1)

\* Without speculation a predicate write in flight stops the trigger stage.
ControlHazard ==
    ~HasSpeculativePredicateUnit /\ (WritesPredicate(dx1) \/ WritesPredicate(x2))

HazardFree == IF Collision \/ ControlHazard THEN Bubble ELSE Triggering

\* What the predicate unit makes of the instruction at either end.
Override == TriggerOverride(HazardFree, Retiring, DatapathTrue)
Miss     == PredictionMiss(Retiring, DatapathTrue)

Issued == IF Override THEN Bubble ELSE HazardFree

-----------------------------------------------------------------------------
(* The clock edge.                                                         *)

EnqueueSignals == IF execute /\ ~halted /\ Retiring.vi THEN Retiring.oci ELSE {}

Outgoing == [tag |-> Retiring.oct, data |-> DatapathResult]

PipelineRegisters ==
    /\ dx1' = IF Miss THEN Bubble ELSE Issued
    /\ x2' = IF ~Miss /\ TwoCycle(dx1) THEN dx1 ELSE Bubble
    /\ x2Result' = IF ~Miss /\ TwoCycle(dx1) THEN Dx1Result ELSE 0

Init == InitUnits /\ dx1 = Bubble /\ x2 = Bubble /\ x2Result = 0

\* One positive edge of the clock while packets arrive and others are taken.
Clock(arriving, acknowledged) ==
    /\ ExecutionControl(Retiring)
    /\ PredicateUnit(HazardFree, Retiring, DatapathTrue)
    /\ PipelineRegisters
    /\ regs' = RegistersWith(regs, Retiring, DatapathResult)
    /\ spad' = Stored(dx1, Dx1Operands, spad)
    /\ inq' = [c \in InputChannels |->
                 InputChannelAfter(c, c \in DequeueSignals, arriving[c])]
    /\ outq' = [c \in OutputChannels |->
                  OutputChannelAfter(c, c \in EnqueueSignals, Outgoing, c \in acknowledged)]
    /\ UNCHANGED << prog, execute >>

Edge == \E arriving \in [InputChannels -> Arriving \cup {NoPacket}],
           acknowledged \in SUBSET OutputChannels : Clock(arriving, acknowledged)

\* The host sets the execute bit (begin_execution in system_control.c).
BeginExecution ==
    /\ ~execute
    /\ execute' = TRUE
    /\ UNCHANGED << prog, internalEnable, halted, regs, spad, inq, outq,
                    predicateUnit, pipeline >>

Next == Edge \/ BeginExecution

Spec == Init /\ [][Next]_vars

\* The clock keeps ticking as long as a tick changes something in the core, and
\* the host starts the execution.  The queues are left out of the subscript so
\* that fairness never makes a packet arrive or a neighbour take one.
core == << control, regs, spad, predicateUnit, pipeline >>

FairSpec == Spec /\ WF_core(Edge) /\ WF_vars(BeginExecution)

-----------------------------------------------------------------------------
(* What the architectural state will be when the instructions in flight    *)
(* that are on the right path have retired.                                *)

\* The instruction in DX1 was issued under a prediction that X2 now refutes.
WrongPath == speculating /\ WritesPredicate(x2) /\ (x2Result # 0) # savedPrediction

\* The value the writer in flight gives its predicate.
WriterValue == IF WritesPredicate(x2) THEN x2Result # 0 ELSE Dx1Result # 0

CurrentState ==
    [regs |-> regs, preds |-> preds, spad |-> spad, inq |-> inq, outq |-> outq]

Drained ==
    LET afterX2 == WriteBack(x2, x2Result, CurrentState)
    IN  IF WrongPath THEN afterX2 ELSE Perform(dx1, afterX2)

\* The masks of the instructions in flight are in preds already, and so is the
\* writer's value when it was predicted right.  After a halt nothing counts.
Flushed ==
    IF halted THEN CurrentState
    ELSE [Drained EXCEPT !.preds = IF ~speculating THEN @
                                   ELSE IF WriterValue = savedPrediction THEN preds
                                   ELSE savedPreds]

Machine == INSTANCE TiaMachine
    WITH arch <- Flushed,
         halted <- (halted \/ (dx1.op = "halt" /\ ~WrongPath)),
         StrictPriority <- HasFullInformation,
         HaltedDequeues <- FALSE

-----------------------------------------------------------------------------
\* Type invariant.
TypeOK ==
    /\ UnitsTypeOK
    /\ dx1 \in Instruction /\ x2 \in Instruction /\ x2Result \in Word

\* A prediction is open exactly while the instruction whose predicate was
\* predicted is in flight, and there is at most one such instruction
\* (speculative_predicate_unit.sv: no nested speculation).  A lost resolution
\* would leave the core overriding triggers for ever.
SpeculationTracksWriter ==
    ~halted =>
        /\ ~(WritesPredicate(dx1) /\ WritesPredicate(x2))
        /\ HasSpeculativePredicateUnit =>
               speculating = (WritesPredicate(dx1) \/ WritesPredicate(x2))

\* An instruction that may have to be annulled has consumed no packet and
\* changed no scratchpad word by the time the prediction is resolved.
SpeculationIsReversible ==
    ~halted /\ speculating /\ WritesPredicate(x2) =>
        dx1.icd = {} /\ dx1.op # "ssw" /\ ~WritesPredicate(dx1)

\* In-order retirement, one instruction a cycle: when an instruction retires
\* from X2, no valid single-cycle instruction stands in DX1 to be dropped.
SingleRetirement == TwoCycle(x2) => TwoCycle(dx1) \/ ~dx1.vi

\* The channel status updaters do their work: the core never dequeues an empty
\* channel (the packet arriving with it would be lost) and never enqueues to a
\* full one (the head would be delivered twice), although the instruction saw
\* the status one or two cycles before it acts on the channel.
ChannelsRespected ==
    /\ \A c \in DequeueSignals : inq[c] # << >>
    /\ \A c \in EnqueueSignals : Len(outq[c]) < ChannelDepth

\* The pipelined core implements the sequential machine: prediction, annulment,
\* forwarding, tag lookahead and status updating are invisible to the program.
ImplementsMachine == Machine!Spec

\* As long as some instruction is triggered on the right path, an instruction
\* eventually retires: the core cannot starve the program by predicting,
\* annulling and overriding for ever.
Ready == execute /\ ~halted /\ dx1.op # "halt" /\ Machine!Eligible # {}
ReadyIsServed == Ready ~> (Retiring.vi \/ halted)
=============================================================================
