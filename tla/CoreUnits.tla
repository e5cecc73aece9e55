------------------------------ MODULE CoreUnits ------------------------------
(***************************************************************************)
(* The units every core of a processing element is built from: execution   *)
(* control, trigger resolution, the predicate unit with and without        *)
(* speculation, and the channel buffers at a clock edge.  A core connects  *)
(* them to its pipeline registers: h stands for the instruction that left  *)
(* the trigger stage free of hazards, r for the instruction that retires,  *)
(* v for whether its result is other than 0.                               *)
(***************************************************************************)
EXTENDS TiaIsa

CONSTANTS
    Programs,   \* the instruction memories considered, sequences of instructions
    NoPacket,   \* nothing arrives on a channel at this edge
    Arriving,   \* the packets other elements send, a subset of Packet
    HasSpeculativePredicateUnit,  \* TIA_HAS_SPECULATIVE_PREDICATE_UNIT
    HasFullInformation            \* TIA_HAS_FULL_INFORMATION_CHANNEL_STATUS_UPDATING

ASSUME KnobsAssumption ==
    /\ HasSpeculativePredicateUnit \in BOOLEAN
    /\ HasFullInformation \in BOOLEAN

ASSUME ProgramsAssumption ==
    \A p \in Programs : p \in Seq(Instruction) /\ \A i \in 1 .. Len(p) : WellFormed(p[i])

ASSUME PacketsAssumption == Arriving \subseteq Packet /\ NoPacket \notin Packet

VARIABLES
    prog,             \* instruction memory, written by the host before execution
    execute,          \* the host's execute signal
    internalEnable,   \* execution_control_unit.internal_enable
    halted,           \* execution_control_unit.halted
    regs,             \* register_file
    spad,             \* scratchpad_memory
    inq,              \* input_channel_buffers
    outq,             \* output_channel_buffers
    preds,            \* predicates of the predicate unit in use
    predictor,        \* state of the two-bit predictor of each predicate
    speculating,      \* a predicted predicate has not been resolved
    savedPrediction,  \* the value predicted
    savedPreds        \* the predicates to restore on a miss

control   == << execute, internalEnable, halted >>
predicateUnit == << preds, predictor, speculating, savedPrediction, savedPreds >>

InitUnits ==
    /\ prog \in Programs
    /\ execute = FALSE /\ internalEnable = FALSE /\ halted = FALSE
    /\ regs = [reg \in Registers |-> 0]
    /\ spad = [a \in 0 .. ScratchpadDepth - 1 |-> 0]
    /\ inq = [c \in InputChannels |-> << >>]
    /\ outq = [c \in OutputChannels |-> << >>]
    /\ preds = {} /\ predictor = [p \in Predicates |-> "WEAKLY_0"]
    /\ speculating = FALSE /\ savedPrediction = FALSE /\ savedPreds = {}

-----------------------------------------------------------------------------
(* Trigger resolution.                                                     *)

\* Channels whose status, without regard to instructions in flight, forbids a
\* trigger.
EmptyChannels == {c \in InputChannels : inq[c] = << >>}
FullChannels  == {c \in OutputChannels : Len(outq[c]) = ChannelDepth}

\* Input channels taken to be empty behind an instruction that dequeues icd.
EmptyBehind(icd) ==
    IF HasFullInformation
    THEN {c \in InputChannels : Len(inq[c]) <= (IF c \in icd THEN 1 ELSE 0)}
    ELSE EmptyChannels \cup icd

\* Mutant of TagsBehind: the tag of a packet about to be dequeued.
TagsInFront(empty, dequeues) == [c \in InputChannels \ empty |-> inq[c][1].tag]

\* Behind a pending dequeue the tag of the second packet counts.
TagsBehind(empty, dequeues) ==
    [c \in InputChannels \ empty |-> inq[c][IF c \in dequeues THEN 2 ELSE 1].tag]

TriggeredIndices(empty, full, tag) ==
    {i \in DOMAIN prog : Triggered(prog[i], preds, empty, full, tag)}

\* The instruction the trigger stage takes from the instruction memory.
TriggeredInstruction(empty, full, tag) ==
    IF internalEnable /\ execute /\ ~halted /\ TriggeredIndices(empty, full, tag) # {}
    THEN prog[Lowest(TriggeredIndices(empty, full, tag))] ELSE Bubble

-----------------------------------------------------------------------------
(* Predicate unit, with and without speculation.                           *)

EndSpeculation(r)    == speculating /\ WritesPredicate(r)
PredictionHit(r, v)  == EndSpeculation(r) /\ savedPrediction = v
PredictionMiss(r, v) == EndSpeculation(r) /\ savedPrediction # v

\* Mutants of TriggerOverride: a second prediction, or a store, may issue.
OverrideLetsWriters(h, r, v) ==
    /\ speculating
    /\ h.op = "ssw" \/ (h.icd # {} /\ ~PredictionHit(r, v))
OverrideLetsStores(h, r, v) ==
    /\ speculating
    /\ WritesPredicate(h) \/ h.icd # {}
    /\ ~PredictionHit(r, v)

\* While speculating, no second prediction, no store and no dequeue may issue.
TriggerOverride(h, r, v) ==
    /\ speculating
    /\ \/ WritesPredicate(h) /\ ~PredictionHit(r, v)
       \/ h.op = "ssw"
       \/ h.icd # {} /\ ~PredictionHit(r, v)

BeginSpeculation(h, r, v) ==
    /\ HasSpeculativePredicateUnit
    /\ ~speculating \/ PredictionHit(r, v)
    /\ WritesPredicate(h)
    /\ ~TriggerOverride(h, r, v)

PredictorStates == {"STRONGLY_1", "WEAKLY_1", "WEAKLY_0", "STRONGLY_0"}

Prediction(h) == predictor[h.di] \in {"STRONGLY_1", "WEAKLY_1"}

NextPrediction(state, observed) ==
    CASE state = "STRONGLY_1" -> IF observed THEN "STRONGLY_1" ELSE "WEAKLY_1"
      [] state = "WEAKLY_1"   -> IF observed THEN "STRONGLY_1" ELSE "WEAKLY_0"
      [] state = "WEAKLY_0"   -> IF observed THEN "WEAKLY_1" ELSE "STRONGLY_0"
      [] state = "STRONGLY_0" -> IF observed THEN "WEAKLY_0" ELSE "STRONGLY_0"

\* The instruction masks combined with the result of the retiring writer.  At
\* the end of a speculation the result is in the predicates already.
NextPreds(h, r, v) ==
    LET result == IF EndSpeculation(r) THEN {} ELSE {r.di}
        set    == IF WritesPredicate(r) /\ v THEN result ELSE {}
        unset  == IF WritesPredicate(r) /\ ~v THEN result ELSE {}
    IN  (preds \cup h.set \cup set) \ (h.unset \cup unset)

WithPrediction(value, h, r, v) ==
    IF value THEN NextPreds(h, r, v) \cup {h.di} ELSE NextPreds(h, r, v) \ {h.di}

\* Mutant of StillSpeculating: the end of a speculation is not recorded.
NeverEndingSpeculation(r) == speculating

StillSpeculating(r) == speculating /\ ~EndSpeculation(r)

\* The predicate unit at a clock edge.
PredicateUnit(h, r, v) ==
    LET begins == BeginSpeculation(h, r, v)
    IN  IF ~internalEnable
        THEN UNCHANGED predicateUnit
        ELSE /\ predictor' =
                  IF HasSpeculativePredicateUnit /\ WritesPredicate(r)
                  THEN [predictor EXCEPT ![r.di] = NextPrediction(@, v)]
                  ELSE predictor
             /\ speculating' = (begins \/ StillSpeculating(r))
             /\ savedPrediction' = IF begins THEN Prediction(h) ELSE savedPrediction
             /\ savedPreds' =
                  IF begins THEN WithPrediction(~Prediction(h), h, r, v) ELSE savedPreds
             /\ preds' =
                  IF begins THEN WithPrediction(Prediction(h), h, r, v)
                  ELSE IF PredictionMiss(r, v) THEN savedPreds
                  ELSE IF TriggerOverride(h, r, v) THEN preds
                  ELSE NextPreds(h, r, v)

-----------------------------------------------------------------------------
(* Channels and execution control at a clock edge.                         *)

\* Mutant of InputChannelAfter: packets are accepted when the buffer is full.
InputAcceptsWhenFull(c, dequeue, arriving) ==
    LET rest == IF dequeue /\ inq[c] # << >> THEN Tail(inq[c]) ELSE inq[c]
    IN  IF arriving # NoPacket THEN Append(rest, arriving) ELSE rest

\* An input channel buffer: the link acknowledges unless the buffer is full; a
\* dequeue from an empty buffer also drops the packet that arrives with it.
InputChannelAfter(c, dequeue, arriving) ==
    LET accepted == arriving # NoPacket /\ Len(inq[c]) # ChannelDepth
    IN  IF dequeue /\ inq[c] = << >> THEN << >>
        ELSE LET rest == IF dequeue THEN Tail(inq[c]) ELSE inq[c]
             IN  IF accepted THEN Append(rest, arriving) ELSE rest

\* An output channel buffer: an enqueue to a full buffer is dropped, and holds
\* the head even if the link takes it.
OutputChannelAfter(c, enqueue, packet, acknowledged) ==
    IF enqueue /\ Len(outq[c]) = ChannelDepth THEN outq[c]
    ELSE LET rest == IF acknowledged /\ outq[c] # << >> THEN Tail(outq[c]) ELSE outq[c]
         IN  IF enqueue THEN Append(rest, packet) ELSE rest

ExecutionControl(r) ==
    /\ internalEnable' = (execute /\ ~halted)
    /\ halted' = (halted \/ (execute /\ r.op = "halt"))

-----------------------------------------------------------------------------
\* The types of the units' registers.
UnitsTypeOK ==
    /\ prog \in Seq(Instruction)
    /\ execute \in BOOLEAN /\ internalEnable \in BOOLEAN /\ halted \in BOOLEAN
    /\ regs \in [Registers -> Word]
    /\ spad \in [0 .. ScratchpadDepth - 1 -> Word]
    /\ inq \in [InputChannels -> Queue] /\ outq \in [OutputChannels -> Queue]
    /\ \A c \in InputChannels : Len(inq[c]) <= ChannelDepth
    /\ \A c \in OutputChannels : Len(outq[c]) <= ChannelDepth
    /\ preds \in SUBSET Predicates
    /\ predictor \in [Predicates -> PredictorStates]
    /\ speculating \in BOOLEAN /\ savedPrediction \in BOOLEAN
    /\ savedPreds \in SUBSET Predicates
=============================================================================
