------------------------------ MODULE MicroCore ------------------------------
(***************************************************************************)
(* The other eight cores a processing element can be built with            *)
(* (knob_parameters.svh, "Pipelines from MICRO"): the stages trigger (T),  *)
(* decode (D), execute (X, or X1 and X2) with a pipeline register between  *)
(* some of them.  An underscore in the name of a core is such a register.  *)
(*                                                                         *)
(* The cores share their units (CoreUnits) and differ in where these are   *)
(* connected: a core is a record that says so.  Unlike in the integer core *)
(* every instruction takes the same number of cycles, so that instructions *)
(* retire in the last stage only.                                          *)
(***************************************************************************)
EXTENDS CoreUnits

CONSTANTS
    Cores,          \* the cores considered, a set of the records below
    AvoidThirdOperand
        \* TRUE: programs use no third operand on cores that leave it undriven.

VARIABLES
    core,           \* the core the processing element is built with
    pipe            \* the pipeline registers, youngest instruction first

vars == << core, prog, control, regs, spad, inq, outq, predicateUnit, pipe >>

-----------------------------------------------------------------------------
(* The cores.  Operands are fetched and packets dequeued in stage fetch,   *)
(* where stage 0 is the trigger stage, and results retire in stage stages, *)
(* from where they may be forwarded to the operand fetch.  A functional    *)
(* unit of two stages has a result register of its own.  Cores that        *)
(* fetch and retire in the same stage instantiate a stall unit for         *)
(* scratchpad loads that the repository does not contain; t_d_x1_x2        *)
(* connects a scratchpad port that does not exist; t_dx1_x2 and t_d_x1_x2  *)
(* leave the third operand of the functional unit undriven.                *)

tdx == [stages |-> 0, fetch |-> 0, forwarding |-> FALSE, dataHazards |-> FALSE,
        twoStages |-> FALSE, scratchpad |-> FALSE, thirdOperand |-> TRUE]

td_x == [stages |-> 1, fetch |-> 0, forwarding |-> TRUE, dataHazards |-> FALSE,
         twoStages |-> FALSE, scratchpad |-> TRUE, thirdOperand |-> TRUE]

\* As td_x, but the result is registered and not the operands.
tdx1_x2 == [td_x EXCEPT !.twoStages = TRUE]

td_x1_x2 == [stages |-> 2, fetch |-> 0, forwarding |-> TRUE, dataHazards |-> TRUE,
             twoStages |-> TRUE, scratchpad |-> TRUE, thirdOperand |-> TRUE]

t_dx == [stages |-> 1, fetch |-> 1, forwarding |-> FALSE, dataHazards |-> FALSE,
         twoStages |-> FALSE, scratchpad |-> FALSE, thirdOperand |-> TRUE]

t_d_x == [stages |-> 2, fetch |-> 1, forwarding |-> TRUE, dataHazards |-> FALSE,
          twoStages |-> FALSE, scratchpad |-> TRUE, thirdOperand |-> TRUE]

t_dx1_x2 == [stages |-> 2, fetch |-> 1, forwarding |-> TRUE, dataHazards |-> FALSE,
             twoStages |-> TRUE, scratchpad |-> TRUE, thirdOperand |-> FALSE]

t_d_x1_x2 == [stages |-> 3, fetch |-> 1, forwarding |-> TRUE, dataHazards |-> TRUE,
              twoStages |-> TRUE, scratchpad |-> FALSE, thirdOperand |-> FALSE]

AllCores == {tdx, td_x, tdx1_x2, td_x1_x2, t_dx, t_d_x, t_dx1_x2, t_d_x1_x2}

\* tdx resolves a predicate in the cycle it triggers the write: there is nothing
\* to predict, and it has the plain predicate unit whatever the knob says.
ASSUME CoresAssumption ==
    Cores \subseteq AllCores /\ (HasSpeculativePredicateUnit => tdx \notin Cores)

\* The programs that can be built for and run on a core.
RunsOn(p, k) ==
    \A i \in DOMAIN p : /\ p[i].op \in {"lsw", "ssw"} => k.scratchpad
                        /\ p[i].op = "mac" => k.thirdOperand \/ ~AvoidThirdOperand

-----------------------------------------------------------------------------
(* Pipeline registers: the instruction, the operands once fetched, and in  *)
(* front of the last stage the output register of the scratchpad or of a   *)
(* functional unit of two stages.                                          *)

NoOperands == [k \in 1 .. 3 |-> 0]

Entry == [ins : Instruction, x : [1 .. 3 -> Word], result : Word]

EmptyEntry == [ins |-> Bubble, x |-> NoOperands, result |-> 0]

\* The stages behind the trigger stage.
InFlightStages == 1 .. core.stages

-----------------------------------------------------------------------------
(* Channel status and trigger resolution.                                  *)

\* In cores that dequeue in the trigger stage the status is up to date.
UpdatedEmpty == EmptyBehind(IF core.fetch = 0 THEN {} ELSE pipe[1].ins.icd)

\* Mutant of Sends: the instruction that is about to retire is forgotten.
SendsLater(s, c) == s \in InFlightStages /\ s # core.stages /\ c \in pipe[s].ins.oci

\* Whether the instruction in stage s has a packet for the channel.
Sends(s, c) == s \in InFlightStages /\ c \in pipe[s].ins.oci

\* The number of packets on their way to the channel.
Outstanding(c) ==
    (IF Sends(1, c) THEN 1 ELSE 0) + (IF Sends(2, c) THEN 1 ELSE 0)
        + (IF Sends(3, c) THEN 1 ELSE 0)

\* Mutant of UpdatedFull: one slot is wasted.
FullOneEarly ==
    {c \in OutputChannels : Len(outq[c]) + Outstanding(c) + 1 >= ChannelDepth}

\* Output channels the trigger stage takes to be full.
UpdatedFull ==
    IF HasFullInformation
    THEN {c \in OutputChannels : Len(outq[c]) + Outstanding(c) >= ChannelDepth}
    ELSE FullChannels \cup {c \in OutputChannels : Outstanding(c) > 0}

ResolvedTags ==
    TagsBehind(UpdatedEmpty,
               IF core.fetch = 1 /\ execute /\ ~halted /\ pipe[1].ins.vi
               THEN pipe[1].ins.icd ELSE {})

Triggering == TriggeredInstruction(UpdatedEmpty, UpdatedFull, ResolvedTags)

\* Mutant of DataHazard: the detector is not connected.
NoDataHazard == FALSE

\* The result of the instruction in stage 1 is not ready when the triggered
\* instruction fetches its operands.
DataHazard ==
    /\ core.dataHazards
    /\ pipe[1].ins.dt = "register"
    /\ \E k \in 1 .. 3 : /\ Triggering.src[k].type = "register"
                         /\ Triggering.src[k].index = pipe[1].ins.di

\* Without speculation a predicate write in flight stops the trigger stage.
ControlHazard ==
    /\ ~HasSpeculativePredicateUnit
    /\ \E s \in InFlightStages : WritesPredicate(pipe[s].ins)

HazardFree == IF DataHazard \/ ControlHazard THEN Bubble ELSE Triggering

-----------------------------------------------------------------------------
(* Retirement, and the predicate unit between both ends of the pipeline.   *)

Retiring == IF core.stages = 0 THEN HazardFree ELSE pipe[core.stages].ins

RetiringOperands ==
    IF core.fetch = core.stages THEN Operands(Retiring, regs, inq)
                                ELSE pipe[core.stages].x

Registered(ins) == core.twoStages \/ ins.op = "lsw"

DatapathResult ==
    IF Registered(Retiring) THEN pipe[core.stages].result
                            ELSE Result(Retiring.op, RetiringOperands, spad)

DatapathTrue == DatapathResult # 0

Override == TriggerOverride(HazardFree, Retiring, DatapathTrue)
Miss     == PredictionMiss(Retiring, DatapathTrue)

Issued == IF Override THEN Bubble ELSE HazardFree

-----------------------------------------------------------------------------
(* The way through the pipeline.                                           *)

InStage(s) == IF s = 0 THEN Issued ELSE pipe[s].ins

\* Mutant of ForwardedRegs: the result that is leaving the pipeline is missed.
NotForwardedRegs == regs

\* A register that is written in this very cycle shows its new value.
ForwardedRegs ==
    IF core.forwarding THEN RegistersWith(regs, Retiring, DatapathResult) ELSE regs

FetchedOperands == Operands(InStage(core.fetch), ForwardedRegs, inq)

OperandsIn(s) == IF s = core.fetch THEN FetchedOperands ELSE pipe[s].x

\* What a functional unit makes of a third operand that nothing drives.
Undriven(ins) == IF core.thirdOperand \/ ins.op # "mac" THEN {0} ELSE Word

\* The output register at the next edge.  The functional unit stops as soon as
\* internal_enable does, the scratchpad and the pipeline registers do not.
ResultRegister(ins, x) ==
    IF ~Registered(ins) THEN 0
    ELSE IF ins.op = "lsw" \/ internalEnable THEN Result(ins.op, x, spad)
    ELSE pipe[core.stages].result

\* The pipeline register in front of stage s at the next edge.
Moved(s, undriven) ==
    LET ins     == InStage(s - 1)
        fetched == IF s > core.fetch THEN OperandsIn(s - 1) ELSE NoOperands
        x       == IF s = core.stages /\ ins.op = "mac" /\ ~core.thirdOperand
                   THEN [fetched EXCEPT ![3] = undriven] ELSE fetched
    IN  [ins    |-> ins,
         x      |-> x,
         result |-> IF s = core.stages THEN ResultRegister(ins, x) ELSE 0]

\* The scratchpad is accessed one stage before retirement.
StoredByPipe ==
    IF core.fetch < core.stages
    THEN Stored(InStage(core.stages - 1), OperandsIn(core.stages - 1), spad)
    ELSE spad

-----------------------------------------------------------------------------
(* The clock edge.                                                         *)

DequeueSignals ==
    IF execute /\ ~halted /\ InStage(core.fetch).vi THEN InStage(core.fetch).icd ELSE {}

EnqueueSignals == IF execute /\ ~halted /\ Retiring.vi THEN Retiring.oci ELSE {}

Outgoing == [tag |-> Retiring.oct, data |-> DatapathResult]

\* Mutant of Flushes: the stage next to the trigger stage only is annulled.
FlushesYoungest(s) == Miss /\ s = 1

\* A miss annuls every instruction behind the writer, wherever it is.
Flushes(s) == Miss

PipelineRegisters ==
    \E undriven \in Undriven(InStage(IF core.stages = 0 THEN 0 ELSE core.stages - 1)) :
        pipe' = [s \in InFlightStages |->
                    IF Flushes(s) THEN EmptyEntry ELSE Moved(s, undriven)]

Init ==
    /\ core \in Cores
    /\ InitUnits /\ RunsOn(prog, core)
    /\ pipe = [s \in InFlightStages |-> EmptyEntry]

\* One positive edge of the clock while packets arrive and others are taken.
Clock(arriving, acknowledged) ==
    /\ ExecutionControl(Retiring)
    /\ PredicateUnit(HazardFree, Retiring, DatapathTrue)
    /\ PipelineRegisters
    /\ regs' = RegistersWith(regs, Retiring, DatapathResult)
    /\ spad' = StoredByPipe
    /\ inq' = [c \in InputChannels |->
                 InputChannelAfter(c, c \in DequeueSignals, arriving[c])]
    /\ outq' = [c \in OutputChannels |->
                  OutputChannelAfter(c, c \in EnqueueSignals, Outgoing, c \in acknowledged)]
    /\ UNCHANGED << core, prog, execute >>

Edge == \E arriving \in [InputChannels -> Arriving \cup {NoPacket}],
           acknowledged \in SUBSET OutputChannels : Clock(arriving, acknowledged)

\* The host sets the execute bit (begin_execution in system_control.c).
BeginExecution ==
    /\ ~execute
    /\ execute' = TRUE
    /\ UNCHANGED << core, prog, internalEnable, halted, regs, spad, inq, outq,
                    predicateUnit, pipe >>

Next == Edge \/ BeginExecution

Spec == Init /\ [][Next]_vars

\* The clock keeps ticking as long as a tick changes something in the core, and
\* the host starts the execution; fairness makes no packet arrive or leave.
inside == << control, regs, spad, predicateUnit, pipe >>

FairSpec == Spec /\ WF_inside(Edge) /\ WF_vars(BeginExecution)

-----------------------------------------------------------------------------
(* What the architectural state will be when the instructions in flight    *)
(* that are on the right path have retired.  d is that state for those in  *)
(* the later stages, and which of them has cut off what follows, if any: a *)
(* halt, or a predicate writer that was mispredicted.                      *)

Finished(s, d) ==
    LET ins   == pipe[s].ins
        x     == IF s > core.fetch THEN pipe[s].x ELSE Operands(ins, d.arch.regs, d.arch.inq)
        value == IF Registered(ins) /\ s = core.stages THEN pipe[s].result
                 ELSE Result(ins.op, x, d.arch.spad)
        fetched == [d.arch EXCEPT
                      !.spad = IF s = core.stages THEN @ ELSE Stored(ins, x, @),
                      !.inq  = IF s > core.fetch THEN @ ELSE Dequeued(@, ins.icd)]
        done  == WriteBack(ins, value, fetched)
        wrong == speculating /\ WritesPredicate(ins) /\ (value # 0) # savedPrediction
    IN  [arch |-> [done EXCEPT !.preds = IF wrong THEN savedPreds
                                         ELSE IF speculating THEN d.arch.preds
                                         ELSE @],
         cut  |-> IF ins.op = "halt" THEN "halt" ELSE IF wrong THEN "miss" ELSE "none"]

CurrentState ==
    [regs |-> regs, preds |-> preds, spad |-> spad, inq |-> inq, outq |-> outq]

\* What an instruction in a later stage leaves behind.
Start == [arch |-> CurrentState, cut |-> "none"]

Then(s, d) == IF s > core.stages \/ d.cut # "none" THEN d ELSE Finished(s, d)

\* All instructions in flight have finished: there are three of them at most.
Drained == Then(1, Then(2, Then(3, Start)))

Machine == INSTANCE TiaMachine
    WITH arch <- IF halted THEN CurrentState ELSE Drained.arch,
         halted <- (halted \/ Drained.cut = "halt"),
         StrictPriority <- HasFullInformation,
         HaltedDequeues <- TRUE

-----------------------------------------------------------------------------
\* Type invariant.
TypeOK ==
    /\ UnitsTypeOK
    /\ core \in Cores
    /\ pipe \in [InFlightStages -> Entry]

\* A prediction is open exactly while the instruction whose predicate was
\* predicted is in one of the stages, and no second writer is in flight.
SpeculationTracksWriter ==
    ~halted =>
        /\ \A s, t \in InFlightStages :
              WritesPredicate(pipe[s].ins) /\ WritesPredicate(pipe[t].ins) => s = t
        /\ HasSpeculativePredicateUnit =>
              speculating = (\E s \in InFlightStages : WritesPredicate(pipe[s].ins))

\* However deep the pipeline, nothing behind a predicted writer has consumed a
\* packet or will have changed the scratchpad when the prediction is resolved.
SpeculationIsReversible ==
    ~halted /\ speculating =>
        \A s, t \in InFlightStages :
            s < t /\ WritesPredicate(pipe[t].ins) =>
                pipe[s].ins.icd = {} /\ pipe[s].ins.op # "ssw"

\* No dequeue finds its channel empty and no enqueue finds its channel full,
\* with up to three instructions between the trigger stage and the channels.
ChannelsRespected ==
    /\ \A c \in DequeueSignals : inq[c] # << >>
    /\ \A c \in EnqueueSignals : Len(outq[c]) < ChannelDepth

\* Every one of these cores implements the sequential machine.
ImplementsMachine == Machine!Spec

\* mac adds the product of its second and its third operand to the first: "def
\* mac(a, b, c)" in tools/assembly/instruction.py, and the mac of the tests
\* dot_product.tia and multiplication.tia.  So a mac whose third operand is
\* immediate retires with that operand.
ThirdOperandArrives ==
    Retiring.op = "mac" /\ Retiring.src[3].type = "immediate" =>
        RetiringOperands[3] = Retiring.imm

\* As long as an instruction is triggered on the right path, instructions keep
\* retiring: overrides, annulments and hazards cannot starve the program.
Ready ==
    /\ execute /\ ~halted /\ Machine!Eligible # {}
    /\ \A s \in InFlightStages : pipe[s].ins.op # "halt"
ReadyIsServed == Ready ~> (Retiring.vi \/ halted)
=============================================================================
