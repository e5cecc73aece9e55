----------------------------- MODULE Toolchain -----------------------------
(***************************************************************************)
(* From a source file to a running instruction: the assembler tia_as, the  *)
(* binary it writes, the host program that writes the binary word by word  *)
(* into the processing elements, and the hardware's reading of what it was *)
(* given, next to the simulator, which runs the parsed program itself.      *)
(***************************************************************************)
EXTENDS Assembler, InstructionMemory, Operations

CONSTANTS
    Inputs,      \* [platform, source]: the core parameters of a platform file and
                 \* a source file, a program for each processing element in order
    NumElements, \* processing elements of the device
    Operands     \* words tried as operands

ASSUME NumElementsAssumption == NumElements \in Nat \ {0}
ASSUME OperandsAssumption == Operands \subseteq 0 .. Modulus - 1

\* Parameters are numbers or null; a program is a sequence of statements, and what
\* the assembler goes through character by character or item by item is one, too.
\* Indices and tags are written without a sign, an immediate may have one.
Listing(items) == Len(items) \in Nat /\ DOMAIN items = 1 .. Len(items)

OperandOK(t) ==
    t.indices \in Seq(IF t.sort = "$" THEN Int ELSE Nat) /\ t.tags \in Seq(Nat)

StatementOK(s) ==
    /\ s.pattern \in Seq(STRING) /\ Listing(s.conditions)
    /\ s.operands \in Seq(Range(s.operands))
    /\ \A k \in DOMAIN s.conditions :
           LET c == s.conditions[k]
           IN  c.channel \in Nat /\ c.tags \in Seq(Nat) /\ c.not \in BOOLEAN
    /\ \A k \in DOMAIN s.operands : OperandOK(s.operands[k])
    /\ \A k \in DOMAIN s.parts :
           /\ s.parts[k].pattern \in Seq(STRING)
           /\ \A c \in Range(s.parts[k].channels) : c.channel \in Nat

ASSUME InputsAssumption ==
    \A input \in Inputs :
        /\ \A key \in Numbers \cap DOMAIN input.platform :
               input.platform[key] \in Nat \cup {None}
        /\ Listing(input.source)
        /\ \A n \in DOMAIN input.source :
               LET statements == input.source[n].statements
                   inits      == input.source[n].inits
               IN  /\ Listing(statements)
                   /\ \A k \in DOMAIN statements : StatementOK(statements[k])
                   /\ Listing(inits)
                   /\ \A k \in DOMAIN inits : inits[k].index \in Nat /\ inits[k].data \in Int

Elements == 1 .. NumElements

VARIABLES
    dictionary, \* the core part of the platform file
    source,     \* the source file
    stage,      \* how far it has come
    cp,         \* the parameters read
    programs,   \* the programs parsed
    binary,     \* the file written: a sequence of 32-bit words
    written,    \* how many of its words the host has written to the device
    registers,  \* the register file of each processing element
    memory,     \* the instruction memory of each, a set of bits per instruction
    trial       \* an instruction that has been run on some operands

vars == <<dictionary, source, stage, cp, programs, binary, written, registers,
          memory, trial>>

NoTrial == [element |-> 0]

-----------------------------------------------------------------------------
(* The binary: register words then instruction words, program by program.   *)

\* The sequence of the values of a function on 0 .. n - 1.
Listed(f, n) == [i \in 1 .. n |-> f[i - 1]]

Encoding(p) ==
    LET b == build_program_binary(cp, p.registers, p.instructions)
    IN  [i \in DOMAIN b.registers |-> Bits(b.registers[i])]
            \o Listed(b.instructions, Cardinality(DOMAIN b.instructions))

\* The words the host program expects for one processing element.
IndividualWords ==
    cp.num_registers + (cp.num_instructions * cp.mm_instruction_width) \div 32

Init ==
    /\ \E input \in Inputs : dictionary = input.platform /\ source = input.source
    /\ stage = "start"
    /\ cp = dictionary
    /\ programs = <<>>
    /\ binary = <<>>
    /\ written = 0
    /\ registers = [e \in Elements |-> <<>>]
    /\ memory = [e \in Elements |-> <<>>]
    /\ trial = NoTrial

Stop == stage' = "refused"

\* CoreParameters.from_dictionary and validate_instruction_format.  The device
\* is built with the same parameters, and starts empty.
ReadPlatform ==
    /\ stage = "start"
    /\ IF Complete(dictionary) /\ Valid(FromDictionary(dictionary))
       THEN /\ stage' = "read"
            /\ cp' = FromDictionary(dictionary)
            /\ registers' = [e \in Elements |-> [r \in 0 .. cp'.num_registers - 1 |-> 0]]
            /\ memory' = [e \in Elements |-> [k \in 0 .. cp'.num_instructions - 1 |-> {}]]
       ELSE Stop /\ UNCHANGED <<cp, registers, memory>>
    /\ UNCHANGED <<dictionary, source, programs, binary, written, trial>>

\* from_label_and_string, for every label.
Parse ==
    /\ stage = "read"
    /\ IF \A n \in DOMAIN source : Parses(cp, source[n])
       THEN /\ stage' = "parsed"
            /\ programs' = [n \in DOMAIN source |-> FromSource(cp, source[n])]
       ELSE Stop /\ UNCHANGED programs
    /\ UNCHANGED <<dictionary, source, cp, binary, written, registers, memory, trial>>

\* ProcessingElementProgram.validate, for every program.
Validate ==
    /\ stage = "parsed"
    /\ IF \A n \in DOMAIN programs : Validates(cp, programs[n])
       THEN stage' = "validated" ELSE Stop
    /\ UNCHANGED <<dictionary, source, cp, programs, binary, written, registers,
                   memory, trial>>

\* build_program_binary for every program, and the file is written.
Assemble ==
    /\ stage = "validated"
    /\ IF \A n \in DOMAIN programs : Sized(cp, programs[n].instructions)
       THEN /\ stage' = "assembled"
            /\ binary' = FlattenSeq([n \in DOMAIN programs |-> Encoding(programs[n])])
       ELSE Stop /\ UNCHANGED binary
    /\ UNCHANGED <<dictionary, source, cp, programs, written, registers, memory, trial>>

\* The host program refuses a file of another length than the device takes.
ReadBinary ==
    /\ stage = "assembled"
    /\ IF Len(binary) = NumElements * IndividualWords
       THEN stage' = "loading" ELSE Stop
    /\ UNCHANGED <<dictionary, source, cp, programs, binary, written, registers,
                   memory, trial>>

\* write_processing_element_program: the registers, then the instructions.
WriteNextWord ==
    /\ stage = "loading"
    /\ written < Len(binary)
    /\ LET e     == 1 + written \div IndividualWords
           index == written % IndividualWords
           word  == binary[written + 1]
       IN  IF index < cp.num_registers
           THEN /\ registers' = [registers EXCEPT ![e][index] =
                                    Number(Low(word, cp.device_word_width))]
                /\ UNCHANGED memory
           ELSE /\ memory' = [memory EXCEPT ![e] =
                                 WriteWord(cp, @, index - cp.num_registers, word)]
                /\ UNCHANGED registers
    /\ written' = written + 1
    /\ stage' = IF written' = Len(binary) THEN "loaded" ELSE stage
    /\ UNCHANGED <<dictionary, source, cp, programs, binary, trial>>

-----------------------------------------------------------------------------
(* Running an instruction.                                                 *)

\* What source j of an instruction names, on either side.
SimulatorSource(ins, j) == [type |-> ins.types[j], index |-> ins.indices[j]]
HardwareSource(f, j) ==
    [type  |-> SourceTypes[1 + Slot(f.st, j - 1, SingleStWidth)],
     index |-> Slot(f.si, j - 1, SingleSiWidth(cp))]

HardwareOp(f) == Ops[1 + Number(f.op)]

\* The port of the source fetching unit is as wide as the immediate was before it
\* was extended.
Fetched(extended) == Low(extended, cp.immediate_width)

\* The operands: the immediate, nothing, or what the named register or the head
\* of the named channel holds.
OperandsOf(sources, immediate, held) ==
    [j \in 1 .. 3 |->
        CASE sources[j].type = "null"      -> 0
          [] sources[j].type = "immediate" -> immediate
          [] OTHER                         -> held[sources[j]]]

Named(sources) ==
    {s \in {sources[j] : j \in 1 .. 3} : s.type \in {"channel", "register"}}

SimulatorImmediate(ins) ==
    IF ins.immediate = <<>> THEN 0 ELSE Wrap(ins.immediate[1])

\* Processing element e triggers instruction k on some operands, in the
\* simulator and in the hardware.
Try(e, k) ==
    LET ins == programs[e].instructions[k]
        f   == Stored(cp, memory[e], k - 1)
        simulated == [j \in 1 .. 3 |-> SimulatorSource(ins, j)]
        fetched   == [j \in 1 .. 3 |-> HardwareSource(f, j)]
    IN  \E held \in [Named(simulated) \cup Named(fetched) -> Operands] :
        \E extended \in Extensions(cp, f.immediate) :
            LET a == OperandsOf(simulated, SimulatorImmediate(ins), held)
                b == OperandsOf(fetched, Number(Fetched(extended)), held)
            IN  trial' = [element   |-> e, number |-> k, operands |-> a,
                          simulator |-> IF ins.op \in Implemented
                                        THEN Reference(ins.op, a[1], a[2], a[3])
                                        ELSE None,
                          hardware  |-> HardwareResult(cp.has, HardwareOp(f), b[1], b[2], b[3])]

RunInstruction ==
    /\ stage = "loaded"
    /\ stage' = "ran"
    /\ \E e \in Elements \cap DOMAIN programs :
           \E k \in (1 .. cp.num_instructions) \cap DOMAIN programs[e].instructions : Try(e, k)
    /\ UNCHANGED <<dictionary, source, cp, programs, binary, written, registers, memory>>

Next == \/ ReadPlatform \/ Parse \/ Validate \/ Assemble \/ ReadBinary
        \/ WriteNextWord \/ RunInstruction

Spec == Init /\ [][Next]_vars

-----------------------------------------------------------------------------
(* Properties.                                                             *)

\* The bits of an instruction, put together from its words.
Joined(words, n, k) == UNION {Shift(words[n * k + i], 32 * i) : i \in 0 .. n - 1}

\* What the assembler has packed into the words of an instruction, the fields
\* of the hardware's packed structure give back: no field of an instruction
\* that build_machine_code_instruction accepts reaches into another.
FieldsReadBack ==
    stage = "assembled" =>
        \A n \in DOMAIN programs : \A k \in DOMAIN programs[n].instructions :
            LET p     == programs[n]
                words == build_program_binary(cp, p.registers, p.instructions).instructions
                code  == Joined(words, WordsPerInstruction(cp), k - 1)
                f     == Fields(cp, p.instructions[k])
            IN  Unpack(HwWidth(cp), code, cp.immediate_width, HwPadding(cp))
                    = [field \in DOMAIN f \cup {"vi"} |-> IF field = "vi" THEN {0} ELSE f[field]]

\* An instruction that stays within the architecture.  The assembler checks the
\* widths of the fields only.
WithinArchitecture(ins) ==
    /\ \A k \in DOMAIN ins.channels : ins.channels[k] < cp.num_input_channels
    /\ \A k \in DOMAIN ins.tags : ins.tags[k] < cp.num_tags
    /\ \A j \in 1 .. 3 :
           ins.indices[j] < (IF ins.types[j] = "channel" THEN cp.num_input_channels
                             ELSE cp.num_registers)
    /\ ins.outputs \subseteq 0 .. cp.num_output_channels - 1
    /\ ins.dequeues \subseteq 0 .. cp.num_input_channels - 1
    /\ ins.immediate # <<>> => \/ ins.immediate[1] >= 0
                               \/ cp.immediate_width >= cp.device_word_width

\* What the simulator takes an instruction to mean.
Meaning(ins) ==
    [on         |-> ins.on, off |-> ins.off,
     conditions |-> {[channel |-> ins.channels[k], tag |-> ins.tags[k],
                      is |-> ins.booleans[k]] : k \in DOMAIN ins.channels},
     op         |-> ins.op,
     sources    |-> [j \in 1 .. 3 |-> SimulatorSource(ins, j)],
     immediate  |-> {v \in {SimulatorImmediate(ins)} : ins.immediate # <<>>},
     dt         |-> ins.dt,
     di         |-> IF ins.di = None THEN 0 ELSE ins.di,
     outputs    |-> ins.outputs,
     oct        |-> IF ins.oct = None THEN 0 ELSE ins.oct,
     dequeues   |-> ins.dequeues,
     set        |-> {u[1] : u \in {v \in ins.updates : v[2]}},
     unset      |-> {u[1] : u \in {v \in ins.updates : ~v[2]}}]

\* What the hardware takes the bits of an instruction to mean.
HardwareMeaning(f) ==
    [on         |-> Trues(cp, f.ptm), off |-> Falses(cp, f.ptm),
     conditions |-> Conditions(cp, f),
     op         |-> HardwareOp(f),
     sources    |-> [j \in 1 .. 3 |-> HardwareSource(f, j)],
     immediate  |-> {Number(Fetched(x)) : x \in
                        {y \in Extensions(cp, f.immediate) :
                            \E j \in 1 .. 3 : HardwareSource(f, j).type = "immediate"}},
     dt         |-> DestinationTypes[1 + Number(f.dt)],
     di         |-> Number(f.di),
     outputs    |-> f.oci,
     oct        |-> Number(f.oct),
     dequeues   |-> f.icd,
     set        |-> Trues(cp, f.pum),
     unset      |-> Falses(cp, f.pum)]

\* The words of an instruction are a power of two in number: the hardware cuts
\* the index of a word into bit fields.
RegularWords == 2 ^ WordIndexWidth(cp) = WordsPerInstruction(cp)

\* Slot k of element e holds instruction k of the e-th program, or no valid
\* instruction.
SlotIsFaithful(e, k) ==
    LET f == Stored(cp, memory[e], k - 1)
    IN  IF k \in DOMAIN programs[e].instructions
        THEN f.vi = {0} /\ HardwareMeaning(f) = Meaning(programs[e].instructions[k])
        ELSE f.vi = {}

RegistersAreFaithful(e) ==
    registers[e] = [r \in 0 .. cp.num_registers - 1 |->
                       programs[e].registers[r + 1] % 2 ^ cp.device_word_width]

Faithful == \A e \in Elements : /\ RegistersAreFaithful(e)
                                /\ \A k \in 1 .. cp.num_instructions : SlotIsFaithful(e, k)

\* One program for each element, none longer than the instruction memory.
OneProgramEach ==
    /\ Len(programs) = NumElements
    /\ \A n \in DOMAIN programs : Len(programs[n].instructions) <= cp.num_instructions

\* The device is built with the word of the simulator, and for one program each.
Matching == /\ cp.device_word_width = WordWidth
            /\ RegularWords /\ OneProgramEach

\* A loaded device holds, slot by slot and register by register, what the
\* simulator runs, if the programs stay within the architecture.
LoadedIsFaithful ==
    stage \in {"loaded", "ran"} /\ Matching
        /\ (\A n \in DOMAIN programs : \A k \in DOMAIN programs[n].instructions :
                WithinArchitecture(programs[n].instructions[k]))
        => Faithful

\* The predicate state p lets the instruction trigger.
Admits(ins, p) == ins.on \subseteq p /\ ins.off \cap p = {}

\* Its masks take the predicates p to the desired pattern and leave the rest alone.
Reaches(ps, ins, desired, p) ==
    LET pum   == Fields(ps, ins).pum
        after == (p \cup Trues(ps, pum)) \ Falses(ps, pum)
    IN  /\ Ones(desired) \subseteq after
        /\ Zeroes(desired) \cap after = {}
        /\ \A q \in (p \ after) \cup (after \ p) : q \in Ones(desired) \cup Zeroes(desired)

\* "set" reaches its pattern: in every predicate state its trigger admits, the
\* masks leave the predicates as the pattern says and the rest alone, although
\* what the trigger establishes is not written.
SetReachesPattern ==
    stage = "assembled" =>
        \A n \in DOMAIN programs : \A k \in DOMAIN programs[n].instructions :
            LET ins == programs[n].instructions[k]
                s   == source[n].statements[k]
            IN  \A p \in SUBSET (0 .. cp.num_predicates - 1) : \A i \in Parts(s, "set") :
                    Admits(ins, p) => Reaches(cp, ins, s.parts[i].pattern, p)

\* The operations on which the two sides are meant to agree, and the operands:
\* the simulator implements the operation and the hardware has its unit, a bit
\* is named within the word, a zero is not counted in.
Comparable(op, a) ==
    /\ op \in Implemented
    /\ op \in Products => "multiplier" \in cp.has
    /\ op \in {"shmul", "uhmul"} => "two_word_product_multiplier" \in cp.has
    /\ op \in {"gb", "sb", "cb", "mb"} => a[2] < WordWidth
    /\ op \in {"clz", "ctz"} => a[1] # 0

\* An instruction within the architecture gives the same result in the
\* simulator and on the device, from the operands its sources name on each.
ResultsAgree ==
    stage = "ran" =>
        LET ins == programs[trial.element].instructions[trial.number]
        IN  WithinArchitecture(ins) /\ Comparable(ins.op, trial.operands)
                /\ Matching
            => trial.hardware = trial.simulator
=============================================================================
