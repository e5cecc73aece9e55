----------------------------- MODULE Assembler -----------------------------
(***************************************************************************)
(* The assembler's front end: from the statements of a program to          *)
(* instructions, register values and refusals.  A statement is given by    *)
(* its tokens: splitting a line at blanks, commas, semicolons and colons   *)
(* is left out, every decision taken on the pieces is kept.                *)
(*                                                                         *)
(* A statement is a record                                                 *)
(*   colons, when, terminated   how the line is punctuated,                *)
(*   pattern     the characters of the trigger's "%p ==", from predicate 0 *)
(*               up, the reverse of the order they are written in,         *)
(*   conditions  the channel conditions after "with",                      *)
(*   op, operands the datapath operation and its operand tokens,           *)
(*   parts       the "deq" and "set" parts after it.                       *)
(* An operand is [sort, indices, braced, tags]: its prefix, the integers   *)
(* it names (none when they do not read as integers), whether they stand   *)
(* in braces, and what follows its dots.                                   *)
(***************************************************************************)
EXTENDS MachineCode

-----------------------------------------------------------------------------
(* Triggers.                                                               *)

Ones(pattern)   == {k - 1 : k \in {j \in DOMAIN pattern : pattern[j] = "1"}}
Zeroes(pattern) == {k - 1 : k \in {j \in DOMAIN pattern : pattern[j] = "0"}}

\* A trigger's pattern has no "Z", an update's may.
TriggerPattern(pattern) == \A k \in DOMAIN pattern : pattern[k] \in {"0", "1", "X"}
UpdatePattern(pattern)  == \A k \in DOMAIN pattern : pattern[k] \in {"0", "1", "X", "Z"}

\* A condition [not, sort, channel, tags] must name an input channel and a tag.
ValidCondition(c) == c.sort = "%i" /\ Len(c.tags) >= 1

-----------------------------------------------------------------------------
(* The datapath operation.                                                 *)

ValidOperand(t) == t.sort \in {"%i", "%r", "%o", "%p", "%", "$"}

\* Braces belong to the destination, the first operand.
BracesInPlace(operands) ==
    \A k \in DOMAIN operands : operands[k].braced => k = 1

IsSource(t) ==
    /\ t.sort \in {"%i", "%r", "$"}
    /\ Len(t.indices) = 1 /\ ~t.braced /\ t.tags = <<>>

SourceType(t) == IF t.sort = "$" THEN "immediate"
                 ELSE IF t.sort = "%i" THEN "channel" ELSE "register"

\* An immediate has index 0: its value goes to the instruction's one field.
SourceIndex(t) == IF t.sort = "$" THEN 0 ELSE t.indices[1]

\* The operands that are sources, by the number of tokens, the operation one of
\* them: a store names two sources and no destination.
SourceTokens(op, operands) ==
    IF Len(operands) <= 1 THEN <<>>
    ELSE IF op = "ssw" /\ Len(operands) = 2 THEN operands
    ELSE Tail(operands)

\* The last of several immediates is the one the instruction keeps.
Immediate(sources) ==
    LET immediates == {k \in DOMAIN sources : sources[k].sort = "$"}
    IN  IF immediates = {} THEN <<>> ELSE <<sources[Max(immediates)].indices[1]>>

HasDestination(op, operands) == Len(operands) >= 1 /\ op # "ssw"

DestinationType(op, operands) ==
    IF ~HasDestination(op, operands) THEN "null"
    ELSE CASE operands[1].sort = "%o" -> "channel"
           [] operands[1].sort = "%r" -> "register"
           [] OTHER                   -> "predicate"

\* A channel destination carries one tag, the tag of another is ignored; only a
\* channel destination may list several indices, which must differ.
ValidDestination(t) ==
    /\ t.sort \in {"%o", "%r", "%p"}
    /\ t.sort = "%o" => Len(t.tags) = 1
    /\ t.braced => /\ t.sort = "%o"
                   /\ t.indices # <<>>
                   /\ \A i, j \in DOMAIN t.indices :
                          i # j => t.indices[i] # t.indices[j]
    /\ ~t.braced => Len(t.indices) = 1

DestinationIndex(op, operands) ==
    IF ~HasDestination(op, operands) THEN None
    ELSE IF operands[1].braced THEN 0 ELSE operands[1].indices[1]

OutputChannels(op, operands) ==
    IF DestinationType(op, operands) # "channel" THEN {}
    ELSE {operands[1].indices[k] : k \in DOMAIN operands[1].indices}

ValidDatapath(op, operands) ==
    /\ \E n \in DOMAIN Ops : Ops[n] = op
    /\ Len(operands) <= 4
    /\ \A k \in DOMAIN operands : ValidOperand(operands[k])
    /\ BracesInPlace(operands)
    /\ LET sources == SourceTokens(op, operands)
       IN  \A k \in DOMAIN sources : IsSource(sources[k])
    /\ HasDestination(op, operands) => ValidDestination(operands[1])

-----------------------------------------------------------------------------
(* The parts that follow: dequeues and predicate updates.                  *)

\* The numbers of the parts of one kind.
Parts(s, verb) == {k \in DOMAIN s.parts : s.parts[k].verb = verb}

\* At most one part of each kind, and a part is of one of the two kinds.
ValidParts(s) ==
    /\ Len(s.parts) <= 2
    /\ \A k \in DOMAIN s.parts : s.parts[k].verb \in {"deq", "set"}
    /\ \A verb \in {"deq", "set"} : \A j, k \in Parts(s, verb) : j = k
    /\ \A k \in DOMAIN s.parts :
           IF s.parts[k].verb = "set" THEN UpdatePattern(s.parts[k].pattern)
           ELSE \A j \in DOMAIN s.parts[k].channels : s.parts[k].channels[j].sort = "%i"

Dequeues(s) ==
    UNION {{c.channel : c \in Range(s.parts[k].channels)} : k \in Parts(s, "deq")}

\* Mutant of Updates: a predicate the trigger leaves open counts as zero.
UpdatesFromZero(original, desired) ==
    {<<p, TRUE>> : p \in Ones(desired) \ Ones(original)}
        \cup {<<p, FALSE>> : p \in Zeroes(desired) \cap Ones(original)}

\* determine_predicates_to_update: what the trigger establishes is not written.
Updates(original, desired) ==
    {<<p, TRUE>> : p \in Ones(desired) \ Ones(original)}
        \cup {<<p, FALSE>> : p \in Zeroes(desired) \ Zeroes(original)}

PredicateUpdates(s) ==
    UNION {Updates(s.pattern, s.parts[k].pattern) : k \in Parts(s, "set")}

-----------------------------------------------------------------------------
(* Instructions and programs.                                              *)

ValidStatement(s) ==
    /\ s.colons = 1 /\ s.when /\ s.terminated
    /\ TriggerPattern(s.pattern)
    /\ \A k \in DOMAIN s.conditions : ValidCondition(s.conditions[k])
    /\ ValidDatapath(s.op, s.operands)
    /\ ValidParts(s)

FromStatement(s) ==
    LET sources == SourceTokens(s.op, s.operands)
        padded(Field(_), null) ==
            [k \in 1 .. 3 |-> IF k <= Len(sources) THEN Field(sources[k]) ELSE null]
    IN  [on        |-> Ones(s.pattern),
         off       |-> Zeroes(s.pattern),
         channels  |-> [k \in DOMAIN s.conditions |-> s.conditions[k].channel],
         tags      |-> [k \in DOMAIN s.conditions |-> s.conditions[k].tags[1]],
         booleans  |-> [k \in DOMAIN s.conditions |-> ~s.conditions[k].not],
         op        |-> s.op,
         types     |-> padded(SourceType, "null"),
         indices   |-> padded(SourceIndex, 0),
         immediate |-> Immediate(sources),
         dt        |-> DestinationType(s.op, s.operands),
         di        |-> DestinationIndex(s.op, s.operands),
         outputs   |-> OutputChannels(s.op, s.operands),
         oct       |-> IF DestinationType(s.op, s.operands) = "channel"
                       THEN s.operands[1].tags[1] ELSE None,
         dequeues  |-> Dequeues(s),
         updates   |-> PredicateUpdates(s)]

\* Register initialisations [index, data, wellformed]: the last one of a
\* register holds; an index past the register file fails.
ValidInits(cp, inits) ==
    \A k \in DOMAIN inits : inits[k].wellformed /\ inits[k].index < cp.num_registers

RegisterValues(cp, inits) ==
    [i \in 1 .. cp.num_registers |->
        LET mine == {k \in DOMAIN inits : inits[k].index = i - 1}
        IN  IF mine = {} THEN 0 ELSE inits[Max(mine)].data]

\* A program [inits, statements] of one processing element.
Parses(cp, source) ==
    /\ ValidInits(cp, source.inits)
    /\ \A k \in DOMAIN source.statements : ValidStatement(source.statements[k])

FromSource(cp, source) ==
    [registers    |-> RegisterValues(cp, source.inits),
     instructions |-> [k \in DOMAIN source.statements |->
                          FromStatement(source.statements[k])]]

\* validate: a negative value is given one bit more than its magnitude, and an
\* instruction's own validate is still to be written.
Validates(cp, program) ==
    \A i \in DOMAIN program.registers :
        LET data == program.registers[i]
        IN  BitLength(Magnitude(data)) + (IF data < 0 THEN 1 ELSE 0) <= cp.device_word_width
=============================================================================
