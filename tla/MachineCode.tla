---------------------------- MODULE MachineCode ----------------------------
(***************************************************************************)
(* The translation of a parsed instruction into machine code: the build_*  *)
(* functions, what they refuse, and the order in which their results are   *)
(* shifted into the instruction word.                                      *)
(***************************************************************************)
EXTENDS BitStrings, SequencesExt

\* The operations, in the order of their codes.
Ops == <<"nop", "mov", "add", "sub", "sl", "asr", "lsr", "eq", "ne", "sgt",
         "ugt", "slt", "ult", "sge", "uge", "sle", "ule", "band", "bnand",
         "bor", "bnor", "bxor", "bxnor", "land", "lnand", "lor", "lnor",
         "lxor", "lxnor", "gby", "sby", "cby", "mby", "gb", "sb", "cb", "mb",
         "clz", "ctz", "halt", "lsw", "ssw", "rlw", "olw", "sw", "lmul",
         "shmul", "uhmul", "mac", "itf", "utf", "fti", "ftu", "feq", "fne",
         "fgt", "flt", "fle", "fge", "fadd", "fsub", "fmul", "fmac">>

SourceTypes      == <<"null", "immediate", "channel", "register">>
DestinationTypes == <<"null", "channel", "register", "predicate">>

\* The value of an enumeration's member.
Code(enumeration, member) ==
    CHOOSE n \in 0 .. Len(enumeration) - 1 : enumeration[n + 1] = member

-----------------------------------------------------------------------------
(* The fields.  A field whose entries share a width w has its entries or-ed *)
(* in w bits apart, and shifted up past the slots left empty.  An entry too *)
(* wide for its slot overlaps the next one: only the field is checked.      *)

\* Entry k of n among the given slots; the unused slots are the low ones.
InSlots(entries, slots, w) ==
    UNION {Shift(Bits(entries[k]), (slots - Len(entries) + k - 1) * w) :
               k \in DOMAIN entries}

Fits(bits, w) == \A i \in bits : i < w

build_ptm(cp, ins) == Shift(ins.on, cp.num_predicates) \cup ins.off

\* Mutant of build_ici: the slot for null is forgotten.
build_ici_unshifted(cp, ins) ==
    InSlots(ins.channels, cp.max_num_input_channels_to_check, SingleIciWidth(cp))

build_ici(cp, ins) ==
    InSlots([k \in DOMAIN ins.channels |-> ins.channels[k] + 1],
            cp.max_num_input_channels_to_check, SingleIciWidth(cp))

build_ictb(cp, ins) ==
    InSlots([k \in DOMAIN ins.booleans |-> IF ins.booleans[k] THEN 1 ELSE 0],
            cp.max_num_input_channels_to_check, 1)

build_ictv(cp, ins) ==
    InSlots(ins.tags, cp.max_num_input_channels_to_check, TagWidth(cp))

build_op(cp, ins) == Bits(Code(Ops, ins.op))

build_st(cp, ins) ==
    InSlots([k \in 1 .. 3 |-> Code(SourceTypes, ins.types[k])], 3, SingleStWidth)

build_si(cp, ins) == InSlots(ins.indices, 3, SingleSiWidth(cp))

build_dt(cp, ins) == Bits(Code(DestinationTypes, ins.dt))

build_di(cp, ins) == Bits(IF ins.di = None THEN 0 ELSE ins.di)

\* A channel the architecture lacks is left out.
build_oci(cp, ins) == ins.outputs \cap (0 .. cp.num_output_channels - 1)

build_oct(cp, ins) == Bits(IF ins.oct = None THEN 0 ELSE ins.oct)

build_icd(cp, ins) == ins.dequeues \cap (0 .. cp.num_input_channels - 1)

build_pum(cp, ins) == Shift({u[1] : u \in {v \in ins.updates : v[2]}}, cp.num_predicates)
                      \cup {u[1] : u \in {v \in ins.updates : ~v[2]}}

\* The bits of the mask of immediate_width ones; of a negative immediate, of its
\* two's complement.
build_immediate(cp, ins) ==
    IF ins.immediate = <<>> THEN {}
    ELSE Low(Bits(ins.immediate[1] % 2 ^ cp.immediate_width), cp.immediate_width)

Fields(cp, ins) ==
    [ptm |-> build_ptm(cp, ins), ici |-> build_ici(cp, ins),
     ictb |-> build_ictb(cp, ins), ictv |-> build_ictv(cp, ins),
     op |-> build_op(cp, ins), st |-> build_st(cp, ins), si |-> build_si(cp, ins),
     dt |-> build_dt(cp, ins), di |-> build_di(cp, ins),
     oci |-> build_oci(cp, ins), oct |-> build_oct(cp, ins),
     icd |-> build_icd(cp, ins), pum |-> build_pum(cp, ins),
     immediate |-> build_immediate(cp, ins)]

-----------------------------------------------------------------------------
(* What the build functions refuse.                                        *)

\* build_true_ptm, build_false_ptm and their counterparts for the update: their
\* range test lets num_predicates through, the check of the width does not.
PredicatesFit(cp, ins) ==
    \A p \in ins.on \cup ins.off \cup {u[1] : u \in ins.updates} :
        p < cp.num_predicates

\* Mutant of FieldsFit: the widths of the sources are not checked.
FieldsFitExceptSources(cp, ins) ==
    LET f == Fields(cp, ins)
        w == Width(cp)
    IN  \A k \in DOMAIN w \ {"dt", "si", "st"} : Fits(f[k], w[k])

\* The width of dt is compared with that of di.
FieldsFit(cp, ins) ==
    LET f == Fields(cp, ins)
        w == Width(cp)
    IN  /\ \A k \in DOMAIN w \ {"dt"} : Fits(f[k], w[k])
        /\ Fits(f.dt, w.di)

Magnitude(n) == IF n < 0 THEN -n ELSE n

Encodable(cp, ins) ==
    /\ PredicatesFit(cp, ins)
    /\ Len(ins.channels) <= cp.max_num_input_channels_to_check
    /\ FieldsFit(cp, ins)
    /\ ins.immediate # <<>> => BitLength(Magnitude(ins.immediate[1])) <= cp.immediate_width

-----------------------------------------------------------------------------
(* The instruction word and the words of a program.                        *)

\* code <<= w; code |= field
Concat(code, w, field) == Shift(code, w) \cup field

Pack(w, f, immediate_width, padding_width) ==
    LET vi   == {0}
        ptm  == Concat(vi, w.ptm, f.ptm)
        ici  == Concat(ptm, w.ici, f.ici)
        ictb == Concat(ici, w.ictb, f.ictb)
        ictv == Concat(ictb, w.ictv, f.ictv)
        op   == Concat(ictv, w.op, f.op)
        st   == Concat(op, w.st, f.st)
        si   == Concat(st, w.si, f.si)
        dt   == Concat(si, w.dt, f.dt)
        di   == Concat(dt, w.di, f.di)
        oci  == Concat(di, w.oci, f.oci)
        oct  == Concat(oci, w.oct, f.oct)
        icd  == Concat(oct, w.icd, f.icd)
        pum  == Concat(icd, w.pum, f.pum)
        immediate == Concat(pum, immediate_width, f.immediate)
    IN  Shift(immediate, padding_width)

build_machine_code_instruction(cp, ins) ==
    Pack(Width(cp), Fields(cp, ins), cp.immediate_width, PaddingWidth(cp))

\* The 32-bit words of an instruction, least significant first.
WordsPerInstruction(cp) == cp.mm_instruction_width \div 32

Slices(cp, code) ==
    [i \in 0 .. WordsPerInstruction(cp) - 1 |-> Low(High(code, i * 32), 32)]

Sized(cp, instructions) ==
    /\ cp.mm_instruction_width % 32 = 0
    /\ \A k \in DOMAIN instructions : Encodable(cp, instructions[k])

\* The words of the registers, then those of the instructions and of the empty
\* instructions that fill the memory: register i is word i - 1.
build_program_binary(cp, registers, instructions) ==
    LET n      == WordsPerInstruction(cp)
        length == n * Larger(Len(instructions), cp.num_instructions)
        instruction_word(i) ==
            IF i \div n < Len(instructions)
            THEN Slices(cp, build_machine_code_instruction(cp, instructions[i \div n + 1]))[i % n]
            ELSE {}
    IN  [registers    |-> [i \in DOMAIN registers |->
                              registers[i] % 2 ^ cp.device_word_width],
         instructions |-> [i \in 0 .. length - 1 |-> instruction_word(i)]]
=============================================================================
