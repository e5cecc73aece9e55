------------------------- MODULE InstructionMemory -------------------------
(***************************************************************************)
(* The instruction memory of a core: the words the host writes into it,    *)
(* the fields of the packed instruction, the triggers it shows the trigger *)
(* resolver and the datapath instruction it hands to the decoder.  The     *)
(* parameters are those the hardware was built with.                       *)
(***************************************************************************)
EXTENDS BitStrings

\* The packed fields from the top: widths of derived_parameters.svh.
HwWidth(hp) ==
    LET ici == Clog2(hp.num_input_channels + 1)
        tag == Clog2(hp.num_tags)
        si  == Clog2(Larger(hp.num_registers, hp.num_input_channels))
        di  == Clog2(Larger(Larger(hp.num_registers, hp.num_output_channels),
                            hp.num_predicates))
    IN  [ptm  |-> hp.num_predicates + hp.num_predicates,
         ici  |-> hp.max_num_input_channels_to_check * ici,
         ictb |-> hp.max_num_input_channels_to_check,
         ictv |-> hp.max_num_input_channels_to_check * tag,
         op   |-> Clog2(63), st |-> 3 * Clog2(4), si |-> 3 * si, dt |-> Clog2(4),
         di   |-> di, oci |-> hp.num_output_channels, oct |-> tag,
         icd  |-> hp.num_input_channels, pum |-> hp.num_predicates + hp.num_predicates]

HwPadding(hp) ==
    LET w == HwWidth(hp)
    IN  hp.mm_instruction_width
        - (1 + w.ptm + w.ici + w.ictb + w.ictv + w.op + w.st + w.si + w.dt + w.di
             + w.oci + w.oct + w.icd + w.pum + hp.immediate_width)

-----------------------------------------------------------------------------
(* Writing: the number of words of an instruction is taken as a power of    *)
(* two, the index of the instruction is cut to its width.                   *)

MmioDataWidth == 32

WordIndexWidth(hp) == Clog2(hp.mm_instruction_width \div MmioDataWidth)

WriteWord(hp, memory, index, word) ==
    LET n   == WordIndexWidth(hp)
        k   == (index \div 2 ^ n) % 2 ^ Clog2(hp.num_instructions)
        low == MmioDataWidth * (index % 2 ^ n)
    IN  IF k >= hp.num_instructions THEN memory
        ELSE [memory EXCEPT ![k] =
                 {i \in @ : i < low \/ i >= low + MmioDataWidth}
                     \cup {i \in Shift(word, low) : i < hp.mm_instruction_width}]

-----------------------------------------------------------------------------
(* Reading.                                                                *)

\* mm_instruction_t, from its least significant bit up: f[1] is the code that
\* is left once the fields below have been taken off.
Unpack(w, code, immediate_width, padding_width) ==
    LET immediate == High(code, padding_width)
        pum  == High(immediate, immediate_width)
        icd  == High(pum, w.pum)
        oct  == High(icd, w.icd)
        oci  == High(oct, w.oct)
        di   == High(oci, w.oci)
        dt   == High(di, w.di)
        si   == High(dt, w.dt)
        st   == High(si, w.si)
        op   == High(st, w.st)
        ictv == High(op, w.op)
        ictb == High(ictv, w.ictv)
        ici  == High(ictb, w.ictb)
        ptm  == High(ici, w.ici)
        vi   == High(ptm, w.ptm)
    IN  [vi |-> Low(vi, 1), ptm |-> Low(ptm, w.ptm), ici |-> Low(ici, w.ici),
         ictb |-> Low(ictb, w.ictb), ictv |-> Low(ictv, w.ictv),
         op |-> Low(op, w.op), st |-> Low(st, w.st), si |-> Low(si, w.si),
         dt |-> Low(dt, w.dt), di |-> Low(di, w.di), oci |-> Low(oci, w.oci),
         oct |-> Low(oct, w.oct), icd |-> Low(icd, w.icd), pum |-> Low(pum, w.pum),
         immediate |-> Low(immediate, immediate_width)]

Stored(hp, memory, k) ==
    Unpack(HwWidth(hp), memory[k], hp.immediate_width, HwPadding(hp))

\* Slot i of a field of slots w bits wide: field[w * i +: w].
Slot(field, i, w) == Number(Low(High(field, w * i), w))

\* The channel conditions the trigger resolver applies: an index of zero is an
\* empty slot.
Conditions(hp, f) ==
    LET w   == Clog2(hp.num_input_channels + 1)
        tag == Clog2(hp.num_tags)
    IN  {[channel |-> Slot(f.ici, i, w) - 1, tag |-> Slot(f.ictv, i, tag), is |-> i \in f.ictb] :
            i \in {j \in 0 .. hp.max_num_input_channels_to_check - 1 : Slot(f.ici, j, w) # 0}}

\* The upper half of the trigger and update masks are the ones.
Trues(hp, mask)  == High(mask, hp.num_predicates)
Falses(hp, mask) == Low(mask, hp.num_predicates)

\* The words an immediate can be extended to.  A narrow one is extended with
\* bit TIA_IMMEDIATE_WIDTH + 1 of itself, which does not exist: it may read as
\* either value.
Extensions(hp, immediate) ==
    LET extended(sign) == immediate \cup
            (IF sign THEN hp.immediate_width .. hp.device_word_width - 1 ELSE {})
    IN  IF hp.immediate_width < hp.device_word_width
        THEN {extended(sign) : sign \in BOOLEAN}
        ELSE {Low(immediate, hp.device_word_width)}
=============================================================================
