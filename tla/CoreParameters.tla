-------------------------- MODULE CoreParameters --------------------------
(***************************************************************************)
(* The architectural parameters the tools work from, and the widths of the *)
(* instruction's fields they derive from them.  A parameter set is a       *)
(* record of the numbers that decide an encoding and of the optional units *)
(* a core has.                                                             *)
(***************************************************************************)
EXTENDS Integers, FiniteSets

\* A parameter left null in the platform file; no parameter is negative.
None == -1

Numbers == {"device_word_width", "immediate_width", "mm_instruction_width",
            "num_instructions", "num_predicates", "num_registers",
            "num_input_channels", "num_output_channels",
            "max_num_input_channels_to_check", "num_tags"}

\* The filter keeps the named keys only; a dictionary that lacks one fails.
Complete(dictionary)       == Numbers \cup {"has"} \subseteq DOMAIN dictionary
FromDictionary(dictionary) == [key \in Numbers \cup {"has"} |-> dictionary[key]]

Larger(m, n) == IF m > n THEN m ELSE n

\* The least k with n <= 2^k: ceil(log2(n)), and $clog2(n).
Clog2(n) == CHOOSE k \in 0 .. Larger(n, 0) : n <= 2 ^ k /\ \A j \in 0 .. k - 1 : 2 ^ j < n

-----------------------------------------------------------------------------
(* Derived properties.                                                     *)

TagWidth(cp)       == Clog2(cp.num_tags)
SingleIciWidth(cp) == Clog2(cp.num_input_channels + 1)  \* a slot for null
SingleStWidth      == Clog2(4)                          \* four source types
SingleSiWidth(cp)  == Clog2(Larger(cp.num_registers, cp.num_input_channels))
NumOps             == 63

\* The widths of the fields, the valid bit excepted.
Width(cp) ==
    [ptm  |-> cp.num_predicates + cp.num_predicates,
     ici  |-> cp.max_num_input_channels_to_check * SingleIciWidth(cp),
     ictb |-> cp.max_num_input_channels_to_check,
     ictv |-> cp.max_num_input_channels_to_check * TagWidth(cp),
     op   |-> Clog2(NumOps),
     st   |-> 3 * SingleStWidth,
     si   |-> 3 * SingleSiWidth(cp),
     dt   |-> Clog2(4),                                  \* four destination types
     di   |-> Clog2(Larger(cp.num_registers,
                           Larger(cp.num_output_channels, cp.num_predicates))),
     oci  |-> cp.num_output_channels,
     oct  |-> TagWidth(cp),
     icd  |-> cp.num_input_channels,
     pum  |-> cp.num_predicates + cp.num_predicates]

NonImmediateInstructionWidth(cp) ==
    LET w == Width(cp)
    IN  1 + w.ptm + w.ici + w.ictb + w.ictv + w.op + w.st + w.si + w.dt + w.di
          + w.oci + w.oct + w.icd + w.pum

PhyInstructionWidth(cp) == NonImmediateInstructionWidth(cp) + cp.immediate_width
PaddingWidth(cp)        == cp.mm_instruction_width - PhyInstructionWidth(cp)

\* validate_instruction_format: every attribute is set, and the instruction
\* fits its memory-mapped width.
Valid(cp) ==
    /\ \A key \in Numbers : cp[key] # None
    /\ PhyInstructionWidth(cp) <= cp.mm_instruction_width
=============================================================================
