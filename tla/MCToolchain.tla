---------------------------- MODULE MCToolchain ----------------------------
(***************************************************************************)
(* Inputs for Toolchain: a device of two processing elements, statements    *)
(* that differ from a plain one in one respect or two, inside and outside   *)
(* the architecture, and platforms with too little, too much and too narrow *)
(* of something.                                                            *)
(***************************************************************************)
EXTENDS Toolchain

Base == [device_word_width |-> 4, immediate_width |-> 4, mm_instruction_width |-> 64,
         num_instructions |-> 2, num_predicates |-> 2, num_registers |-> 3,
         num_input_channels |-> 3, num_output_channels |-> 2,
         max_num_input_channels_to_check |-> 2, num_tags |-> 3,
         has |-> {"multiplier", "two_word_product_multiplier"}]

With(key, value) == [Base EXCEPT ![key] = value]

\* Parameters that are complete and make an instruction that fits.
GoodPlatforms ==
    {Base, With("has", {}), With("has", {"multiplier"}), With("num_registers", 4),
     With("immediate_width", 3), With("mm_instruction_width", 96),
     With("num_tags", 1), With("num_instructions", 3)}
\* A destination index of one bit, a width that is no multiple of 32, an
\* instruction wider than its word, a null and a missing parameter.
BadPlatforms ==
    {[Base EXCEPT !.num_registers = 2, !.num_output_channels = 1],
     With("mm_instruction_width", 60), With("mm_instruction_width", 32),
     With("num_tags", None), [key \in DOMAIN Base \ {"num_tags"} |-> Base[key]]}

-----------------------------------------------------------------------------
Token(sort, indices, braced, tags) ==
    [sort |-> sort, indices |-> indices, braced |-> braced, tags |-> tags]
R(i) == Token("%r", <<i>>, FALSE, <<>>)
I(i) == Token("%i", <<i>>, FALSE, <<>>)
D(n) == Token("$", <<n>>, FALSE, <<>>)
O(i, t) == Token("%o", <<i>>, FALSE, <<t>>)

Plain == [colons |-> 1, when |-> TRUE, terminated |-> TRUE,
          pattern |-> <<"X", "1">>, conditions |-> <<>>,
          op |-> "mov", operands |-> <<R(1), R(0)>>, parts |-> <<>>]

Shapes == {[Plain EXCEPT !.colons = c, !.when = w, !.terminated = t] :
              c \in {0, 1, 2}, w \in BOOLEAN, t \in BOOLEAN}

Set(pattern)  == [verb |-> "set", pattern |-> pattern, channels |-> <<>>]
Deq(channels) == [verb |-> "deq", pattern |-> <<>>, channels |-> channels]
In(c)         == [sort |-> "%i", channel |-> c]

TwoOf(S) == [1 .. 2 -> S]

Patterns ==
    {[Plain EXCEPT !.pattern = when, !.parts = <<Set(desired)>>] :
        when \in TwoOf({"0", "1", "X"}), desired \in TwoOf({"0", "1", "X", "Z"})}
    \cup {[Plain EXCEPT !.pattern = when, !.parts = <<Set(desired)>>] :
        when \in {<<"Z", "1">>, <<"2", "1">>, <<"X", "X", "1">>, <<"1">>},
        desired \in {<<"1", "0">>, <<"2", "0">>, <<"X", "X", "0">>}}

Condition(not, sort, c, tags) == [not |-> not, sort |-> sort, channel |-> c, tags |-> tags]
Conditions1 == {Condition(n, "%i", c, t) : n \in BOOLEAN, c \in 0 .. 4,
                                           t \in {<<>>, <<0>>, <<2>>, <<3>>, <<5>>}}
               \cup {Condition(FALSE, "%r", 0, <<0>>)}
Some == {Condition(FALSE, "%i", 0, <<1>>), Condition(TRUE, "%i", 2, <<2>>),
         Condition(TRUE, "%i", 3, <<0>>), Condition(FALSE, "%i", 1, <<4>>)}
Triggers == {[Plain EXCEPT !.conditions = k] :
                k \in {<<c>> : c \in Conditions1} \cup TwoOf(Some)
                      \cup {<<c, c, c>> : c \in Some}}

Destinations == {R(2), R(3), R(5), O(0, 2), O(1, 3), O(3, 0), O(5, 0),
                 Token("%p", <<1>>, FALSE, <<>>), Token("%p", <<3>>, FALSE, <<>>),
                 Token("%o", <<0, 1>>, TRUE, <<1>>), Token("%o", <<1, 1>>, TRUE, <<1>>),
                 Token("%o", <<1, 4>>, TRUE, <<1>>), Token("%o", <<1>>, FALSE, <<>>),
                 Token("%r", <<1>>, TRUE, <<>>), Token("%r", <<1>>, FALSE, <<0>>),
                 Token("%r", <<>>, FALSE, <<>>), Token("x", <<1>>, FALSE, <<>>), I(0)}
Operand == {R(2), R(3), R(5), I(1), I(3), D(5), D(-3), D(15), D(-15), D(16)}
OddOperands == {Token("$", <<>>, FALSE, <<>>), Token("%r", <<1>>, FALSE, <<0>>),
                Token("%i", <<1>>, TRUE, <<>>), O(0, 0), Token("x", <<1>>, FALSE, <<>>)}

Datapaths ==
    {[Plain EXCEPT !.operands = <<d, s>>] : d \in Destinations, s \in {R(0), D(5), I(3)}}
    \cup {[Plain EXCEPT !.operands = <<R(1), s>>] : s \in Operand \cup OddOperands}
    \cup {[Plain EXCEPT !.op = op, !.operands = <<a, b>>] : op \in {"add", "ssw"},
             a \in Operand, b \in Operand \cup OddOperands}
    \cup {[Plain EXCEPT !.op = "sub", !.operands = <<R(1), a, b>>] :
             a \in Operand, b \in Operand}
    \cup {[Plain EXCEPT !.op = "sb", !.operands = <<R(1), R(0), R(2), s>>] : s \in Operand}
    \cup {[Plain EXCEPT !.op = op, !.operands = [k \in 1 .. n |-> R(k % 3)]] :
             op \in {"nop", "halt", "ssw", "mac", "fused"}, n \in 0 .. 5}

Operate == {[Plain EXCEPT !.op = Ops[n], !.operands = <<R(0), R(0), I(0), R(2)>>] :
               n \in DOMAIN Ops}

AfterOperation ==
    {[Plain EXCEPT !.parts = p] :
        p \in {<<Deq(<<In(0)>>)>>, <<Deq(<<In(2), In(0)>>)>>, <<Deq(<<In(3)>>)>>,
               <<Deq(<<[sort |-> "%r", channel |-> 0]>>)>>,
               <<Deq(<<In(1)>>), Set(<<"1", "0">>)>>, <<Set(<<"1", "0">>), Deq(<<In(1)>>)>>,
               <<Deq(<<In(1)>>), Deq(<<In(2)>>)>>, <<Set(<<"1", "X">>), Set(<<"0", "X">>)>>,
               <<[verb |-> "get", pattern |-> <<>>, channels |-> <<>>]>>,
               <<Deq(<<In(1)>>), Set(<<"1", "0">>), Deq(<<In(0)>>)>>}}

Statements == Shapes \cup Patterns \cup Triggers \cup Datapaths \cup AfterOperation

-----------------------------------------------------------------------------
Program(inits, statements) == [inits |-> inits, statements |-> statements]
Idle == Program(<<>>, <<Plain>>)

Initialise(i, data) == [index |-> i, data |-> data, wellformed |-> data # 9]
Initialised ==
    {Program(<<Initialise(i, d)>>, <<Plain>>) : i \in 0 .. 4, d \in {5, -3, -8, -9, 15, 16, 9}}
    \cup {Program(<<Initialise(i, 5), Initialise(j, -7)>>, <<>>) : i \in 0 .. 3, j \in 0 .. 3}

Single(S) == {<<Program(<<>>, <<s>>), Idle>> : s \in S}

Samples == {Plain, [Plain EXCEPT !.conditions = <<Condition(TRUE, "%i", 2, <<2>>)>>],
            [Plain EXCEPT !.operands = <<O(1, 2), D(5)>>],
            [Plain EXCEPT !.operands = <<Token("%o", <<0, 1>>, TRUE, <<1>>), D(3)>>],
            [Plain EXCEPT !.parts = <<Deq(<<In(2)>>), Set(<<"1", "0">>)>>]}

\* Files of another number of programs, or of longer ones.
Files == {<<Program(<<>>, [k \in 1 .. n |-> s]), Idle>> : n \in 0 .. 4, s \in Samples}
         \cup {<<Idle>>, <<Idle, Idle, Idle>>,
               <<Program(<<>>, [k \in 1 .. 6 |-> Plain])>>}
         \cup {<<Idle, p>> : p \in Initialised}

MCInputs ==
    [platform : {Base}, source : Single(Statements \cup Operate) \cup Files]
    \cup [platform : GoodPlatforms, source : Single(Samples \cup Shapes) \cup Files]
    \cup [platform : GoodPlatforms \ {Base, With("num_registers", 4)},
          source : Single({s \in Operate : s.op \in {"mac", "uhmul", "sl", "halt"}})]
    \cup [platform : BadPlatforms, source : Single(Samples)]
=============================================================================
