--------------------------- MODULE MCIntegerCore ---------------------------
(***************************************************************************)
(* Programs for model checking the integer core: every pair of the         *)
(* instructions of MCPrograms in both orders, and some of three.           *)
(***************************************************************************)
EXTENDS IntegerCore, MCPrograms

Pool == {Compare, Multiply, Accumulate, Square, Load, Store, StoreElse, Forward, Scale, Count,
         Emit, EmitElse, Drop, Halt, HaltOut}

Pairs == {pair \in Pool \X Pool : pair[1] # pair[2]}

Triples == {
    << Multiply, Square, Store >>, << Multiply, Accumulate, Load >>,
    << Compare, Accumulate, Halt >>, << Multiply, Halt, Emit >>,
    << Halt, Multiply, Accumulate >>, << Multiply, Forward, Square >>,
    << Compare, Emit, Drop >>, << HaltOut, Multiply, Count >>,
    << Scale, Multiply, Store >>, << Compare, Store, Accumulate >>,
    << Multiply, EmitElse, Count >>,
    << Multiply, Grow, Triple >> }

SmallPrograms == Pairs \cup Triples
=============================================================================
