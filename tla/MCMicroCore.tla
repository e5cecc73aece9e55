---------------------------- MODULE MCMicroCore ----------------------------
(***************************************************************************)
(* Programs for model checking the eight cores of MicroCore.               *)
(***************************************************************************)
EXTENDS MicroCore, MCPrograms

DeepPrograms == {
    << Multiply, Square, Store >>, << Multiply, Grow, Triple >>,
    << Multiply, EmitElse >>, << Multiply, Forward, Load >>,
    << Compare, Accumulate, Halt >>, << Compare, Store, Emit >>,
    << Multiply, StoreElse, Scale >>, << Multiply, Halt, Scale >>,
    << HaltOut, Drop, Multiply >>, << Scale, Drop >> }

PredictingCores == AllCores \ {tdx}

UndrivenCores == {t_dx1_x2, t_d_x1_x2}
=============================================================================
