----------------------------- MODULE MCPrograms -----------------------------
(***************************************************************************)
(* Instructions for model checking the cores, chosen so that any two or    *)
(* three of them in one program meet in the pipeline in the ways the       *)
(* control logic must handle.                                              *)
(***************************************************************************)
EXTENDS TiaIsa

None == [type |-> "null", index |-> 0]
Reg(r) == [type |-> "register", index |-> r]
Chan(c) == [type |-> "channel", index |-> c]
Imm == [type |-> "immediate", index |-> 0]

\* when p == (on, off): op dt, a, b, c
Base(on, off, op, a, b, c, imm) ==
    [Bubble EXCEPT !.vi = TRUE, !.on = on, !.off = off, !.op = op,
                   !.src = << a, b, c >>, !.imm = imm]

ToReg(ins, r)  == [ins EXCEPT !.dt = "register", !.di = r]
ToPred(ins, p) == [ins EXCEPT !.dt = "predicate", !.di = p]
ToChan(ins, o, t) == [ins EXCEPT !.dt = "channel", !.oci = {o}, !.oct = t]
With(ins, c, t, is) == [ins EXCEPT !.checks = {[channel |-> c, tag |-> t, is |-> is]}]
Deq(ins, c)    == [ins EXCEPT !.icd = {c}]
Mask(ins, set, unset) == [ins EXCEPT !.set = set, !.unset = unset]

\* A single-cycle predicate writer that also consumes its operand.
Compare == Deq(With(ToPred(Base({}, {1}, "ult", Imm, Chan(0), None, 1), 0), 0, 0, TRUE), 0)
\* A two-cycle predicate writer that peeks at its operand.
Multiply == Mask(With(ToPred(Base({}, {0, 1}, "lmul", Chan(0), Chan(0), None, 0), 0), 0, 0, TRUE), {1}, {})
\* A two-cycle writer of the other predicate, fed by a register.
Accumulate == Mask(ToPred(Base({0}, {}, "mac", Reg(0), Reg(0), Imm, 1), 1), {}, {0})
\* Forwarding from one two-cycle instruction to the next.
Square == ToReg(Base({1}, {}, "mac", Imm, Reg(0), Reg(0), 1), 0)
Load   == Mask(ToReg(Base({1}, {}, "lsw", Reg(0), None, None, 0), 0), {}, {1})
\* Two instructions that take turns on one register.
Grow    == Mask(ToReg(Base({1}, {0}, "mac", Imm, Reg(0), Imm, 1), 0), {0}, {})
Triple  == Mask(ToReg(Base({0, 1}, {}, "lmul", Reg(0), Imm, None, 3), 0), {}, {0})
\* A store, which must not be speculative.
Store  == Mask(Base({0}, {}, "ssw", Imm, Reg(0), None, 2), {}, {0})
StoreElse == Base({1}, {0}, "ssw", Imm, Reg(0), None, 1)
\* Packets out, after one and after two cycles.
Forward == Mask(Deq(With(ToChan(Base({0}, {}, "mov", Chan(0), None, None, 0), 0, 1), 0, 1, TRUE), 0), {}, {0})
Scale   == Deq(With(ToChan(Base({}, {}, "lmul", Chan(0), Imm, None, 3), 0, 0), 0, 1, FALSE), 0)
Count   == ToReg(Base({}, {0}, "add", Reg(0), Imm, None, 1), 0)
Emit    == ToChan(Base({0}, {}, "mac", Reg(0), Imm, Imm, 1), 0, 0)
\* The same under the opposite predicate, on the path the initial prediction takes.
EmitElse == ToChan(Base({1}, {0}, "mac", Reg(0), Imm, Imm, 1), 0, 1)
Drop    == Deq(With(Base({}, {}, "nop", None, None, None, 0), 0, 1, TRUE), 0)
Halt    == Base({0, 1}, {}, "halt", None, None, None, 0)
HaltOut == Deq(With(ToChan(Base({0}, {}, "halt", None, None, None, 0), 0, 1), 0, 1, TRUE), 0)

SmallPackets == {[tag |-> 0, data |-> 0], [tag |-> 0, data |-> 3], [tag |-> 1, data |-> 1]}
=============================================================================
