----------------------------- MODULE BitStrings -----------------------------
(***************************************************************************)
(* Binary words of any width, as the sets of the positions of their ones:  *)
(* an OR is a union, a mask an intersection.  An instruction is wider than *)
(* the integers of a model checker.                                        *)
(***************************************************************************)
EXTENDS CoreParameters, FiniteSetsExt

BitLength(n) == Clog2(n + 1)            \* int.bit_length of a natural number
Bits(n)      == {i \in 0 .. BitLength(n) - 1 : (n \div 2 ^ i) % 2 = 1}
Number(s)    == MapThenSumSet(LAMBDA i : 2 ^ i, s)

Shift(s, w) == {i + w : i \in s}                          \* s << w
High(s, w)  == {i - w : i \in {j \in s : j >= w}}         \* s >> w
Low(s, w)   == {i \in s : i < w}                          \* s & (2^w - 1)
=============================================================================
