----------------------------- MODULE Operations -----------------------------
(***************************************************************************)
(* The datapath operations, twice: the functions the simulator takes as    *)
(* the reference, on NumPy's sized integers, and the functional units of   *)
(* the hardware.  Words are 0 .. 2^WordWidth - 1; both sides have 32 bits.  *)
(* A shift by the width or more leaves no bit of the word (of a negative    *)
(* word shifted arithmetically, only copies of the sign).                  *)
(***************************************************************************)
EXTENDS BitStrings

CONSTANT WordWidth  \* TIA_WORD_WIDTH

ASSUME WordWidthAssumption == WordWidth \in Nat \ {0}

Modulus   == 2 ^ WordWidth
AllOnes   == Modulus - 1
Positions == 0 .. WordWidth - 1

Wrap(n)      == n % Modulus
Signed(a)    == IF a >= Modulus \div 2 THEN a - Modulus ELSE a
Flag(b)      == IF b THEN 1 ELSE 0
Leading(a)   == CHOOSE i \in Bits(a) : \A j \in Bits(a) : j <= i
Trailing(a)  == CHOOSE i \in Bits(a) : \A j \in Bits(a) : i <= j

\* 1 << b in a word: nothing is left of the one when b is not a position.
OneAt(b) == {b} \cap Positions

-----------------------------------------------------------------------------
(* The simulator's reference.                                              *)

ReferenceArithmetic(op, a, b) ==
    CASE op = "nop" -> 0
      [] op = "mov" -> a
      [] op = "add" -> Wrap(Signed(a) + Signed(b))
      [] op = "sub" -> Wrap(Signed(a) - Signed(b))
      [] op = "sl"  -> Wrap(a * 2 ^ b)
      [] op = "asr" -> Wrap(Signed(a) \div 2 ^ b)
      [] op = "lsr" -> a \div 2 ^ b

ReferenceComparison(op, a, b) ==
    Flag(CASE op = "eq"  -> a = b
           [] op = "ne"  -> a # b
           [] op = "sgt" -> Signed(a) > Signed(b)
           [] op = "ugt" -> a > b
           [] op = "slt" -> Signed(a) < Signed(b)
           [] op = "ult" -> a < b
           [] op = "sge" -> Signed(a) >= Signed(b)
           [] op = "uge" -> a >= b
           [] op = "sle" -> Signed(a) <= Signed(b)
           [] op = "ule" -> a <= b)

ReferenceLogic(op, a, b) ==
    CASE op = "band" -> Number(Bits(a) \cap Bits(b))
      [] op = "bor"  -> Number(Bits(a) \cup Bits(b))
      [] op = "bxor" -> Number((Bits(a) \cup Bits(b)) \ (Bits(a) \cap Bits(b)))
      [] op = "land" -> Flag(a # 0 /\ b # 0)
      [] op = "lor"  -> Flag(a # 0 \/ b # 0)
      [] op = "lxor" -> Flag((a # 0) # (b # 0))

ReferenceBits(op, a, b, c) ==
    LET leading  == IF a = 0 THEN WordWidth ELSE Leading(a)
        trailing == IF a = 0 THEN WordWidth ELSE Trailing(a)
    IN  CASE op = "gb"  -> Flag(b \in Bits(a))
          [] op = "sb"  -> Number(IF c = 0 THEN Bits(a) \ OneAt(b) ELSE Bits(a) \cup OneAt(b))
          [] op = "cb"  -> Number(Bits(a) \ OneAt(b))
          [] op = "mb"  -> Number(Bits(a) \cup OneAt(b))
          [] op = "clz" -> IF b # 0 THEN leading ELSE Wrap(WordWidth - 1 - leading)
          [] op = "ctz" -> trailing

ReferenceProduct(op, a, b, c) ==
    CASE op = "lmul"  -> Wrap(a * b)
      [] op = "shmul" -> Wrap((Signed(a) * Signed(b)) \div Modulus)
      [] op = "uhmul" -> (a * b) \div Modulus
      [] op = "mac"   -> Wrap(Signed(a) + Signed(b) * Signed(c))

Arithmetic  == {"nop", "mov", "add", "sub", "sl", "asr", "lsr"}
Comparisons == {"eq", "ne", "sgt", "ugt", "slt", "ult", "sge", "uge", "sle", "ule"}
Logic       == {"band", "bor", "bxor", "land", "lor", "lxor"}
BitFields   == {"gb", "sb", "cb", "mb", "clz", "ctz"}
Products    == {"lmul", "shmul", "uhmul", "mac"}

\* op_implementation_map: the simulator fails on any other operation, the
\* negated forms bnand, bnor, ... among them.
Implemented == Arithmetic \cup Comparisons \cup Logic \cup BitFields \cup Products
                   \cup {"halt", "lsw", "ssw"}

Reference(op, a, b, c) ==
    CASE op \in Arithmetic  -> ReferenceArithmetic(op, a, b)
      [] op \in Comparisons -> ReferenceComparison(op, a, b)
      [] op \in Logic       -> ReferenceLogic(op, a, b)
      [] op \in BitFields   -> ReferenceBits(op, a, b, c)
      [] op \in Products    -> ReferenceProduct(op, a, b, c)
      [] OTHER              -> 0

-----------------------------------------------------------------------------
(* The hardware.                                                           *)

\* The position an operand names: its low $clog2(TIA_WORD_WIDTH) bits.
Position(b) == b % 2 ^ Clog2(WordWidth)

\* Mutant of SignedUnit: the operands of the comparisons and the shift are unsigned.
SignedUnitUnsigned(op, a, b) ==
    CASE op = "asr" -> Number(High(Bits(a), b))
      [] op = "sgt" -> Flag(a > b)
      [] op = "slt" -> Flag(a < b)
      [] op = "sge" -> Flag(a >= b)
      [] op = "sle" -> Flag(a <= b)

SignedUnit(op, a, b) ==
    CASE op = "asr" -> Number({i \in Positions :
                            IF i + b < WordWidth THEN i + b \in Bits(a)
                            ELSE WordWidth - 1 \in Bits(a)})
      [] op = "sgt" -> Flag(Signed(a) > Signed(b))
      [] op = "slt" -> Flag(Signed(a) < Signed(b))
      [] op = "sge" -> Flag(Signed(a) >= Signed(b))
      [] op = "sle" -> Flag(Signed(a) <= Signed(b))

UnsignedUnit(op, a, b, c) ==
    LET A   == Bits(a)
        B   == Bits(b)
        one == {Position(b)} \cap Positions
        Complement(s) == Positions \ s
    IN  CASE op = "mov"  -> a
          [] op = "add"  -> Wrap(a + b)
          [] op = "sub"  -> Wrap(a - b)
          [] op = "sl"   -> Number(Low(Shift(A, b), WordWidth))
          [] op = "lsr"  -> Number(High(A, b))
          [] op = "eq"   -> Flag(a = b)
          [] op = "ne"   -> Flag(a # b)
          [] op = "ugt"  -> Flag(a > b)
          [] op = "ult"  -> Flag(a < b)
          [] op = "uge"  -> Flag(a >= b)
          [] op = "ule"  -> Flag(a <= b)
          [] op = "band"  -> Number(A \cap B)
          [] op = "bnand" -> Number(Complement(A \cap B))
          [] op = "bor"   -> Number(A \cup B)
          [] op = "bnor"  -> Number(Complement(A \cup B))
          [] op = "bxor"  -> Number((A \ B) \cup (B \ A))
          [] op = "bxnor" -> Number(Complement((A \ B) \cup (B \ A)))
          [] op = "land"  -> Flag(A # {} /\ B # {})
          [] op = "lnand" -> Flag(~(A # {} /\ B # {}))
          [] op = "lor"   -> Flag(A # {} \/ B # {})
          [] op = "lnor"  -> Flag(A = {} /\ B = {})
          [] op = "lxor"  -> Flag((A = {}) # (B = {}))
          [] op = "lxnor" -> Flag((A = {}) = (B = {}))
          [] op = "gb"   -> Flag(Position(b) \in A)
          [] op = "sb"   -> Number(IF c # 0 THEN A \cup one ELSE A \ one)
          [] op = "cb"   -> Number(A \ one)
          [] op = "mb"   -> Number(A \cup one)
          [] op = "clz"  -> IF a = 0 THEN AllOnes
                            ELSE IF b # 0 THEN Leading(a) ELSE WordWidth - 1 - Leading(a)
          [] op = "ctz"  -> IF a = 0 THEN AllOnes ELSE Trailing(a)
          [] OTHER       -> 0

\* The unit computes in WordWidth bits what it takes from the 2 * WordWidth bit
\* product; the upper half is there only with TIA_HAS_TWO_WORD_PRODUCT_MULTIPLIER.
Multiplier(features, op, a, b, c) ==
    CASE op = "lmul" -> Wrap(a * b)
      [] op = "shmul" /\ "two_word_product_multiplier" \in features ->
             Wrap((Signed(a) * Signed(b)) \div Modulus)
      [] op = "uhmul" /\ "two_word_product_multiplier" \in features ->
             Wrap((a * b) \div Modulus)
      [] op = "mac"  -> Wrap(a + Wrap(Signed(b) * Signed(c)))
      [] OTHER -> 0

HardwareResult(features, op, a, b, c) ==
    CASE op \in Products -> IF "multiplier" \in features
                            THEN Multiplier(features, op, a, b, c) ELSE 0
      [] op \in {"asr", "sgt", "slt", "sge", "sle"} -> SignedUnit(op, a, b)
      [] OTHER -> UnsignedUnit(op, a, b, c)
=============================================================================
