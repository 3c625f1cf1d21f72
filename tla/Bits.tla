-------------------------------- MODULE Bits --------------------------------
(***************************************************************************)
(* namespace bit of common.hpp: bit fields of an unsigned type of w bits,  *)
(* values being numbers below 2 ^ w.  C++ computes in int what is narrower *)
(* than int (INT_BITS), so a left shift drops no bit of a narrow type      *)
(* until the result is converted back.                                     *)
(***************************************************************************)
EXTENDS Integers, FiniteSetsExt

CONSTANT INT_BITS   \* bits of an int

ASSUME BitsAssumption == INT_BITS \in Nat \ {0}

Trunc(w, n) == n % 2 ^ w

(* The signed value of the low w bits. *)
Signed(w, n) == IF Trunc(w, n) < 2 ^ (w - 1) THEN Trunc(w, n) ELSE Trunc(w, n) - 2 ^ w

BitsOf(w, n) == {i \in 0 .. w - 1 : (n \div 2 ^ i) % 2 = 1}

ValueOf(S) == SumFunctionOnSet([i \in S |-> 2 ^ i], S)

Promoted(w) == IF w < INT_BITS THEN INT_BITS ELSE w

getBitField(w, hi, lo, v) ==
    LET left == w - hi - 1
    IN  Trunc(w, Trunc(Promoted(w), v * 2 ^ left) \div 2 ^ (left + lo))

(* The field's mask is a run of ones: what is above and below it stays. *)
setBitField(w, hi, lo, v, field) ==
    LET mask == Trunc(w, (IF hi + 1 = w THEN 0 ELSE 2 ^ (hi + 1)) - 2 ^ lo)
        f    == Trunc(w, field * 2 ^ lo)
    IN  ValueOf((BitsOf(w, v) \ BitsOf(w, mask)) \cup (BitsOf(w, f) \cap BitsOf(w, mask)))

maskBits(w, hi, lo, v) == Trunc(w, getBitField(w, hi, lo, v) * 2 ^ lo)
=============================================================================
