----------------------------- MODULE BitsProofs -----------------------------
(***************************************************************************)
(* Bit helpers, instruction bodies, control registers and the decoder, for *)
(* every width: the binary digits of a number, what namespace bit makes of *)
(* them, the RISC-V manual's reading of the instructions, the fields of    *)
(* the CSRs, the decoder's switches for every code.                        *)
(***************************************************************************)
EXTENDS Csr, HartReference, Decoder, ArithmeticProofs, SequenceTheorems

-----------------------------------------------------------------------------
(* Binary digits of an integer, two's complement when it is negative. *)

(* A digit is 0 or 1. *)
LEMMA BitType ==
    ASSUME NEW n \in Int, NEW i \in Nat
    PROVE  Bit(n, i) \in {0, 1} /\ Bit(n, i) \in Int
  <1>1. 2 ^ i \in Nat /\ 2 ^ i > 0
    BY PowerType
  <1>2. n \div 2 ^ i \in Int
    BY <1>1, DivMod
  <1>3. (n \div 2 ^ i) % 2 \in 0 .. 1
    BY <1>2
  <1> QED BY <1>3 DEF Bit

(* Dividing twice divides by the product. *)
LEMMA DivDiv ==
    ASSUME NEW n \in Int, NEW a \in Nat, a > 0, NEW b \in Nat, b > 0
    PROVE  (n \div a) \div b = n \div (a * b)
  <1>1. PICK q \in Int, r \in 0 .. a - 1 : q = n \div a /\ n = a * q + r
    BY DivMod
  <1>2. PICK p \in Int, s \in 0 .. b - 1 : p = q \div b /\ q = b * p + s
    BY DivMod
  <1>3. a * s \in Nat /\ a * s <= a * b - a /\ a * b \in Nat /\ a * b > 0
    <2>1. a * (b - 1) = a * b - a /\ a * s <= a * (b - 1)
      OBVIOUS
    <2> QED BY <2>1
  <1>4. a * q = (a * b) * p + a * s
    BY <1>2
  <1>5. PICK c \in Nat, t \in Int, m \in Int : c = a * b /\ t = a * s + r /\ m = c * p
    BY <1>3
  <1>6. n = c * p + t /\ t \in 0 .. c - 1 /\ c > 0
    <2>1. n = m + t
      BY <1>1, <1>3, <1>4, <1>5
    <2>2. t \in 0 .. c - 1 /\ c > 0
      BY <1>3, <1>5
    <2> QED BY <1>5, <2>1, <2>2
  <1>7. p = n \div c
    BY <1>6, DivModUnique
  <1> QED BY <1>1, <1>2, <1>5, <1>7

(* A right shift moves the digits down. *)
LEMMA BitDiv ==
    ASSUME NEW n \in Int, NEW k \in Nat, NEW i \in Nat
    PROVE  n \div 2 ^ k \in Int /\ Bit(n \div 2 ^ k, i) = Bit(n, i + k)
  <1>1. 2 ^ i \in Nat /\ 2 ^ i > 0 /\ 2 ^ k \in Nat /\ 2 ^ k > 0
    BY PowerType
  <1>2. 2 ^ (k + i) = 2 ^ k * 2 ^ i /\ k + i = i + k
    BY PowerAdd
  <1>3. (n \div 2 ^ k) \div 2 ^ i = n \div (2 ^ k * 2 ^ i)
    BY <1>1, DivDiv
  <1>4. n \div 2 ^ k \in Int
    BY <1>1, DivMod
  <1> QED BY <1>2, <1>3, <1>4 DEF Bit

(* c and n differ by a multiple of 2 ^ w. *)
Congruent(w, c, n) == \E q \in Int : c = n + 2 ^ w * q

(* Adding a multiple of 2 ^ w changes no digit below w. *)
LEMMA BitCongruent ==
    ASSUME NEW n \in Int, NEW w \in Nat, NEW i \in Nat, i < w,
           NEW c \in Int, Congruent(w, c, n)
    PROVE  Bit(c, i) = Bit(n, i)
  <1> PICK q \in Int : c = n + 2 ^ w * q
    BY DEF Congruent
  <1>1. PICK k \in Nat : w = i + (k + 1)
    <2>1. w - i - 1 \in Nat /\ w = i + ((w - i - 1) + 1)
      OBVIOUS
    <2> QED BY <2>1
  <1>2. PICK a \in Nat, b \in Nat : a = 2 ^ i /\ a > 0 /\ b = 2 ^ k
    BY PowerType
  <1>3. 2 ^ w = a * (2 * b)
    <2>1. 2 ^ (k + 1) = 2 * b
      BY <1>2, PowerStep
    <2>2. 2 ^ (i + (k + 1)) = 2 ^ i * 2 ^ (k + 1)
      <3>1. k + 1 \in Nat
        OBVIOUS
      <3> QED BY <3>1, PowerAdd
    <2> QED BY <1>1, <1>2, <2>1, <2>2
  <1>4. PICK d \in Int, r \in 0 .. a - 1 : d = n \div a /\ n = a * d + r
    BY <1>2, DivMod
  <1>5. PICK e \in Int, m \in Int : e = b * q /\ m = d + 2 * e
    OBVIOUS
  <1>6. c = a * m + r
    <2>1. (a * (2 * b)) * q = a * (2 * e)
      BY <1>5
    <2>2. a * m = a * d + a * (2 * e)
      BY <1>5
    <2>3. PICK u \in Int, v \in Int : u = a * d /\ v = a * (2 * e)
      OBVIOUS
    <2>4. c = n + v
      BY <1>3, <2>1, <2>3
    <2>5. a * m = u + v /\ n = u + r
      BY <1>4, <2>2, <2>3
    <2> QED BY <2>4, <2>5
  <1>7. m = c \div a
    BY <1>2, <1>6, DivModUnique
  <1>8. m % 2 = d % 2
    BY <1>5
  <1> QED BY <1>2, <1>4, <1>7, <1>8 DEF Bit

(* The low w bits have the number's digits. *)
LEMMA BitTrunc ==
    ASSUME NEW n \in Int, NEW w \in Nat, NEW i \in Nat, i < w
    PROVE  Bit(n % 2 ^ w, i) = Bit(n, i)
  <1>1. PICK a \in Nat : a = 2 ^ w /\ a > 0
    BY PowerType
  <1>2. PICK q \in Int, r \in 0 .. a - 1 : q = n \div a /\ r = n % a /\ n = a * q + r
    BY <1>1, DivMod
  <1>3. n = r + a * q /\ r \in Int
    BY <1>2
  <1>4. Congruent(w, n, r)
    BY <1>1, <1>3 DEF Congruent
  <1> QED BY <1>1, <1>2, <1>3, <1>4, BitCongruent

(* A left shift moves the digits up and brings in zeros. *)
LEMMA BitMultiply ==
    ASSUME NEW n \in Int, NEW k \in Nat, NEW i \in Nat
    PROVE  /\ n * 2 ^ k \in Int
           /\ Bit(n * 2 ^ k, i) = IF i < k THEN 0 ELSE Bit(n, i - k)
  <1>1. PICK a \in Nat : a = 2 ^ k /\ a > 0
    BY PowerType
  <1>2. n * a \in Int
    OBVIOUS
  <1>3. CASE i < k
    <2>1. PICK m \in Int : m = n * a /\ m = 0 + a * n
      OBVIOUS
    <2>2. Bit(m, i) = Bit(0, i)
      <3>1. 0 \in Int /\ Congruent(k, m, 0)
        BY <1>1, <2>1 DEF Congruent
      <3> QED BY <1>3, <3>1, BitCongruent
    <2>3. Bit(0, i) = 0
      <3>1. PICK b \in Nat : b = 2 ^ i /\ b > 0
        BY PowerType
      <3>2. 0 = 0 \div b
        <4>1. 0 = b * 0 + 0 /\ 0 \in 0 .. b - 1
          BY <3>1
        <4> QED BY <3>1, <4>1, DivModUnique
      <3> QED BY <3>1, <3>2 DEF Bit
    <2> QED BY <1>1, <1>2, <1>3, <2>1, <2>2, <2>3
  <1>4. CASE ~(i < k)
    <2>1. PICK j \in Nat : j = i - k /\ i = j + k
      <3>1. i - k \in Nat /\ i = (i - k) + k
        BY <1>4
      <3> QED BY <3>1
    <2>2. PICK m \in Int : m = n * a
      OBVIOUS
    <2>3. Bit(m \div 2 ^ k, j) = Bit(m, i)
      BY <2>1, BitDiv
    <2>4. n = m \div a
      <3>1. m = a * n + 0 /\ 0 \in 0 .. a - 1
        BY <1>1, <2>2
      <3> QED BY <1>1, <3>1, DivModUnique
    <2> QED BY <1>1, <1>4, <2>1, <2>2, <2>3, <2>4
  <1> QED BY <1>3, <1>4

(* A number below 2 ^ w has no digit above; one from -2 ^ w to -1 has only *)
(* ones there.                                                             *)
LEMMA BitHigh ==
    ASSUME NEW w \in Nat, NEW i \in Nat, w <= i, NEW n \in Int
    PROVE  /\ n \in 0 .. 2 ^ w - 1 => Bit(n, i) = 0
           /\ n \in -(2 ^ w) .. -1 => Bit(n, i) = 1
  <1>1. PICK k \in Nat : i = w + k
    <2>1. i - w \in Nat /\ i = w + (i - w)
      OBVIOUS
    <2> QED BY <2>1
  <1>2. PICK a \in Nat, b \in Nat : a = 2 ^ w /\ a > 0 /\ b = 2 ^ k /\ b > 0
    BY PowerType
  <1>3. PICK c \in Nat : c = 2 ^ i /\ c >= a /\ c > 0
    <2>1. 2 ^ i = a * b
      BY <1>1, <1>2, PowerAdd
    <2>2. a * b >= a /\ a * b \in Nat
      BY <1>2
    <2> QED BY <1>2, <2>1, <2>2
  <1>4. ASSUME n \in 0 .. a - 1 PROVE Bit(n, i) = 0
    <2>1. n = c * 0 + n /\ n \in 0 .. c - 1
      BY <1>3, <1>4
    <2>2. 0 = n \div c
      BY <1>3, <2>1, DivModUnique
    <2> QED BY <1>3, <2>2 DEF Bit
  <1>5. ASSUME n \in -a .. -1 PROVE Bit(n, i) = 1
    <2>1. PICK r \in 0 .. c - 1 : r = n + c
      BY <1>3, <1>5
    <2>2. n = c * (-1) + r /\ -1 \in Int
      BY <2>1
    <2>3. -1 = n \div c
      BY <1>3, <2>2, DivModUnique
    <2>4. 1 = (-1) % 2
      <3>1. -1 = 2 * (-1) + 1 /\ -1 \in Int /\ 1 \in 0 .. 2 - 1 /\ 2 \in Nat /\ 2 > 0
        OBVIOUS
      <3> QED BY <3>1, DivModUnique
    <2> QED BY <1>3, <2>3, <2>4 DEF Bit
  <1> QED BY <1>2, <1>4, <1>5

(* One more digit. *)
LEMMA BitSplit ==
    ASSUME NEW n \in Int, NEW w \in Nat
    PROVE  n % 2 ^ (w + 1) = (n % 2 ^ w) + 2 ^ w * Bit(n, w)
  <1>1. PICK a \in Nat : a = 2 ^ w /\ a > 0
    BY PowerType
  <1>2. PICK q \in Int, r \in 0 .. a - 1 : q = n \div a /\ r = n % a /\ n = a * q + r
    BY <1>1, DivMod
  <1>3. PICK p \in Int, b \in 0 .. 1 : p = q \div 2 /\ b = q % 2 /\ q = 2 * p + b
    OBVIOUS
  <1>4. PICK c \in Nat : c = 2 * a /\ c = 2 ^ (w + 1) /\ c > 0
    BY <1>1, PowerStep
  <1>5. PICK s \in 0 .. c - 1 : s = r + a * b
    BY <1>4
  <1>6. n = c * p + s
    <2>1. a * q = c * p + a * b
      BY <1>3, <1>4
    <2>2. PICK u \in Int, v \in Int, t \in Int : u = a * q /\ v = c * p /\ t = a * b
      OBVIOUS
    <2>3. u = v + t /\ s = r + t /\ n = u + r
      BY <1>2, <1>5, <2>1, <2>2
    <2>4. n = v + s
      BY <2>3
    <2> QED BY <2>2, <2>4
  <1>7. s = n % c
    BY <1>4, <1>6, DivModUnique
  <1> QED BY <1>1, <1>2, <1>3, <1>4, <1>5, <1>7 DEF Bit

(* Numbers with the same low digits have the same low bits. *)
LEMMA SameBits ==
    ASSUME NEW m \in Int, NEW n \in Int
    PROVE  \A w \in Nat : (\A i \in 0 .. w - 1 : Bit(m, i) = Bit(n, i))
                              => m % 2 ^ w = n % 2 ^ w
  <1> DEFINE Ns == {w \in Nat : (\A i \in 0 .. w - 1 : Bit(m, i) = Bit(n, i))
                                    => m % 2 ^ w = n % 2 ^ w}
  <1>1. 0 \in Ns
    <2>1. 2 ^ 0 = 1
      OBVIOUS
    <2>2. m % 1 = 0 /\ n % 1 = 0
      OBVIOUS
    <2> QED BY <2>1, <2>2
  <1>2. ASSUME NEW w \in Nat, w \in Ns PROVE w + 1 \in Ns
    <2> SUFFICES ASSUME \A i \in 0 .. (w + 1) - 1 : Bit(m, i) = Bit(n, i)
                 PROVE  m % 2 ^ (w + 1) = n % 2 ^ (w + 1)
      OBVIOUS
    <2>1. m % 2 ^ w = n % 2 ^ w /\ Bit(m, w) = Bit(n, w)
      BY <1>2
    <2> QED BY <2>1, BitSplit
  <1> HIDE DEF Ns
  <1>3. \A w \in Nat : w \in Ns
    BY <1>1, <1>2, SetInduction
  <1> QED BY <1>3 DEF Ns

(* So two numbers of w bits with the same digits are the same number. *)
LEMMA EqualBits ==
    ASSUME NEW w \in Nat, NEW m \in 0 .. 2 ^ w - 1, NEW n \in 0 .. 2 ^ w - 1,
           \A i \in 0 .. w - 1 : Bit(m, i) = Bit(n, i)
    PROVE  m = n
  <1>1. PICK a \in Nat : a = 2 ^ w /\ a > 0
    BY PowerType
  <1>2. m \in Int /\ n \in Int
    BY <1>1
  <1>3. m % a = n % a
    BY <1>1, <1>2, SameBits
  <1>4. ASSUME NEW x \in 0 .. a - 1 PROVE x = x % a
    <2>1. x = a * 0 + x /\ x \in Int
      BY <1>1
    <2> QED BY <1>1, <2>1, DivModUnique
  <1>5. m = m % a /\ n = n % a
    BY <1>1, <1>4
  <1> QED BY <1>3, <1>5

-----------------------------------------------------------------------------
(* BitsOf and ValueOf. *)

(* The number made of a set of positions below w is below 2 ^ w and has    *)
(* its ones at these positions.                                            *)
LEMMA ValueOfBits ==
    \A w \in Nat : \A S \in SUBSET (0 .. w - 1) :
        /\ ValueOf(S) \in 0 .. 2 ^ w - 1 /\ ValueOf(S) \in Int
        /\ \A i \in 0 .. w - 1 : Bit(ValueOf(S), i) = 1 <=> i \in S
  <1> DEFINE Good(w, S) == /\ ValueOf(S) \in 0 .. 2 ^ w - 1 /\ ValueOf(S) \in Int
                           /\ \A i \in 0 .. w - 1 : Bit(ValueOf(S), i) = 1 <=> i \in S
             Ns == {w \in Nat : \A S \in SUBSET (0 .. w - 1) : Good(w, S)}
  <1>1. 0 \in Ns
    <2>1. \A S \in SUBSET (0 .. 0 - 1) : S = {}
      OBVIOUS
    <2>2. ValueOf({}) = 0
      BY SumPicked, FS_EmptySet DEF ValueOf
    <2>3. 2 ^ 0 - 1 = 0
      OBVIOUS
    <2>4. Good(0, {})
      BY <2>2, <2>3
    <2> HIDE DEF Good
    <2> QED BY <2>1, <2>4
  <1>2. ASSUME NEW w \in Nat, w \in Ns PROVE w + 1 \in Ns
    <2> SUFFICES ASSUME NEW S \in SUBSET (0 .. (w + 1) - 1) PROVE Good(w + 1, S)
      <3> HIDE DEF Good
      <3> QED OBVIOUS
    <2> DEFINE T == S \ {w}
    <2>1. PICK a \in Nat : a = 2 ^ w /\ a > 0 /\ 2 ^ (w + 1) = 2 * a
      BY PowerType, PowerStep
    <2>2. T \in SUBSET (0 .. w - 1) /\ w \notin T
      OBVIOUS
    <2>3. PICK x \in Int : x = ValueOf(T) /\ x \in 0 .. a - 1
      BY <1>2, <2>1, <2>2
    <2>4. \A i \in 0 .. w - 1 : Bit(x, i) = 1 <=> i \in T
      BY <1>2, <2>2, <2>3
    <2>5. PICK b \in 0 .. 1 : (b = 1 <=> w \in S) /\ ValueOf(S) = x + a * b
      <3>1. CASE w \notin S
        <4>1. T = S /\ x = x + a * 0
          BY <3>1
        <4> QED BY <2>3, <3>1, <4>1
      <3>2. CASE w \in S
        <4> DEFINE f == [i \in S |-> 2 ^ i]
                   g == [i \in T |-> 2 ^ i]
        <4>1. IsFiniteSet(S) /\ IsFiniteSet(T)
          <5>1. IsFiniteSet(0 .. w) /\ S \in SUBSET (0 .. w) /\ T \in SUBSET (0 .. w)
            BY FS_Interval
          <5> QED BY <5>1, FS_Subset
        <4>2. \A i \in S : f[i] \in Int
          BY PowerType
        <4>3. f[w] = a /\ \A i \in T : f[i] = g[i]
          BY <2>1, <3>2
        <4> HIDE DEF f, g
        <4>4. SumFunctionOnSet(f, S) = f[w] + SumFunctionOnSet(f, T)
          BY <3>2, <4>1, <4>2, SumRemove
        <4>5. SumFunctionOnSet(f, T) = SumFunctionOnSet(g, T)
          BY <4>1, <4>2, <4>3, SumEqual
        <4>6. ValueOf(S) = SumFunctionOnSet(f, S) /\ x = SumFunctionOnSet(g, T)
          BY <2>3 DEF ValueOf, f, g
        <4>7. ValueOf(S) = x + a * 1
          BY <4>3, <4>4, <4>5, <4>6
        <4> QED BY <3>2, <4>7
      <3> QED BY <3>1, <3>2
    <2>6. PICK y \in Int : y = ValueOf(S) /\ y = x + a * b /\ y \in 0 .. 2 * a - 1
      BY <2>1, <2>3, <2>5
    <2>7. ASSUME NEW i \in 0 .. w - 1 PROVE Bit(y, i) = 1 <=> i \in S
      <3>1. Bit(y, i) = Bit(x, i)
        <4>1. b \in Int /\ i \in Nat /\ i < w
          OBVIOUS
        <4>2. Congruent(w, y, x)
          BY <2>1, <2>6, <4>1 DEF Congruent
        <4> QED BY <4>1, <4>2, BitCongruent
      <3>2. i \in T <=> i \in S
        OBVIOUS
      <3> QED BY <2>1, <2>4, <2>6, <3>1, <3>2
    <2>8. Bit(y, w) = 1 <=> w \in S
      <3>1. b = y \div a
        <4>1. y = a * b + x /\ b \in Int
          BY <2>6
        <4> QED BY <2>1, <2>3, <4>1, DivModUnique
      <3>2. b % 2 = b
        OBVIOUS
      <3> QED BY <2>1, <2>5, <3>1, <3>2 DEF Bit
    <2>9. \A i \in 0 .. (w + 1) - 1 : i = w \/ i \in 0 .. w - 1
      OBVIOUS
    <2>10. \A i \in 0 .. (w + 1) - 1 : Bit(y, i) = 1 <=> i \in S
      BY <2>7, <2>8, <2>9
    <2> QED BY <2>1, <2>6, <2>10
  <1> HIDE DEF Ns
  <1>3. \A w \in Nat : w \in Ns
    BY <1>1, <1>2, SetInduction
  <1> HIDE DEF Good
  <1>4. \A w \in Nat : \A S \in SUBSET (0 .. w - 1) : Good(w, S)
    BY <1>3 DEF Ns
  <1> QED BY <1>4 DEF Good

(* The positions below w of a number's ones. *)
LEMMA BitsOfIs ==
    ASSUME NEW w, NEW n
    PROVE  BitsOf(w, n) = {i \in 0 .. w - 1 : Bit(n, i) = 1}
  BY DEF BitsOf, Bit

(* A number below 2 ^ w is made of P's positions when its ones are there.  *)
LEMMA BuiltOf ==
    ASSUME NEW w \in Nat, NEW n \in 0 .. 2 ^ w - 1, NEW S \in SUBSET (0 .. w - 1),
           \A i \in 0 .. w - 1 : Bit(n, i) = 1 <=> i \in S
    PROVE  n = ValueOf(S)
  <1>1. PICK v \in Int : v = ValueOf(S) /\ v \in 0 .. 2 ^ w - 1
    BY ValueOfBits
  <1>2. \A i \in 0 .. w - 1 : Bit(v, i) = 1 <=> i \in S
    BY <1>1, ValueOfBits
  <1>3. n \in Int
    BY PowerType
  <1>4. ASSUME NEW i \in 0 .. w - 1 PROVE Bit(n, i) = Bit(v, i)
    <2>1. i \in Nat
      OBVIOUS
    <2>2. Bit(n, i) \in {0, 1} /\ Bit(v, i) \in {0, 1}
      BY <1>3, <2>1, BitType
    <2> QED BY <1>2, <2>2
  <1> QED BY <1>1, <1>4, EqualBits

(* Taking a number apart and putting it together again gives its low bits. *)
LEMMA ValueOfBitsOf ==
    ASSUME NEW w \in Nat, NEW n \in Int
    PROVE  ValueOf(BitsOf(w, n)) = n % 2 ^ w
  <1>1. PICK m \in Int : m = n % 2 ^ w /\ m \in 0 .. 2 ^ w - 1
    BY PowerType, DivMod
  <1>2. ASSUME NEW i \in 0 .. w - 1 PROVE Bit(m, i) = 1 <=> i \in BitsOf(w, n)
    <2>1. i \in Nat /\ i < w
      OBVIOUS
    <2>2. Bit(m, i) = Bit(n, i)
      BY <1>1, <2>1, BitTrunc
    <2> QED BY <2>2, BitsOfIs
  <1>3. BitsOf(w, n) \in SUBSET (0 .. w - 1)
    BY BitsOfIs
  <1> QED BY <1>1, <1>2, <1>3, BuiltOf

-----------------------------------------------------------------------------
(* Conversions and shifts. *)

(* The low w bits are a number below 2 ^ w with the same digits there and  *)
(* no others.                                                              *)
LEMMA TruncBits ==
    ASSUME NEW w \in Nat, NEW n \in Int
    PROVE  /\ Trunc(w, n) \in 0 .. 2 ^ w - 1 /\ Trunc(w, n) \in Int
           /\ \A i \in Nat : Bit(Trunc(w, n), i) = IF i < w THEN Bit(n, i) ELSE 0
  <1>1. PICK t \in Int : t = Trunc(w, n) /\ t = n % 2 ^ w /\ t \in 0 .. 2 ^ w - 1
    BY PowerType, DivMod DEF Trunc
  <1>2. ASSUME NEW i \in Nat PROVE Bit(t, i) = IF i < w THEN Bit(n, i) ELSE 0
    <2>1. CASE i < w
      BY <1>1, <2>1, BitTrunc
    <2>2. CASE ~(i < w)
      <3>1. w <= i
        BY <2>2
      <3> QED BY <1>1, <2>2, <3>1, BitHigh
    <2> QED BY <2>1, <2>2
  <1> QED BY <1>1, <1>2

(* The signed value repeats the highest of the w digits above them. *)
LEMMA SignedBits ==
    ASSUME NEW w \in Nat \ {0}, NEW n \in Int
    PROVE  /\ Signed(w, n) \in -(2 ^ (w - 1)) .. 2 ^ (w - 1) - 1 /\ Signed(w, n) \in Int
           /\ Congruent(w, Signed(w, n), n)
           /\ \A i \in Nat : Bit(Signed(w, n), i) = Bit(n, IF i < w THEN i ELSE w - 1)
  <1>1. PICK v \in Nat : v = w - 1 /\ w = v + 1
    <2>1. w - 1 \in Nat /\ w = (w - 1) + 1
      OBVIOUS
    <2> QED BY <2>1
  <1>2. PICK a \in Nat, c \in Nat : a = 2 ^ v /\ a > 0 /\ c = 2 ^ w /\ c = 2 * a
    BY <1>1, PowerType, PowerStep
  <1>3. PICK t \in 0 .. c - 1, d \in Int : t = Trunc(w, n) /\ n = c * d + t
    <2>1. n \div c \in Int /\ n % c \in 0 .. c - 1 /\ n = c * (n \div c) + (n % c)
      BY <1>2, DivMod
    <2> QED BY <1>2, <2>1 DEF Trunc
  <1>4. PICK s \in Int, e \in Int : s = Signed(w, n) /\ s = t + c * e
    <2>1. Signed(w, n) = IF t < a THEN t ELSE t - c
      BY <1>1, <1>2, <1>3 DEF Signed
    <2>2. t = t + c * 0 /\ t - c = t + c * (-1)
      OBVIOUS
    <2> QED BY <2>1, <2>2
  <1>5. s \in -a .. a - 1
    <2>1. s = IF t < a THEN t ELSE t - c
      BY <1>1, <1>2, <1>3, <1>4 DEF Signed
    <2> QED BY <1>2, <2>1
  <1>6. PICK q \in Int : s = n + c * q
    <2>1. c * (e - d) = c * e - c * d
      OBVIOUS
    <2>2. PICK x \in Int, y \in Int : x = c * e /\ y = c * d
      OBVIOUS
    <2>3. s = n + (x - y)
      BY <1>3, <1>4, <2>2
    <2>4. e - d \in Int /\ s = n + c * (e - d)
      BY <2>1, <2>2, <2>3
    <2> QED BY <2>4
  <1>7. ASSUME NEW i \in Nat, i < w PROVE Bit(s, i) = Bit(n, i)
    <2>1. w \in Nat /\ Congruent(w, s, n)
      BY <1>2, <1>6 DEF Congruent
    <2> QED BY <1>7, <2>1, BitCongruent
  <1>8. ASSUME NEW i \in Nat, ~(i < w) PROVE Bit(s, i) = Bit(n, v)
    <2>1. v <= i /\ v <= v /\ v < w
      BY <1>1, <1>8
    <2>2. Bit(s, v) = Bit(n, v)
      BY <1>7, <2>1
    <2>3. CASE s \in 0 .. a - 1
      BY <1>2, <2>1, <2>2, <2>3, BitHigh
    <2>4. CASE s \in -a .. -1
      BY <1>2, <2>1, <2>2, <2>4, BitHigh
    <2>5. s \in 0 .. a - 1 \/ s \in -a .. -1
      BY <1>5
    <2> QED BY <2>3, <2>4, <2>5
  <1>9. \A i \in Nat : Bit(s, i) = Bit(n, IF i < w THEN i ELSE w - 1)
    BY <1>1, <1>7, <1>8
  <1>10. Congruent(w, s, n)
    BY <1>2, <1>6 DEF Congruent
  <1>11. s \in -(2 ^ (w - 1)) .. 2 ^ (w - 1) - 1
    BY <1>1, <1>2, <1>5
  <1> QED BY <1>4, <1>9, <1>10, <1>11

-----------------------------------------------------------------------------
(* The instruction bodies against the manual. *)

(* Widths are positive, words are no wider than registers. *)
LEMMA Widths ==
    /\ BYTE_BITS \in Nat \ {0} /\ WORD_BITS \in Nat \ {0} /\ REG_BITS \in Nat \ {0}
    /\ WORD_BITS <= REG_BITS /\ 2 * WORD_BITS = REG_BITS
  BY HartAssumption DEF WORD_BITS, REG_BITS

(* A wrapped number is the register value with its low digits. *)
LEMMA WrapBits ==
    ASSUME NEW n \in Int
    PROVE  /\ Wrap(n) \in 0 .. 2 ^ REG_BITS - 1 /\ Wrap(n) \in Int
           /\ \A i \in 0 .. REG_BITS - 1 : Bit(Wrap(n), i) = Bit(n, i)
  <1>1. Wrap(n) = Trunc(REG_BITS, n)
    BY DEF Wrap, REG_SIZE, Trunc
  <1>2. \A i \in 0 .. REG_BITS - 1 : i \in Nat /\ i < REG_BITS
    BY Widths
  <1> QED BY <1>1, <1>2, Widths, TruncBits

(* Converting a signed value of w bits to a register is sign extension. *)
LEMMA WrapSigned ==
    ASSUME NEW w \in 1 .. REG_BITS, NEW n \in Int
    PROVE  Wrap(Signed(w, n)) = Sext(w, n)
  <1> DEFINE S == {i \in 0 .. REG_BITS - 1 : Bit(n, IF i < w THEN i ELSE w - 1) = 1}
  <1>1. w \in Nat \ {0} /\ REG_BITS \in Nat
    BY Widths
  <1>2. PICK s \in Int : s = Signed(w, n)
    BY <1>1, SignedBits
  <1>3. ASSUME NEW i \in 0 .. REG_BITS - 1 PROVE Bit(Wrap(s), i) = 1 <=> i \in S
    <2>1. i \in Nat
      BY <1>1
    <2>2. Bit(s, i) = Bit(n, IF i < w THEN i ELSE w - 1)
      BY <1>1, <1>2, <2>1, SignedBits
    <2> QED BY <2>2, WrapBits
  <1>4. Wrap(s) \in 0 .. 2 ^ REG_BITS - 1 /\ S \in SUBSET (0 .. REG_BITS - 1)
    BY WrapBits
  <1>5. Wrap(s) = ValueOf(S)
    BY <1>1, <1>3, <1>4, BuiltOf
  <1>6. Sext(w, n) = ValueOf(S)
    BY DEF Sext, Built
  <1> QED BY <1>2, <1>5, <1>6

(* Operands. *)
RegsOK == regs[1] \in RegValues /\ regs[2] \in RegValues /\ pc \in RegValues

(* A register holds a number of REG_BITS digits. *)
LEMMA RegNumbers ==
    ASSUME NEW a \in RegValues
    PROVE  a \in 0 .. 2 ^ REG_BITS - 1 /\ a \in Int /\ a = Wrap(a)
  <1>1. PICK c \in Nat : c = 2 ^ REG_BITS /\ c > 0
    BY Widths, PowerType
  <1>2. a \in 0 .. c - 1 /\ a = c * 0 + a /\ a \in Int
    BY <1>1 DEF RegValues, REG_SIZE
  <1>3. a = a % c
    BY <1>1, <1>2, DivModUnique
  <1> QED BY <1>1, <1>2, <1>3 DEF Wrap, REG_SIZE

(* The conversion of a word to a register is the manual's sign extension,  *)
(* and it does not matter when the word is cut.                            *)
LEMMA SextWordIs ==
    ASSUME NEW n \in Int
    PROVE  SextWord(n) = Sext(WORD_BITS, n)
  <1>1. WORD_BITS \in 1 .. REG_BITS
    BY Widths
  <1> QED BY <1>1, WrapSigned DEF SextWord

(* Sign extension looks at the low digits only. *)
LEMMA SextEqual ==
    ASSUME NEW w \in 1 .. REG_BITS, NEW m \in Int, NEW n \in Int,
           \A i \in 0 .. w - 1 : Bit(m, i) = Bit(n, i)
    PROVE  Sext(w, m) = Sext(w, n)
  <1> DEFINE low(i) == IF i < w THEN i ELSE w - 1
  <1>1. \A i \in 0 .. REG_BITS - 1 : low(i) \in 0 .. w - 1
    BY Widths
  <1>2. \A i \in 0 .. REG_BITS - 1 : Bit(m, low(i)) = Bit(n, low(i))
    BY <1>1
  <1>3. {i \in 0 .. REG_BITS - 1 : Bit(m, low(i)) = 1}
            = {i \in 0 .. REG_BITS - 1 : Bit(n, low(i)) = 1}
    BY <1>2
  <1> QED BY <1>3 DEF Sext, Built

(* So it may be given the low bits. *)
LEMMA SextTrunc ==
    ASSUME NEW w \in 1 .. REG_BITS, NEW n \in Int
    PROVE  n % 2 ^ w \in Int /\ Sext(w, n % 2 ^ w) = Sext(w, n)
  <1>1. w \in Nat
    BY Widths
  <1>2. \A i \in 0 .. w - 1 : i \in Nat /\ i < w
    BY <1>1
  <1>3. n % 2 ^ w \in Int
    BY <1>1, PowerType, DivMod
  <1>4. \A i \in 0 .. w - 1 : Bit(n % 2 ^ w, i) = Bit(n, i)
    BY <1>1, <1>2, BitTrunc
  <1> QED BY <1>3, <1>4, SextEqual

(* A sum modulo the register size, cut to a word, is the sum cut to a      *)
(* word.                                                                   *)
LEMMA WordOfReg ==
    ASSUME NEW m \in Int, NEW n \in Int, Congruent(REG_BITS, m, n)
    PROVE  Sext(WORD_BITS, m) = Sext(WORD_BITS, n)
  <1>1. WORD_BITS \in 1 .. REG_BITS /\ REG_BITS \in Nat
    BY Widths
  <1>2. \A i \in 0 .. WORD_BITS - 1 : i \in Nat /\ i < REG_BITS
    BY <1>1
  <1>3. \A i \in 0 .. WORD_BITS - 1 : Bit(m, i) = Bit(n, i)
    BY <1>1, <1>2, BitCongruent
  <1> QED BY <1>1, <1>3, SextEqual

-----------------------------------------------------------------------------
(* Comparisons: the manual's order on signed numbers is the order of the   *)
(* numbers with the sign bit flipped.                                      *)
LEMMA BiasIs ==
    ASSUME NEW a \in RegValues
    PROVE  /\ Bias(a) = Signed(REG_BITS, a) + 2 ^ (REG_BITS - 1)
           /\ Signed(REG_BITS, a) \in Int /\ 2 ^ (REG_BITS - 1) \in Int
  <1> DEFINE S == {i \in 0 .. REG_BITS - 1 : (Bit(a, i) = 1) # (i = REG_BITS - 1)}
  <1>1. a \in Int /\ REG_BITS \in Nat \ {0}
    BY RegNumbers, Widths
  <1>2. PICK v \in Nat : v = REG_BITS - 1 /\ REG_BITS = v + 1
    <2>1. REG_BITS - 1 \in Nat /\ REG_BITS = (REG_BITS - 1) + 1
      BY <1>1
    <2> QED BY <2>1
  <1>3. PICK c \in Nat : c = 2 ^ v /\ c > 0 /\ 2 ^ REG_BITS = 2 * c
    BY <1>2, PowerType, PowerStep
  <1>4. PICK s \in Int : s = Signed(REG_BITS, a) /\ s \in -c .. c - 1
    BY <1>1, <1>2, <1>3, SignedBits
  <1>5. \A i \in Nat : i <= v => Bit(s, i) = Bit(a, i)
    <2>1. \A i \in Nat : i <= v => i < REG_BITS
      BY <1>2
    <2> QED BY <1>1, <1>4, <2>1, SignedBits
  <1>6. PICK n \in Int : n = s + c /\ n \in 0 .. 2 * c - 1
    BY <1>4
  <1>7. ASSUME NEW i \in 0 .. REG_BITS - 1 PROVE Bit(n, i) = 1 <=> i \in S
    <2>1. i \in Nat /\ i <= v
      BY <1>2
    <2>2. CASE i < v
      <3>1. n = s + c * 1 /\ 1 \in Int
        BY <1>6
      <3>2. Bit(n, i) = Bit(s, i)
        <4>1. Congruent(v, n, s)
          BY <1>3, <3>1 DEF Congruent
        <4> QED BY <2>1, <2>2, <4>1, BitCongruent
      <3>3. Bit(n, i) = Bit(a, i)
        BY <1>5, <2>1, <3>2
      <3>4. i # REG_BITS - 1
        BY <1>2, <2>2
      <3> QED BY <3>3, <3>4
    <2>3. CASE i = v
      <3>1. v <= v /\ i = REG_BITS - 1 /\ Bit(s, v) = Bit(a, v)
        BY <1>2, <1>5, <2>3
      <3>2. CASE s < 0
        <4>1. s \in -c .. -1 /\ n \in 0 .. c - 1
          BY <1>4, <1>6, <3>2
        <4>2. Bit(s, v) = 1 /\ Bit(n, v) = 0
          BY <1>3, <3>1, <4>1, BitHigh
        <4> QED BY <2>3, <3>1, <4>2
      <3>3. CASE ~(s < 0)
        <4>1. s \in 0 .. c - 1 /\ n = c * 1 + s /\ 1 \in Int
          BY <1>4, <1>6, <3>3
        <4>2. Bit(s, v) = 0
          BY <1>3, <3>1, <4>1, BitHigh
        <4>3. 1 = n \div c
          BY <1>3, <4>1, DivModUnique
        <4>4. Bit(n, v) = 1
          <5>1. 1 % 2 = 1
            OBVIOUS
          <5> QED BY <1>3, <4>3, <5>1 DEF Bit
        <4> QED BY <2>3, <3>1, <4>2, <4>4
      <3> QED BY <3>2, <3>3
    <2> QED BY <2>1, <2>2, <2>3
  <1>8. n = ValueOf(S)
    <2>1. n \in 0 .. 2 ^ REG_BITS - 1 /\ S \in SUBSET (0 .. REG_BITS - 1)
      BY <1>3, <1>6
    <2> QED BY <1>1, <1>7, <2>1, BuiltOf
  <1>9. Bias(a) = ValueOf(S)
    BY DEF Bias, Built
  <1> QED BY <1>2, <1>3, <1>4, <1>6, <1>8, <1>9

(* It is the order that the handlers' comparison of int64_t gives. *)
LEMMA SignedOrder ==
    ASSUME NEW a \in RegValues, NEW b \in RegValues
    PROVE  /\ LessSigned(a, b) <=> Bias(a) < Bias(b)
           /\ ~LessSigned(a, b) <=> Bias(a) >= Bias(b)
  <1>1. PICK s \in Int, t \in Int, c \in Int :
            s = Signed(REG_BITS, a) /\ t = Signed(REG_BITS, b) /\ c = 2 ^ (REG_BITS - 1)
    BY BiasIs
  <1>2. Bias(a) = s + c /\ Bias(b) = t + c
    BY <1>1, BiasIs
  <1> QED BY <1>1, <1>2 DEF LessSigned

(* Equal registers are equal bit by bit. *)
LEMMA RegsEqual ==
    ASSUME NEW a \in RegValues, NEW b \in RegValues
    PROVE  a = b <=> \A i \in 0 .. REG_BITS - 1 : Bit(a, i) = Bit(b, i)
  BY RegNumbers, Widths, EqualBits

-----------------------------------------------------------------------------
(* Shifts. *)

(* getBitField returns the field's digits.  Above them it may leave others *)
(* when the type is narrower than int, and leaves none when it is not.     *)
LEMMA FieldBits ==
    ASSUME NEW w \in Nat, NEW hi \in 0 .. w - 1, NEW lo \in 0 .. hi, NEW v \in Int
    PROVE  /\ getBitField(w, hi, lo, v) \in 0 .. 2 ^ w - 1
           /\ getBitField(w, hi, lo, v) \in Int
           /\ \A i \in 0 .. hi - lo : Bit(getBitField(w, hi, lo, v), i) = Bit(v, i + lo)
           /\ w >= INT_BITS => \A i \in Nat : i > hi - lo => Bit(getBitField(w, hi, lo, v), i) = 0
  <1>1. PICK left \in Nat, P \in Nat : left = w - hi - 1 /\ P = Promoted(w) /\ P >= w
                                       /\ (w >= INT_BITS => P = w)
    BY BitsAssumption DEF Promoted
  <1>2. PICK m \in Int : m = v * 2 ^ left
    BY BitMultiply
  <1>3. PICK t \in Int : t = Trunc(P, m)
    BY <1>1, TruncBits
  <1>4. PICK k \in Nat : k = left + lo
    OBVIOUS
  <1>5. PICK d \in Int : d = t \div 2 ^ k
    BY BitDiv
  <1>6. PICK g \in Int : g = Trunc(w, d) /\ g \in 0 .. 2 ^ w - 1
    BY TruncBits
  <1>7. getBitField(w, hi, lo, v) = g
    BY <1>1, <1>2, <1>3, <1>4, <1>5, <1>6 DEF getBitField
  <1>8. ASSUME NEW i \in Nat, i < w
        PROVE  Bit(g, i) = IF i + k < P THEN Bit(v, i + lo) ELSE 0
    <2>1. PICK j \in Nat : j = i + k
      OBVIOUS
    <2>2. Bit(g, i) = Bit(d, i)
      BY <1>6, <1>8, TruncBits
    <2>3. Bit(d, i) = Bit(t, j)
      BY <1>5, <2>1, BitDiv
    <2>4. Bit(t, j) = IF j < P THEN Bit(m, j) ELSE 0
      BY <1>3, TruncBits
    <2>5. ~(j < left) /\ j - left = i + lo
      BY <1>4, <2>1
    <2>6. Bit(v * 2 ^ left, j) = IF j < left THEN 0 ELSE Bit(v, j - left)
      BY BitMultiply
    <2>7. Bit(m, j) = Bit(v, i + lo)
      BY <1>2, <2>5, <2>6
    <2> QED BY <2>1, <2>2, <2>3, <2>4, <2>7
  <1>9. ASSUME NEW i \in 0 .. hi - lo PROVE Bit(g, i) = Bit(v, i + lo)
    <2>1. i \in Nat /\ i < w /\ i + k < P
      BY <1>1, <1>4
    <2> QED BY <1>8, <2>1
  <1>10. ASSUME w >= INT_BITS, NEW i \in Nat, i > hi - lo PROVE Bit(g, i) = 0
    <2>1. CASE i < w
      <3>1. ~(i + k < P)
        BY <1>1, <1>4, <1>10
      <3> QED BY <1>8, <2>1, <3>1
    <2>2. CASE ~(i < w)
      BY <1>6, <2>2, TruncBits
    <2> QED BY <2>1, <2>2
  <1> QED BY <1>6, <1>7, <1>9, <1>10

(* The count in a register: whatever maskBits leaves above it is cut when  *)
(* the shift takes it modulo the width.                                    *)
LEMMA RegShiftIs ==
    ASSUME NEW hi \in {SHIFT_HI, SHIFTW_HI}, NEW b \in Int
    PROVE  /\ RegShift(hi, b) \in Int
           /\ RegShift(hi, b) % 2 ^ (hi + 1) = b % 2 ^ (hi + 1)
  <1>1. COUNT_BITS \in Nat /\ hi \in 0 .. COUNT_BITS - 1 /\ 0 \in 0 .. hi /\ hi + 1 \in Nat
    BY HartAssumption
  <1>2. PICK v \in Int : v = Trunc(COUNT_BITS, b)
    BY <1>1, TruncBits
  <1>3. PICK g \in Int : g = getBitField(COUNT_BITS, hi, 0, v)
    BY <1>1, FieldBits
  <1>4. PICK m \in Int : m = g * 2 ^ 0
    BY BitMultiply
  <1>5. PICK r \in Int : r = RegShift(hi, b) /\ r = Trunc(COUNT_BITS, m)
    BY <1>1, <1>2, <1>3, <1>4, TruncBits DEF RegShift, maskBits
  <1>6. ASSUME NEW i \in 0 .. (hi + 1) - 1 PROVE Bit(r, i) = Bit(b, i)
    <2>1. i \in Nat /\ i < COUNT_BITS /\ i \in 0 .. hi - 0 /\ i + 0 = i
      BY <1>1
    <2>2. m = g
      <3>1. 2 ^ 0 = 1 /\ g * 1 = g
        OBVIOUS
      <3> QED BY <1>4, <3>1
    <2>3. Bit(g, i) = Bit(v, i + 0)
      BY <1>1, <1>3, <2>1, FieldBits
    <2>4. Bit(r, i) = Bit(m, i) /\ Bit(v, i) = Bit(b, i)
      BY <1>1, <1>2, <1>5, <2>1, TruncBits
    <2> QED BY <2>1, <2>2, <2>3, <2>4
  <1>7. r % 2 ^ (hi + 1) = b % 2 ^ (hi + 1)
    BY <1>1, <1>6, SameBits
  <1> QED BY <1>5, <1>7

(* A number is less than its power of two. *)
LEMMA PowerGreater ==
    \A n \in Nat : n < 2 ^ n
  <1> DEFINE Ns == {n \in Nat : n < 2 ^ n}
  <1>1. 0 \in Ns
    <2>1. 2 ^ 0 = 1
      OBVIOUS
    <2> QED BY <2>1
  <1>2. ASSUME NEW n \in Nat, n \in Ns PROVE n + 1 \in Ns
    <2>1. PICK a \in Nat : a = 2 ^ n /\ 2 ^ (n + 1) = 2 * a
      BY PowerType, PowerStep
    <2> QED BY <1>2, <2>1
  <1> HIDE DEF Ns
  <1>3. \A n \in Nat : n \in Ns
    BY <1>1, <1>2, SetInduction
  <1> QED BY <1>3 DEF Ns

(* A shift count has fewer bits than a word. *)
LEMMA CountsFit ==
    ASSUME NEW hi \in {SHIFT_HI, SHIFTW_HI}
    PROVE  hi \in Nat /\ hi < WORD_BITS
  <1>1. SHIFT_HI \in Nat /\ SHIFTW_HI \in Nat
    BY HartAssumption
  <1>2. 2 * 2 ^ SHIFT_HI = REG_BITS /\ 2 * 2 ^ SHIFTW_HI = WORD_BITS
    BY <1>1, HartAssumption, PowerStep
  <1>3. PICK a \in Nat, b \in Nat : a = 2 ^ SHIFT_HI /\ b = 2 ^ SHIFTW_HI
    BY <1>1, PowerType
  <1>4. SHIFT_HI < a /\ SHIFTW_HI < b
    BY <1>1, <1>3, PowerGreater
  <1> QED BY <1>1, <1>2, <1>3, <1>4, Widths

(* The count in an immediate: sign extension does not reach it. *)
LEMMA ImmShiftIs ==
    ASSUME NEW hi \in {SHIFT_HI, SHIFTW_HI}, NEW m \in Int
    PROVE  Sext(WORD_BITS, m) % 2 ^ (hi + 1) = m % 2 ^ (hi + 1)
  <1>1. hi \in Nat /\ hi < WORD_BITS /\ WORD_BITS \in 1 .. REG_BITS /\ hi + 1 \in Nat
        /\ WORD_BITS \in Nat \ {0}
    BY CountsFit, Widths
  <1>2. PICK s \in Int : s = Signed(WORD_BITS, m)
    BY <1>1, SignedBits
  <1>3. PICK x \in Int : x = Sext(WORD_BITS, m) /\ x = Wrap(s)
    BY <1>1, <1>2, WrapSigned, WrapBits
  <1>4. ASSUME NEW i \in 0 .. (hi + 1) - 1 PROVE Bit(x, i) = Bit(m, i)
    <2>1. i \in Nat /\ i < WORD_BITS /\ i \in 0 .. REG_BITS - 1
      BY <1>1, Widths
    <2>2. Bit(s, i) = Bit(m, i)
      BY <1>1, <1>2, <2>1, SignedBits
    <2> QED BY <1>3, <2>1, <2>2, WrapBits
  <1> QED BY <1>1, <1>3, <1>4, SameBits

(* Two digits that are one together are equal. *)
LEMMA DigitsEqual ==
    ASSUME NEW m \in Int, NEW n \in Int, NEW i \in Nat, Bit(m, i) = 1 <=> Bit(n, i) = 1
    PROVE  Bit(m, i) = Bit(n, i)
  BY BitType

(* m and n have the same digits below w. *)
SameDigits(w, m, n) == \A i \in 0 .. w - 1 : Bit(m, i) = Bit(n, i)

(* s has the digits of n below w, and the fill above. *)
Filled(w, n, fill, s) == \A i \in Nat : Bit(s, i) = IF i < w THEN Bit(n, i) ELSE fill

(* The manual's left shift, in a register and in a word of it. *)
LEMMA LeftBits ==
    ASSUME NEW w \in 1 .. REG_BITS, NEW n \in Int, NEW c \in Nat,
           NEW m \in Int, m = n * 2 ^ c
    PROVE  /\ Left(w, n, c) \in 0 .. 2 ^ REG_BITS - 1 /\ Left(w, n, c) \in Int
           /\ SameDigits(w, Left(w, n, c), m)
  <1> DEFINE S == {i \in 0 .. REG_BITS - 1 : i < w /\ i >= c /\ Bit(n, i - c) = 1}
  <1>1. REG_BITS \in Nat /\ S \in SUBSET (0 .. REG_BITS - 1)
    BY Widths
  <1>2. PICK v \in Int : v = Left(w, n, c) /\ v = ValueOf(S) /\ v \in 0 .. 2 ^ REG_BITS - 1
    BY <1>1, ValueOfBits DEF Left, Built
  <1>3. \A i \in 0 .. REG_BITS - 1 : i \in Nat /\ (Bit(v, i) = 1 <=> i \in S)
    BY <1>1, <1>2, ValueOfBits
  <1>4. ASSUME NEW i \in 0 .. w - 1 PROVE Bit(v, i) = Bit(m, i)
    <2>1. i \in Nat /\ i \in 0 .. REG_BITS - 1 /\ i < w
      BY <1>1
    <2>2. Bit(m, i) = IF i < c THEN 0 ELSE Bit(n, i - c)
      BY <2>1, BitMultiply
    <2>3. Bit(v, i) = 1 <=> Bit(m, i) = 1
      BY <1>3, <2>1, <2>2
    <2> QED BY <2>1, <2>3, DigitsEqual
  <1> QED BY <1>2, <1>4 DEF SameDigits

(* The manual's right shift, of n as a number s that has n's digits below  *)
(* w and the fill above.                                                   *)
LEMMA RightBits ==
    ASSUME NEW w \in 1 .. REG_BITS, NEW n \in Int, NEW c \in Nat, NEW fill \in {0, 1},
           NEW s \in Int, Filled(w, n, fill, s), NEW m \in Int, m = s \div 2 ^ c
    PROVE  /\ Right(w, n, c, fill) \in 0 .. 2 ^ REG_BITS - 1
           /\ Right(w, n, c, fill) \in Int
           /\ SameDigits(w, Right(w, n, c, fill), m)
  <1> DEFINE S == {i \in 0 .. REG_BITS - 1 :
                      i < w /\ (IF i + c < w THEN Bit(n, i + c) ELSE fill) = 1}
  <1>1. REG_BITS \in Nat /\ S \in SUBSET (0 .. REG_BITS - 1)
    BY Widths
  <1>2. PICK v \in Int : v = Right(w, n, c, fill) /\ v = ValueOf(S) /\ v \in 0 .. 2 ^ REG_BITS - 1
    BY <1>1, ValueOfBits DEF Right, Built
  <1>3. \A i \in 0 .. REG_BITS - 1 : i \in Nat /\ (Bit(v, i) = 1 <=> i \in S)
    BY <1>1, <1>2, ValueOfBits
  <1>4. ASSUME NEW i \in 0 .. w - 1 PROVE Bit(v, i) = Bit(m, i)
    <2>1. i \in Nat /\ i \in 0 .. REG_BITS - 1 /\ i < w
      BY <1>1
    <2>2. PICK j \in Nat : j = i + c
      BY <2>1
    <2>3. Bit(m, i) = Bit(s, j)
      BY <2>1, <2>2, BitDiv
    <2>4. Bit(s, j) = IF j < w THEN Bit(n, j) ELSE fill
      BY DEF Filled
    <2>5. Bit(v, i) = 1 <=> Bit(m, i) = 1
      BY <1>3, <2>1, <2>2, <2>3, <2>4
    <2> QED BY <2>1, <2>5, DigitsEqual
  <1> QED BY <1>2, <1>4 DEF SameDigits

(* 64-bit shifts: SLL, SRL and SRA. *)
LEMMA RegShifts ==
    ASSUME NEW a \in RegValues, NEW c \in Nat
    PROVE  /\ Wrap(a * 2 ^ c) = Left(REG_BITS, a, c)
           /\ a \div 2 ^ c = Right(REG_BITS, a, c, 0)
           /\ Wrap(Signed(REG_BITS, a) \div 2 ^ c)
                  = Right(REG_BITS, a, c, Bit(a, REG_BITS - 1))
  <1>1. a \in Int /\ a \in 0 .. 2 ^ REG_BITS - 1 /\ REG_BITS \in Nat \ {0}
        /\ REG_BITS \in 1 .. REG_BITS /\ REG_BITS - 1 \in Nat
    BY RegNumbers, Widths
  <1>2. Wrap(a * 2 ^ c) = Left(REG_BITS, a, c)
    <2>1. PICK m \in Int : m = a * 2 ^ c
      BY <1>1, BitMultiply
    <2>2. /\ Left(REG_BITS, a, c) \in 0 .. 2 ^ REG_BITS - 1
          /\ SameDigits(REG_BITS, Left(REG_BITS, a, c), m)
      BY <1>1, <2>1, LeftBits
    <2>3. Wrap(m) \in 0 .. 2 ^ REG_BITS - 1
          /\ \A i \in 0 .. REG_BITS - 1 : Bit(Wrap(m), i) = Bit(m, i)
      BY WrapBits
    <2>4. \A i \in 0 .. REG_BITS - 1 : Bit(Wrap(m), i) = Bit(Left(REG_BITS, a, c), i)
      BY <2>2, <2>3 DEF SameDigits
    <2> QED BY <1>1, <2>1, <2>2, <2>3, <2>4, EqualBits
  <1>3. Filled(REG_BITS, a, 0, a)
    <2>1. ASSUME NEW i \in Nat, ~(i < REG_BITS) PROVE Bit(a, i) = 0
      <3>1. REG_BITS <= i
        BY <1>1, <2>1
      <3> QED BY <1>1, <3>1, BitHigh
    <2> QED BY <2>1 DEF Filled
  <1>4. a \div 2 ^ c = Right(REG_BITS, a, c, 0)
    <2>1. PICK m \in Int : m = a \div 2 ^ c
      BY <1>1, BitDiv
    <2>2. /\ SameDigits(REG_BITS, Right(REG_BITS, a, c, 0), m)
          /\ Right(REG_BITS, a, c, 0) \in 0 .. 2 ^ REG_BITS - 1
      <3>1. 0 \in {0, 1}
        OBVIOUS
      <3> QED BY <1>1, <1>3, <2>1, <3>1, RightBits
    <2>3. m \in 0 .. 2 ^ REG_BITS - 1
      <3>1. PICK p \in Nat : p = 2 ^ REG_BITS
        BY <1>1, PowerType
      <3>2. a \in Nat /\ a \in 0 .. p - 1
        BY <1>1, <3>1
      <3>3. m \in 0 .. a
        BY <2>1, <3>2, PowerType, DivBound
      <3> QED BY <3>1, <3>2, <3>3
    <2> QED BY <1>1, <2>1, <2>2, <2>3, EqualBits DEF SameDigits
  <1>5. Wrap(Signed(REG_BITS, a) \div 2 ^ c) = Right(REG_BITS, a, c, Bit(a, REG_BITS - 1))
    <2>1. PICK s \in Int : s = Signed(REG_BITS, a)
      BY <1>1, SignedBits
    <2>2. PICK fill \in {0, 1} : fill = Bit(a, REG_BITS - 1)
      BY <1>1, BitType
    <2>3. Filled(REG_BITS, a, fill, s)
      BY <1>1, <2>1, <2>2, SignedBits DEF Filled
    <2>4. PICK m \in Int : m = s \div 2 ^ c
      BY BitDiv
    <2>5. PICK x \in Int : x = Right(REG_BITS, a, c, fill) /\ x \in 0 .. 2 ^ REG_BITS - 1
                           /\ SameDigits(REG_BITS, x, m)
      BY <1>1, <2>3, <2>4, RightBits
    <2>6. \A i \in 0 .. REG_BITS - 1 : Bit(x, i) = Bit(m, i)
      BY <2>5 DEF SameDigits
    <2>7. Wrap(m) \in 0 .. 2 ^ REG_BITS - 1
          /\ \A i \in 0 .. REG_BITS - 1 : Bit(Wrap(m), i) = Bit(m, i)
      BY WrapBits
    <2>8. Wrap(m) = x
      BY <1>1, <2>5, <2>6, <2>7, EqualBits
    <2> QED BY <2>1, <2>2, <2>4, <2>5, <2>8
  <1> QED BY <1>2, <1>4, <1>5

(* 32-bit shifts: SLLW, SRLW and SRAW. *)
LEMMA WordShifts ==
    ASSUME NEW a \in RegValues, NEW c \in Nat
    PROVE  /\ SextWord(Trunc(WORD_BITS, a) * 2 ^ c) = Sext(WORD_BITS, Left(WORD_BITS, a, c))
           /\ SextWord(Trunc(WORD_BITS, a) \div 2 ^ c)
                  = Sext(WORD_BITS, Right(WORD_BITS, a, c, 0))
           /\ SextWord(Signed(WORD_BITS, a) \div 2 ^ c)
                  = Sext(WORD_BITS, Right(WORD_BITS, a, c, Bit(a, WORD_BITS - 1)))
  <1>1. a \in Int /\ WORD_BITS \in Nat \ {0} /\ WORD_BITS \in 1 .. REG_BITS
        /\ WORD_BITS - 1 \in Nat
    BY RegNumbers, Widths
  <1>2. PICK t \in Int : t = Trunc(WORD_BITS, a)
    BY <1>1, TruncBits
  <1>3. Filled(WORD_BITS, a, 0, t)
    BY <1>1, <1>2, TruncBits DEF Filled
  <1>4. SextWord(t * 2 ^ c) = Sext(WORD_BITS, Left(WORD_BITS, a, c))
    <2>1. PICK m \in Int, k \in Int : m = t * 2 ^ c /\ k = a * 2 ^ c
      BY <1>1, BitMultiply
    <2>2. PICK x \in Int : x = Left(WORD_BITS, a, c) /\ SameDigits(WORD_BITS, x, k)
      BY <1>1, <2>1, LeftBits
    <2>3. \A i \in 0 .. WORD_BITS - 1 : Bit(x, i) = Bit(k, i)
      BY <2>2 DEF SameDigits
    <2>4. ASSUME NEW i \in 0 .. WORD_BITS - 1 PROVE Bit(m, i) = Bit(k, i)
      <3>1. i \in Nat /\ i < WORD_BITS
        BY <1>1
      <3>2. /\ Bit(t * 2 ^ c, i) = IF i < c THEN 0 ELSE Bit(t, i - c)
            /\ Bit(a * 2 ^ c, i) = IF i < c THEN 0 ELSE Bit(a, i - c)
        BY <1>1, <3>1, BitMultiply
      <3>3. ~(i < c) => i - c \in Nat /\ i - c < WORD_BITS
        BY <1>1, <3>1
      <3>4. ~(i < c) => Bit(t, i - c) = Bit(a, i - c)
        BY <1>3, <3>3 DEF Filled
      <3> QED BY <2>1, <3>2, <3>4
    <2>5. Sext(WORD_BITS, m) = Sext(WORD_BITS, x)
      BY <1>1, <2>3, <2>4, SextEqual
    <2> QED BY <2>1, <2>2, <2>5, SextWordIs
  <1>5. ASSUME NEW s \in Int, NEW fill \in {0, 1},
               Filled(WORD_BITS, a, fill, s)
        PROVE  SextWord(s \div 2 ^ c) = Sext(WORD_BITS, Right(WORD_BITS, a, c, fill))
    <2>1. PICK m \in Int : m = s \div 2 ^ c
      BY BitDiv
    <2>2. PICK x \in Int : x = Right(WORD_BITS, a, c, fill) /\ SameDigits(WORD_BITS, x, m)
      BY <1>1, <1>5, <2>1, RightBits
    <2>3. \A i \in 0 .. WORD_BITS - 1 : Bit(m, i) = Bit(x, i)
      BY <2>2 DEF SameDigits
    <2>4. Sext(WORD_BITS, m) = Sext(WORD_BITS, x)
      BY <1>1, <2>3, SextEqual
    <2> QED BY <2>1, <2>2, <2>4, SextWordIs
  <1>6. SextWord(t \div 2 ^ c) = Sext(WORD_BITS, Right(WORD_BITS, a, c, 0))
    <2>1. 0 \in {0, 1}
      OBVIOUS
    <2> QED BY <1>3, <1>5, <2>1
  <1>7. PICK s \in Int, fill \in {0, 1} : s = Signed(WORD_BITS, a) /\ fill = Bit(a, WORD_BITS - 1)
    BY <1>1, SignedBits, BitType
  <1>8. SextWord(s \div 2 ^ c) = Sext(WORD_BITS, Right(WORD_BITS, a, c, fill))
    <2>1. Filled(WORD_BITS, a, fill, s)
      BY <1>1, <1>7, SignedBits DEF Filled
    <2> QED BY <1>5, <2>1
  <1> QED BY <1>2, <1>4, <1>6, <1>7, <1>8

-----------------------------------------------------------------------------
(* Operands: the handlers' and the manual's second operand, and the shift  *)
(* counts.                                                                 *)
Second(id) == IF id \in ImmIds THEN Wrap(Imm(id, regs)) ELSE regs[2]
ManualSecond(id) == IF id \in ImmIds THEN Sext(WORD_BITS, Imm(id, regs)) ELSE regs[2]
Count(id, w, hi) ==
    ShiftCount(w, IF id \in ShiftImmIds THEN Imm(id, regs) ELSE RegShift(hi, Second(id)))

(* Immediates are integers, operands are register values. *)
LEMMA OperandTypes ==
    ASSUME RegsOK, NEW id
    PROVE  /\ Imm(id, regs) \in Int /\ Second(id) \in RegValues
           /\ regs[1] \in Int /\ regs[2] \in Int /\ pc \in Int
  <1>1. regs[1] \in Int /\ regs[2] \in Int /\ pc \in Int
    BY RegNumbers DEF RegsOK
  <1>2. regs[2] % REG_BITS \in Int /\ regs[2] % WORD_BITS \in Int
    BY <1>1, Widths, DivMod
  <1>3. Signed(WORD_BITS, regs[2]) \in Int
    BY <1>1, Widths, SignedBits
  <1>4. Imm(id, regs) \in Int
    BY <1>2, <1>3 DEF Imm
  <1>5. Wrap(Imm(id, regs)) \in RegValues
    BY <1>4, WrapBits DEF RegValues, REG_SIZE
  <1> QED BY <1>1, <1>4, <1>5 DEF Second, RegsOK

(* A handler converts its immediate to what the manual's sign extension    *)
(* gives.                                                                  *)
LEMMA SecondIs ==
    ASSUME RegsOK, NEW id, id \notin ShiftImmIds
    PROVE  ManualSecond(id) = Second(id)
  <1>1. WORD_BITS \in 1 .. REG_BITS /\ WORD_BITS \in Nat \ {0}
    BY Widths
  <1>2. PICK r \in Int : r = regs[2]
    BY OperandTypes
  <1>3. PICK s \in Int : s = Signed(WORD_BITS, r)
    BY <1>1, SignedBits
  <1>4. Imm(id, regs) = s
    BY <1>2, <1>3 DEF Imm, ShiftImmIds
  <1>5. \A i \in 0 .. WORD_BITS - 1 : Bit(s, i) = Bit(r, i)
    <2>1. \A i \in 0 .. WORD_BITS - 1 : i \in Nat /\ i < WORD_BITS
      BY <1>1
    <2> QED BY <1>1, <1>3, <2>1, SignedBits
  <1>6. Sext(WORD_BITS, s) = Sext(WORD_BITS, r)
    BY <1>1, <1>5, SextEqual
  <1>7. Sext(WORD_BITS, r) = Wrap(s)
    BY <1>1, <1>3, WrapSigned
  <1> QED BY <1>4, <1>6, <1>7 DEF ManualSecond, Second

(* The counts are the manual's: the low bits of the second operand. *)
LEMMA CountIs ==
    ASSUME RegsOK, NEW id
    PROVE  /\ id \in {"SLL", "SRL", "SRA", "SLLI", "SRLI", "SRAI"} =>
                  /\ Count(id, REG_BITS, SHIFT_HI) = ManualSecond(id) % REG_BITS
                  /\ Count(id, REG_BITS, SHIFT_HI) \in Nat
           /\ id \in {"SLLW", "SRLW", "SRAW", "SLLIW", "SRLIW", "SRAIW"} =>
                  /\ Count(id, WORD_BITS, SHIFTW_HI) = ManualSecond(id) % WORD_BITS
                  /\ Count(id, WORD_BITS, SHIFTW_HI) \in Nat
  <1>1. PICK m \in Int, r \in Int : m = Imm(id, regs) /\ r = regs[2]
    BY OperandTypes
  <1>2. ASSUME NEW w, NEW hi \in {SHIFT_HI, SHIFTW_HI}, w \in Nat, w > 0, w = 2 ^ (hi + 1),
               \/ id \in ShiftImmIds
               \/ id \notin ImmIds
        PROVE  Count(id, w, hi) = ManualSecond(id) % w /\ Count(id, w, hi) \in Nat
    <2>1. CASE id \in ShiftImmIds
      <3>1. Sext(WORD_BITS, m) % w = m % w
        BY <1>2, ImmShiftIs
      <3>2. m % w \in Nat
        BY <1>2, DivMod
      <3>3. ManualSecond(id) = Sext(WORD_BITS, m) /\ Count(id, w, hi) = m % w
        BY <1>1, <2>1 DEF ManualSecond, ImmIds, Count, ShiftCount
      <3> QED BY <3>1, <3>2, <3>3
    <2>2. CASE id \notin ImmIds
      <3>1. RegShift(hi, r) % w = r % w
        BY <1>2, RegShiftIs
      <3>2. r % w \in Nat
        BY <1>2, DivMod
      <3>3. ManualSecond(id) = r /\ Count(id, w, hi) = RegShift(hi, r) % w
        BY <1>1, <2>2 DEF ManualSecond, ImmIds, Second, Count, ShiftCount
      <3> QED BY <3>1, <3>2, <3>3
    <2> QED BY <1>2, <2>1, <2>2
  <1>3. REG_BITS \in Nat /\ REG_BITS > 0 /\ WORD_BITS \in Nat /\ WORD_BITS > 0
        /\ REG_BITS = 2 ^ (SHIFT_HI + 1) /\ WORD_BITS = 2 ^ (SHIFTW_HI + 1)
    BY Widths, HartAssumption
  <1>4. ASSUME id \in {"SLL", "SRL", "SRA", "SLLI", "SRLI", "SRAI",
                       "SLLW", "SRLW", "SRAW", "SLLIW", "SRLIW", "SRAIW"}
        PROVE  id \in ShiftImmIds \/ id \notin ImmIds
    BY <1>4 DEF ShiftImmIds, ImmIds
  <1> QED BY <1>2, <1>3, <1>4

-----------------------------------------------------------------------------
(* Bitwise operations are bitwise. *)
LEMMA BitwiseIs ==
    ASSUME NEW a \in RegValues, NEW b \in RegValues
    PROVE  /\ ValueOf(BitsOf(REG_BITS, a) \cap BitsOf(REG_BITS, b))
                  = Built(LAMBDA i : Bit(a, i) + Bit(b, i) = 2)
           /\ ValueOf(BitsOf(REG_BITS, a) \cup BitsOf(REG_BITS, b))
                  = Built(LAMBDA i : Bit(a, i) + Bit(b, i) > 0)
           /\ ValueOf((BitsOf(REG_BITS, a) \cup BitsOf(REG_BITS, b))
                          \ (BitsOf(REG_BITS, a) \cap BitsOf(REG_BITS, b)))
                  = Built(LAMBDA i : Bit(a, i) + Bit(b, i) = 1)
  <1> DEFINE A == BitsOf(REG_BITS, a)
             B == BitsOf(REG_BITS, b)
             D == 0 .. REG_BITS - 1
  <1>1. \A i \in D : Bit(a, i) \in {0, 1} /\ Bit(b, i) \in {0, 1}
    <2>1. \A i \in D : i \in Nat
      BY Widths
    <2> QED BY <2>1, RegNumbers, BitType
  <1>2. A = {i \in D : Bit(a, i) = 1} /\ B = {i \in D : Bit(b, i) = 1}
    BY BitsOfIs
  <1> HIDE DEF A, B, D
  <1>3. A \cap B = {i \in D : Bit(a, i) + Bit(b, i) = 2}
    BY <1>1, <1>2
  <1>4. A \cup B = {i \in D : Bit(a, i) + Bit(b, i) > 0}
    BY <1>1, <1>2
  <1>5. (A \cup B) \ (A \cap B) = {i \in D : Bit(a, i) + Bit(b, i) = 1}
    BY <1>1, <1>2
  <1> QED BY <1>3, <1>4, <1>5 DEF A, B, D, Built

(* What the handlers compute, by instruction. *)
LEMMA AluCases ==
    ASSUME NEW id
    PROVE  LET a  == regs[1]
               b  == Second(id)
               n  == Count(id, REG_BITS, SHIFT_HI)
               nw == Count(id, WORD_BITS, SHIFTW_HI)
               A  == BitsOf(REG_BITS, a)
               B  == BitsOf(REG_BITS, b)
               Is(v) == AluResult(Example(id, regs), regs, pc) = v
           IN  /\ id \in {"ADD", "ADDI"} => Is(Wrap(a + b))
               /\ id = "SUB" => Is(Wrap(a - b))
               /\ id \in {"SLT", "SLTI"} => Is(Bool(LessSigned(a, b)))
               /\ id \in {"SLTU", "SLTIU"} => Is(Bool(a < b))
               /\ id \in {"AND", "ANDI"} => Is(ValueOf(A \cap B))
               /\ id \in {"OR", "ORI"} => Is(ValueOf(A \cup B))
               /\ id \in {"XOR", "XORI"} => Is(ValueOf((A \cup B) \ (A \cap B)))
               /\ id \in {"SLL", "SLLI"} => Is(Wrap(a * 2 ^ n))
               /\ id \in {"SRL", "SRLI"} => Is(a \div 2 ^ n)
               /\ id \in {"SRA", "SRAI"} => Is(Wrap(Signed(REG_BITS, a) \div 2 ^ n))
               /\ id \in {"ADDW", "ADDIW"} => Is(SextWord(a + b))
               /\ id = "SUBW" => Is(SextWord(a - b))
               /\ id \in {"SLLW", "SLLIW"} => Is(SextWord(Trunc(WORD_BITS, a) * 2 ^ nw))
               /\ id \in {"SRLW", "SRLIW"} => Is(SextWord(Trunc(WORD_BITS, a) \div 2 ^ nw))
               /\ id \in {"SRAW", "SRAIW"} => Is(SextWord(Signed(WORD_BITS, a) \div 2 ^ nw))
               /\ id = "LUI" => Is(SextWord(Imm(id, regs)))
  BY DEF AluResult, Example, Instr, Second, Count

(* What the manual computes for them. *)
LEMMA ManualCases ==
    ASSUME NEW id
    PROVE  LET x  == regs[1]
               y  == ManualSecond(id)
               c  == y % REG_BITS
               cw == y % WORD_BITS
               Is(v) == Manual(id, regs, pc) = v
           IN  /\ id \in {"ADD", "ADDI"} => Is((x + y) % REG_SIZE)
               /\ id = "SUB" => Is((REG_SIZE + x - y) % REG_SIZE)
               /\ id \in {"SLT", "SLTI", "BLT"} => Is(Bool(Bias(x) < Bias(y)))
               /\ id \in {"SLTU", "SLTIU", "BLTU"} => Is(Bool(x < y))
               /\ id \in {"AND", "ANDI"} => Is(Built(LAMBDA i : Bit(x, i) + Bit(y, i) = 2))
               /\ id \in {"OR", "ORI"} => Is(Built(LAMBDA i : Bit(x, i) + Bit(y, i) > 0))
               /\ id \in {"XOR", "XORI"} => Is(Built(LAMBDA i : Bit(x, i) + Bit(y, i) = 1))
               /\ id \in {"SLL", "SLLI"} => Is(Left(REG_BITS, x, c))
               /\ id \in {"SRL", "SRLI"} => Is(Right(REG_BITS, x, c, 0))
               /\ id \in {"SRA", "SRAI"} => Is(Right(REG_BITS, x, c, Bit(x, REG_BITS - 1)))
               /\ id \in {"ADDW", "ADDIW"} => Is(Sext(WORD_BITS, (x + y) % WORD_SIZE))
               /\ id = "SUBW" => Is(Sext(WORD_BITS, (REG_SIZE + x - y) % WORD_SIZE))
               /\ id \in {"SLLW", "SLLIW"} => Is(Sext(WORD_BITS, Left(WORD_BITS, x, cw)))
               /\ id \in {"SRLW", "SRLIW"} => Is(Sext(WORD_BITS, Right(WORD_BITS, x, cw, 0)))
               /\ id \in {"SRAW", "SRAIW"} =>
                      Is(Sext(WORD_BITS, Right(WORD_BITS, x, cw, Bit(x, WORD_BITS - 1))))
               /\ id = "LUI" => Is(Sext(WORD_BITS, Imm(id, regs) % WORD_SIZE))
               /\ id = "BEQ" => Is(Bool(\A i \in 0 .. REG_BITS - 1 : Bit(x, i) = Bit(y, i)))
               /\ id = "BNE" => Is(Bool(\E i \in 0 .. REG_BITS - 1 : Bit(x, i) # Bit(y, i)))
               /\ id = "BGE" => Is(Bool(Bias(x) >= Bias(y)))
               /\ id = "BGEU" => Is(Bool(x >= y))
               /\ id \in {"LD", "LW", "LH", "LB"} => Is(Sext(BYTE_BITS * AccessSize(id), x))
               /\ id \in {"LWU", "LHU", "LBU"} => Is(Zext(BYTE_BITS * AccessSize(id), x))
  BY DEF Manual, ManualSecond

-----------------------------------------------------------------------------
(* Arithmetic, comparisons and shifts. *)
LEMMA AluManual ==
    ASSUME RegsOK, NEW id \in AluIds, id # "AUIPC"
    PROVE  AluResult(Example(id, regs), regs, pc) = Manual(id, regs, pc)
  <1>1. PICK a \in RegValues : a = regs[1]
    BY DEF RegsOK
  <1>2. PICK b \in RegValues : b = Second(id)
    BY OperandTypes
  <1>3. a \in Int /\ b \in Int
    BY RegNumbers
  <1>4. WORD_BITS \in 1 .. REG_BITS /\ REG_BITS \in Nat /\ WORD_BITS \in Nat
        /\ WORD_SIZE = 2 ^ WORD_BITS /\ REG_SIZE = 2 ^ REG_BITS
    BY Widths DEF WORD_SIZE, REG_SIZE
  <1>5. id \notin ShiftImmIds => ManualSecond(id) = b
    BY <1>2, SecondIs
  <1>6. CASE id \in {"ADD", "ADDI"}
    BY <1>1, <1>2, <1>5, <1>6, AluCases, ManualCases DEF ShiftImmIds, Wrap
  <1>7. PICK d \in Int, e \in Int : d = a - b /\ e = REG_SIZE + a - b /\ e = d + 2 ^ REG_BITS * 1
    <2>1. REG_SIZE \in Int
      BY <1>4, PowerType
    <2> QED BY <1>3, <1>4, <2>1
  <1>8. Congruent(REG_BITS, e, d)
    BY <1>7 DEF Congruent
  <1>9. CASE id = "SUB"
    <2>1. \A i \in 0 .. REG_BITS - 1 : i \in Nat /\ i < REG_BITS
      BY <1>4
    <2>2. \A i \in 0 .. REG_BITS - 1 : Bit(e, i) = Bit(d, i)
      BY <1>4, <1>8, <2>1, BitCongruent
    <2>3. e % 2 ^ REG_BITS = d % 2 ^ REG_BITS
      BY <1>4, <2>2, SameBits
    <2>4. AluResult(Example(id, regs), regs, pc) = Wrap(d)
      BY <1>1, <1>2, <1>7, <1>9, AluCases
    <2>5. Manual(id, regs, pc) = e % REG_SIZE
      BY <1>1, <1>5, <1>7, <1>9, ManualCases DEF ShiftImmIds
    <2> QED BY <1>4, <2>3, <2>4, <2>5 DEF Wrap
  <1>10. CASE id \in {"SLT", "SLTI"}
    <2>1. LessSigned(a, b) <=> Bias(a) < Bias(b)
      BY SignedOrder
    <2>2. AluResult(Example(id, regs), regs, pc) = Bool(LessSigned(a, b))
      BY <1>1, <1>2, <1>10, AluCases
    <2>3. Manual(id, regs, pc) = Bool(Bias(a) < Bias(b))
      BY <1>1, <1>5, <1>10, ManualCases DEF ShiftImmIds
    <2> QED BY <2>1, <2>2, <2>3 DEF Bool
  <1>11. CASE id \in {"SLTU", "SLTIU"}
    <2>1. AluResult(Example(id, regs), regs, pc) = Bool(a < b)
      BY <1>1, <1>2, <1>11, AluCases
    <2>2. Manual(id, regs, pc) = Bool(a < b)
      BY <1>1, <1>5, <1>11, ManualCases DEF ShiftImmIds
    <2> QED BY <2>1, <2>2
  <1>12. CASE id \in {"AND", "ANDI"}
    <2>1. AluResult(Example(id, regs), regs, pc)
              = ValueOf(BitsOf(REG_BITS, a) \cap BitsOf(REG_BITS, b))
      BY <1>1, <1>2, <1>12, AluCases
    <2>2. Manual(id, regs, pc) = ValueOf({i \in 0 .. REG_BITS - 1 : Bit(a, i) + Bit(b, i) = 2})
      <3>1. Manual(id, regs, pc) = Built(LAMBDA i : Bit(a, i) + Bit(b, i) = 2)
        BY <1>1, <1>5, <1>12, ManualCases DEF ShiftImmIds, Built
      <3> QED BY <3>1 DEF Built
    <2> QED BY <2>1, <2>2, BitwiseIs DEF Built
  <1>13. CASE id \in {"OR", "ORI"}
    <2>1. AluResult(Example(id, regs), regs, pc)
              = ValueOf(BitsOf(REG_BITS, a) \cup BitsOf(REG_BITS, b))
      BY <1>1, <1>2, <1>13, AluCases
    <2>2. Manual(id, regs, pc) = ValueOf({i \in 0 .. REG_BITS - 1 : Bit(a, i) + Bit(b, i) > 0})
      <3>1. Manual(id, regs, pc) = Built(LAMBDA i : Bit(a, i) + Bit(b, i) > 0)
        BY <1>1, <1>5, <1>13, ManualCases DEF ShiftImmIds, Built
      <3> QED BY <3>1 DEF Built
    <2> QED BY <2>1, <2>2, BitwiseIs DEF Built
  <1>14. CASE id \in {"XOR", "XORI"}
    <2>1. AluResult(Example(id, regs), regs, pc)
              = ValueOf((BitsOf(REG_BITS, a) \cup BitsOf(REG_BITS, b))
                     \ (BitsOf(REG_BITS, a) \cap BitsOf(REG_BITS, b)))
      BY <1>1, <1>2, <1>14, AluCases
    <2>2. Manual(id, regs, pc) = ValueOf({i \in 0 .. REG_BITS - 1 : Bit(a, i) + Bit(b, i) = 1})
      <3>1. Manual(id, regs, pc) = Built(LAMBDA i : Bit(a, i) + Bit(b, i) = 1)
        BY <1>1, <1>5, <1>14, ManualCases DEF ShiftImmIds, Built
      <3> QED BY <3>1 DEF Built
    <2> QED BY <2>1, <2>2, BitwiseIs DEF Built
  <1>15. CASE id \in {"SLL", "SLLI", "SRL", "SRLI", "SRA", "SRAI"}
    <2>1. PICK c \in Nat : c = Count(id, REG_BITS, SHIFT_HI) /\ c = ManualSecond(id) % REG_BITS
      BY <1>15, CountIs
    <2>2. /\ Wrap(a * 2 ^ c) = Left(REG_BITS, a, c)
          /\ a \div 2 ^ c = Right(REG_BITS, a, c, 0)
          /\ Wrap(Signed(REG_BITS, a) \div 2 ^ c) = Right(REG_BITS, a, c, Bit(a, REG_BITS - 1))
      BY RegShifts
    <2>3. CASE id \in {"SLL", "SLLI"}
      <3>1. AluResult(Example(id, regs), regs, pc) = Wrap(a * 2 ^ c)
        BY <1>1, <2>1, <2>3, AluCases
      <3>2. Manual(id, regs, pc) = Left(REG_BITS, a, c)
        BY <1>1, <2>1, <2>3, ManualCases
      <3> QED BY <2>2, <3>1, <3>2
    <2>4. CASE id \in {"SRL", "SRLI"}
      <3>1. AluResult(Example(id, regs), regs, pc) = a \div 2 ^ c
        BY <1>1, <2>1, <2>4, AluCases
      <3>2. Manual(id, regs, pc) = Right(REG_BITS, a, c, 0)
        BY <1>1, <2>1, <2>4, ManualCases
      <3> QED BY <2>2, <3>1, <3>2
    <2>5. CASE id \in {"SRA", "SRAI"}
      <3>1. AluResult(Example(id, regs), regs, pc) = Wrap(Signed(REG_BITS, a) \div 2 ^ c)
        BY <1>1, <2>1, <2>5, AluCases
      <3>2. Manual(id, regs, pc) = Right(REG_BITS, a, c, Bit(a, REG_BITS - 1))
        BY <1>1, <2>1, <2>5, ManualCases
      <3> QED BY <2>2, <3>1, <3>2
    <2> QED BY <1>15, <2>3, <2>4, <2>5
  <1>16. CASE id \in {"SLLW", "SLLIW", "SRLW", "SRLIW", "SRAW", "SRAIW"}
    <2>1. PICK c \in Nat : c = Count(id, WORD_BITS, SHIFTW_HI) /\ c = ManualSecond(id) % WORD_BITS
      BY <1>16, CountIs
    <2>2. /\ SextWord(Trunc(WORD_BITS, a) * 2 ^ c) = Sext(WORD_BITS, Left(WORD_BITS, a, c))
          /\ SextWord(Trunc(WORD_BITS, a) \div 2 ^ c)
                 = Sext(WORD_BITS, Right(WORD_BITS, a, c, 0))
          /\ SextWord(Signed(WORD_BITS, a) \div 2 ^ c)
                 = Sext(WORD_BITS, Right(WORD_BITS, a, c, Bit(a, WORD_BITS - 1)))
      BY WordShifts
    <2>3. CASE id \in {"SLLW", "SLLIW"}
      <3>1. AluResult(Example(id, regs), regs, pc) = SextWord(Trunc(WORD_BITS, a) * 2 ^ c)
        BY <1>1, <2>1, <2>3, AluCases
      <3>2. Manual(id, regs, pc) = Sext(WORD_BITS, Left(WORD_BITS, a, c))
        BY <1>1, <2>1, <2>3, ManualCases
      <3> QED BY <2>2, <3>1, <3>2
    <2>4. CASE id \in {"SRLW", "SRLIW"}
      <3>1. AluResult(Example(id, regs), regs, pc) = SextWord(Trunc(WORD_BITS, a) \div 2 ^ c)
        BY <1>1, <2>1, <2>4, AluCases
      <3>2. Manual(id, regs, pc) = Sext(WORD_BITS, Right(WORD_BITS, a, c, 0))
        BY <1>1, <2>1, <2>4, ManualCases
      <3> QED BY <2>2, <3>1, <3>2
    <2>5. CASE id \in {"SRAW", "SRAIW"}
      <3>1. AluResult(Example(id, regs), regs, pc) = SextWord(Signed(WORD_BITS, a) \div 2 ^ c)
        BY <1>1, <2>1, <2>5, AluCases
      <3>2. Manual(id, regs, pc) = Sext(WORD_BITS, Right(WORD_BITS, a, c, Bit(a, WORD_BITS - 1)))
        BY <1>1, <2>1, <2>5, ManualCases
      <3> QED BY <2>2, <3>1, <3>2
    <2> QED BY <1>16, <2>3, <2>4, <2>5
  <1>17. CASE id \in {"ADDW", "ADDIW"}
    <2>1. PICK n \in Int : n = a + b
      BY <1>3
    <2>2. SextWord(n) = Sext(WORD_BITS, n % 2 ^ WORD_BITS)
      BY <1>4, SextWordIs, SextTrunc
    <2>3. AluResult(Example(id, regs), regs, pc) = SextWord(n)
      BY <1>1, <1>2, <1>17, <2>1, AluCases
    <2>4. Manual(id, regs, pc) = Sext(WORD_BITS, n % WORD_SIZE)
      BY <1>1, <1>5, <1>17, <2>1, ManualCases DEF ShiftImmIds
    <2> QED BY <1>4, <2>2, <2>3, <2>4
  <1>18. CASE id = "SUBW"
    <2>1. Sext(WORD_BITS, e % 2 ^ WORD_BITS) = Sext(WORD_BITS, e)
      BY <1>4, SextTrunc
    <2>2. Sext(WORD_BITS, e) = Sext(WORD_BITS, d)
      BY <1>8, WordOfReg
    <2>3. AluResult(Example(id, regs), regs, pc) = SextWord(d)
      BY <1>1, <1>2, <1>7, <1>18, AluCases
    <2>4. Manual(id, regs, pc) = Sext(WORD_BITS, e % WORD_SIZE)
      BY <1>1, <1>5, <1>7, <1>18, ManualCases DEF ShiftImmIds
    <2> QED BY <1>4, <2>1, <2>2, <2>3, <2>4, SextWordIs
  <1>19. CASE id = "LUI"
    <2>1. PICK n \in Int : n = Imm(id, regs)
      BY OperandTypes
    <2>2. SextWord(n) = Sext(WORD_BITS, n % 2 ^ WORD_BITS)
      BY <1>4, SextWordIs, SextTrunc
    <2>3. AluResult(Example(id, regs), regs, pc) = SextWord(n)
      BY <1>19, <2>1, AluCases
    <2>4. Manual(id, regs, pc) = Sext(WORD_BITS, n % WORD_SIZE)
      BY <1>19, <2>1, ManualCases
    <2> QED BY <1>4, <2>2, <2>3, <2>4
  <1> QED BY <1>6, <1>9, <1>10, <1>11, <1>12, <1>13, <1>14, <1>15, <1>16, <1>17, <1>18, <1>19
          DEF AluIds, RegIds, ImmIds, ShiftImmIds

(* Conditions of branches. *)
LEMMA BranchManual ==
    ASSUME RegsOK, NEW id \in BranchIds
    PROVE  Bool(Taken(Example(id, regs), regs)) = Manual(id, regs, pc)
  <1>1. PICK a \in RegValues, b \in RegValues : a = regs[1] /\ b = regs[2]
    BY DEF RegsOK
  <1>2. ManualSecond(id) = b
    BY <1>1 DEF BranchIds, ManualSecond, ImmIds, ShiftImmIds
  <1>3. Example(id, regs).id = id /\ regs[Example(id, regs).rs1] = a /\ regs[Example(id, regs).rs2] = b
    BY <1>1 DEF Example, Instr
  <1>4. a \in Int /\ b \in Int
    BY RegNumbers
  <1>5. CASE id = "BEQ"
    <2>1. Taken(Example(id, regs), regs) <=> a = b
      BY <1>1, <1>3, <1>5 DEF Taken
    <2>2. Manual(id, regs, pc) = Bool(\A i \in 0 .. REG_BITS - 1 : Bit(a, i) = Bit(b, i))
      BY <1>1, <1>2, <1>5, ManualCases
    <2> QED BY <2>1, <2>2, RegsEqual DEF Bool
  <1>6. CASE id = "BNE"
    <2>1. Taken(Example(id, regs), regs) <=> a # b
      BY <1>1, <1>3, <1>6 DEF Taken
    <2>2. Manual(id, regs, pc) = Bool(\E i \in 0 .. REG_BITS - 1 : Bit(a, i) # Bit(b, i))
      BY <1>1, <1>2, <1>6, ManualCases
    <2> QED BY <2>1, <2>2, RegsEqual DEF Bool
  <1>7. CASE id = "BLT"
    BY <1>1, <1>2, <1>3, <1>7, ManualCases, SignedOrder DEF Taken, Bool
  <1>8. CASE id = "BGE"
    BY <1>1, <1>2, <1>3, <1>8, ManualCases, SignedOrder DEF Taken, Bool
  <1>9. CASE id = "BLTU"
    BY <1>1, <1>2, <1>3, <1>4, <1>9, ManualCases DEF Taken, Bool
  <1>10. CASE id = "BGEU"
    BY <1>1, <1>2, <1>3, <1>4, <1>10, ManualCases DEF Taken, Bool
  <1> QED BY <1>5, <1>6, <1>7, <1>8, <1>9, <1>10 DEF BranchIds

(* The low bits of a register are the manual's zero extension. *)
LEMMA ZextIs ==
    ASSUME NEW w \in 1 .. REG_BITS, NEW n \in Int
    PROVE  Trunc(w, n) = Zext(w, n)
  <1> DEFINE S == {i \in 0 .. REG_BITS - 1 : i < w /\ Bit(n, i) = 1}
  <1>1. w \in Nat /\ REG_BITS \in Nat /\ S \in SUBSET (0 .. REG_BITS - 1)
    BY Widths
  <1>2. PICK t \in Int : t = Trunc(w, n) /\ t \in 0 .. 2 ^ w - 1
    BY <1>1, TruncBits
  <1>3. t \in 0 .. 2 ^ REG_BITS - 1
    <2>1. PICK k \in Nat : REG_BITS = w + k
      <3>1. REG_BITS - w \in Nat /\ REG_BITS = w + (REG_BITS - w)
        BY <1>1
      <3> QED BY <3>1
    <2>2. PICK p \in Nat, q \in Nat : p = 2 ^ w /\ q = 2 ^ k /\ q > 0
      BY <1>1, PowerType
    <2>3. 2 ^ REG_BITS = p * q /\ p * q \in Nat /\ p * q >= p
      BY <1>1, <2>1, <2>2, PowerAdd
    <2>4. \A x \in 0 .. p - 1 : x \in 0 .. p * q - 1
      BY <2>3
    <2> QED BY <1>2, <2>2, <2>3, <2>4
  <1>4. ASSUME NEW i \in 0 .. REG_BITS - 1 PROVE Bit(t, i) = 1 <=> i \in S
    <2>1. i \in Nat
      BY <1>1
    <2>2. Bit(t, i) = IF i < w THEN Bit(n, i) ELSE 0
      BY <1>1, <1>2, <2>1, TruncBits
    <2> QED BY <2>2
  <1>5. t = ValueOf(S)
    BY <1>1, <1>3, <1>4, BuiltOf
  <1>6. Zext(w, n) = ValueOf(S)
    BY DEF Zext, Built
  <1> QED BY <1>2, <1>5, <1>6

(* The extension of loaded values. *)
LEMMA LoadManual ==
    ASSUME RegsOK, NEW id \in LoadIds
    PROVE  LoadedValue(id, Trunc(BYTE_BITS * AccessSize(id), regs[1])) = Manual(id, regs, pc)
  <1>1. PICK n \in Int : n = regs[1]
    BY OperandTypes
  <1>2. AccessSize(id) \in {1, 2, 4, 8}
    BY DEF AccessSize, LoadIds
  <1>3. PICK w \in 1 .. REG_BITS : w = BYTE_BITS * AccessSize(id)
    BY <1>2, Widths DEF REG_BITS
  <1>4. w \in Nat \ {0}
    BY Widths
  <1>5. PICK t \in Int : t = Trunc(w, n)
    BY <1>4, TruncBits
  <1>6. CASE id \in {"LD", "LW", "LH", "LB"}
    <2>1. \A i \in 0 .. w - 1 : Bit(t, i) = Bit(n, i)
      <3>1. \A i \in 0 .. w - 1 : i \in Nat /\ i < w
        BY <1>4
      <3> QED BY <1>4, <1>5, <3>1, TruncBits
    <2>2. Sext(w, t) = Sext(w, n)
      BY <2>1, SextEqual
    <2>3. Wrap(Signed(w, t)) = Sext(w, t)
      BY WrapSigned
    <2>4. LoadedValue(id, t) = Wrap(Signed(w, t))
      BY <1>3, <1>6 DEF LoadedValue
    <2>5. Manual(id, regs, pc) = Sext(w, n)
      BY <1>1, <1>3, <1>6, ManualCases
    <2> QED BY <1>1, <1>3, <1>5, <2>2, <2>3, <2>4, <2>5
  <1>7. CASE id \in {"LWU", "LHU", "LBU"}
    <2>1. LoadedValue(id, t) = t
      BY <1>7 DEF LoadedValue
    <2>2. Manual(id, regs, pc) = Zext(w, n)
      BY <1>1, <1>3, <1>7, ManualCases
    <2> QED BY <1>1, <1>3, <1>5, <2>1, <2>2, ZextIs
  <1> QED BY <1>6, <1>7 DEF LoadIds

(* The operands are register values, and do not change. *)
LEMMA RegsInvariant ==
    RefSpec => []RegsOK
  <1>1. RefInit => RegsOK
    <2> SUFFICES ASSUME RefInit PROVE RegsOK
      OBVIOUS
    <2>1. PICK a \in Lefts, b \in Rights :
              regs = [r \in 0 .. 2 |-> IF r = 0 THEN 0 ELSE IF r = 1 THEN a ELSE b]
      BY DEF RefInit
    <2>2. regs[1] = a /\ regs[2] = b
      BY <2>1
    <2> QED BY <2>2, ReferenceAssumption DEF RefInit, RegsOK
  <1>2. RegsOK /\ [Execute]_refVars => RegsOK'
    BY DEF RegsOK, Execute, refVars
  <1> QED BY <1>1, <1>2, PTL DEF RefSpec

(* Every instruction but AUIPC computes what the RISC-V manual says, for   *)
(* every pair of register values and every width: sim_instr.hpp's          *)
(* arithmetic, its comparisons, shifts, conversions and loads.             *)
THEOREM FollowsManualTheorem ==
    RefSpec => []FollowsManual
  <1>1. RefInit => FollowsManual
    BY DEF RefInit, Nothing, FollowsManual
  <1>2. ASSUME RegsOK, FollowsManual, [Execute]_refVars PROVE FollowsManual'
    <2>1. regs' = regs /\ pc' = pc
      BY <1>2 DEF Execute, refVars
    <2>2. CASE UNCHANGED refVars
      BY <1>2, <2>1, <2>2 DEF refVars, FollowsManual
    <2>3. CASE Execute
      <3>1. out' = [id \in AluIds \cup BranchIds \cup LoadIds |-> Computed(id, regs, pc)]
        BY <2>3 DEF Execute
      <3>2. ASSUME NEW id \in DOMAIN out', id # "AUIPC"
            PROVE  out'[id] = Manual(id, regs, pc)
        <4>1. id \in AluIds \cup BranchIds \cup LoadIds /\ out'[id] = Computed(id, regs, pc)
          BY <3>1
        <4>2. CASE id \in AluIds
          <5>1. Computed(id, regs, pc) = AluResult(Example(id, regs), regs, pc)
            BY <4>2 DEF Computed
          <5> QED BY <1>2, <3>2, <4>1, <4>2, <5>1, AluManual
        <4>3. CASE id \in BranchIds
          <5>1. Computed(id, regs, pc) = Bool(Taken(Example(id, regs), regs))
            BY <4>3 DEF Computed, BranchIds, AluIds, RegIds, ImmIds, ShiftImmIds
          <5> QED BY <1>2, <4>1, <4>3, <5>1, BranchManual
        <4>4. CASE id \in LoadIds
          <5>1. Computed(id, regs, pc)
                    = LoadedValue(id, Trunc(BYTE_BITS * AccessSize(id), regs[1]))
            BY <4>4 DEF Computed, LoadIds, BranchIds, AluIds, RegIds, ImmIds, ShiftImmIds
          <5> QED BY <1>2, <4>1, <4>4, <5>1, LoadManual
        <4> QED BY <4>1, <4>2, <4>3, <4>4
      <3> QED BY <2>1, <3>2 DEF FollowsManual
    <2> QED BY <1>2, <2>2, <2>3
  <1> QED BY <1>1, <1>2, RegsInvariant, PTL DEF RefSpec

-----------------------------------------------------------------------------
(* Inserting a field, and the control registers that are made of fields.   *)

(* 2 ^ n - 1 is n ones, with k zeros below when it is shifted.              *)
LEMMA RunOfOnes ==
    ASSUME NEW n \in Nat, NEW k \in Nat, NEW i \in Nat
    PROVE  /\ (2 ^ n - 1) * 2 ^ k \in Int
           /\ Bit((2 ^ n - 1) * 2 ^ k, i) = 1 <=> i \in k .. k + n - 1
  <1>1. PICK a \in Nat : a = 2 ^ n /\ a > 0
    BY PowerType
  <1>2. PICK m \in Int : m = a - 1 /\ m \in 0 .. a - 1
    BY <1>1
  <1>3. m * 2 ^ k \in Int /\ Bit(m * 2 ^ k, i) = IF i < k THEN 0 ELSE Bit(m, i - k)
    BY BitMultiply
  <1>4. ASSUME NEW j \in Nat, j < n PROVE Bit(m, j) = 1
    <2>1. PICK p \in Nat : p = 2 ^ j /\ p > 0
      BY PowerType
    <2>2. -1 = p * (-1) + (p - 1) /\ -1 \in Int /\ p - 1 \in 0 .. p - 1
      BY <2>1
    <2>3. -1 = (-1) \div p
      BY <2>1, <2>2, DivModUnique
    <2>4. Bit(-1, j) = 1
      BY <2>1, <2>3 DEF Bit
    <2>5. m = -1 + a * 1
      BY <1>2
    <2>6. Congruent(n, m, -1)
      BY <1>1, <2>5 DEF Congruent
    <2> QED BY <1>4, <2>4, <2>6, BitCongruent
  <1>5. ASSUME NEW j \in Nat, n <= j PROVE Bit(m, j) = 0
    BY <1>1, <1>2, <1>5, BitHigh
  <1>6. CASE i < k
    BY <1>1, <1>2, <1>3, <1>6
  <1>7. CASE ~(i < k)
    <2>1. PICK j \in Nat : j = i - k
      BY <1>7
    <2>2. i \in k .. k + n - 1 <=> j < n
      BY <1>7, <2>1
    <2> QED BY <1>1, <1>2, <1>3, <1>4, <1>5, <1>7, <2>1, <2>2
  <1> QED BY <1>6, <1>7

(* The mask of a field is the field's bits, also when the field ends where *)
(* the type does and 2 ^ (hi + 1) is lost.                                 *)
LEMMA MaskBits ==
    ASSUME NEW w \in Nat, NEW hi \in 0 .. w - 1, NEW lo \in 0 .. hi,
           NEW mask,
           mask = Trunc(w, (IF hi + 1 = w THEN 0 ELSE 2 ^ (hi + 1)) - 2 ^ lo)
    PROVE  BitsOf(w, mask) = lo .. hi
  <1>1. PICK n \in Nat : n = hi + 1 - lo /\ lo + n = hi + 1 /\ lo \in Nat
    OBVIOUS
  <1>2. PICK b \in Nat, c \in Nat, d \in Nat :
            b = 2 ^ lo /\ c = 2 ^ n /\ d = 2 ^ (hi + 1)
    BY <1>1, PowerType
  <1>3. d = b * c
    BY <1>1, <1>2, PowerAdd
  <1>4. PICK m \in Int : m = (c - 1) * b
    BY <1>2
  <1>5. m = d - b
    BY <1>3, <1>4
  <1>6. PICK x \in Int : x = (IF hi + 1 = w THEN 0 ELSE d) - b
    BY <1>2
  <1>7. Congruent(w, x, m)
    <2>1. CASE hi + 1 = w
      <3>1. x = m + d * (-1) /\ -1 \in Int
        BY <1>5, <1>6, <2>1
      <3> QED BY <1>2, <2>1, <3>1 DEF Congruent
    <2>2. CASE hi + 1 # w
      <3>1. PICK e \in Nat : e = 2 ^ w
        BY PowerType
      <3>2. x = m + e * 0
        BY <1>2, <1>5, <1>6, <2>2, <3>1
      <3> QED BY <3>1, <3>2 DEF Congruent
    <2> QED BY <2>1, <2>2
  <1>8. mask = Trunc(w, x)
    BY <1>2, <1>6
  <1>9. ASSUME NEW i \in 0 .. w - 1 PROVE Bit(mask, i) = 1 <=> i \in lo .. hi
    <2>1. i \in Nat /\ i < w
      OBVIOUS
    <2>2. Bit(mask, i) = Bit(x, i)
      BY <1>8, <2>1, TruncBits
    <2>3. Bit(x, i) = Bit(m, i)
      BY <1>7, <2>1, BitCongruent
    <2>4. Bit(m, i) = 1 <=> i \in lo .. lo + n - 1
      BY <1>1, <1>2, <1>4, <2>1, RunOfOnes
    <2>5. lo .. lo + n - 1 = lo .. hi
      BY <1>1
    <2> QED BY <2>2, <2>3, <2>4, <2>5
  <1>10. lo .. hi \subseteq 0 .. w - 1
    OBVIOUS
  <1>11. BitsOf(w, mask) = {i \in 0 .. w - 1 : Bit(mask, i) = 1}
    BY BitsOfIs
  <1> QED BY <1>9, <1>10, <1>11

(* r is v with the low digits of field in lo .. hi.                        *)
Inserted(w, hi, lo, v, field, r) ==
    /\ r \in 0 .. 2 ^ w - 1 /\ r \in Int
    /\ \A i \in 0 .. w - 1 :
        Bit(r, i) = IF i \in lo .. hi THEN Bit(field, i - lo) ELSE Bit(v, i)

(* setBitField puts the low bits of field in their place and changes no    *)
(* other, however long field is.                                           *)
LEMMA InsertBits ==
    ASSUME NEW w \in Nat, NEW hi \in 0 .. w - 1, NEW lo \in 0 .. hi,
           NEW v \in Int, NEW field \in Int
    PROVE  Inserted(w, hi, lo, v, field, setBitField(w, hi, lo, v, field))
  <1> DEFINE mask == Trunc(w, (IF hi + 1 = w THEN 0 ELSE 2 ^ (hi + 1)) - 2 ^ lo)
             f == Trunc(w, field * 2 ^ lo)
             S == (BitsOf(w, v) \ BitsOf(w, mask)) \cup (BitsOf(w, f) \cap BitsOf(w, mask))
  <1>1. setBitField(w, hi, lo, v, field) = ValueOf(S)
    BY DEF setBitField
  <1>2. BitsOf(w, mask) = lo .. hi
    BY MaskBits
  <1>3. PICK g \in Int : g = f /\ \A i \in 0 .. w - 1 :
                                    Bit(g, i) = IF i < lo THEN 0 ELSE Bit(field, i - lo)
    <2>1. PICK m \in Int : m = field * 2 ^ lo
      BY BitMultiply
    <2>2. Trunc(w, m) \in Int
      BY TruncBits
    <2>3. ASSUME NEW i \in 0 .. w - 1
          PROVE  Bit(Trunc(w, m), i) = IF i < lo THEN 0 ELSE Bit(field, i - lo)
      <3>1. i \in Nat /\ i < w /\ lo \in Nat
        OBVIOUS
      <3>2. Bit(Trunc(w, m), i) = Bit(m, i)
        BY <3>1, TruncBits
      <3>3. Bit(field * 2 ^ lo, i) = IF i < lo THEN 0 ELSE Bit(field, i - lo)
        BY <3>1, BitMultiply
      <3> QED BY <2>1, <3>2, <3>3
    <2> QED BY <2>1, <2>2, <2>3
  <1>4. /\ BitsOf(w, v) = {i \in 0 .. w - 1 : Bit(v, i) = 1}
        /\ BitsOf(w, f) = {i \in 0 .. w - 1 : Bit(g, i) = 1}
    BY <1>3, BitsOfIs
  <1> HIDE DEF mask, f
  <1>5. S \in SUBSET (0 .. w - 1)
    BY <1>4
  <1>6. ASSUME NEW i \in 0 .. w - 1
        PROVE  i \in S <=> (IF i \in lo .. hi THEN Bit(field, i - lo) ELSE Bit(v, i)) = 1
    <2>1. CASE i \in lo .. hi
      <3>1. ~(i < lo)
        BY <2>1
      <3> QED BY <1>2, <1>3, <1>4, <2>1, <3>1
    <2>2. CASE i \notin lo .. hi
      BY <1>2, <1>4, <2>2
    <2> QED BY <2>1, <2>2
  <1> HIDE DEF S
  <1>7. PICK r \in Int : r = ValueOf(S) /\ r \in 0 .. 2 ^ w - 1
                         /\ \A i \in 0 .. w - 1 : Bit(r, i) = 1 <=> i \in S
    BY <1>5, ValueOfBits
  <1>8. ASSUME NEW i \in 0 .. w - 1
        PROVE  Bit(r, i) = IF i \in lo .. hi THEN Bit(field, i - lo) ELSE Bit(v, i)
    <2>1. i \in Nat /\ Bit(r, i) \in {0, 1} /\ Bit(v, i) \in {0, 1}
      BY BitType
    <2>2. i \in lo .. hi => i - lo \in Nat /\ Bit(field, i - lo) \in {0, 1}
      BY BitType
    <2> QED BY <1>6, <1>7, <2>1, <2>2
  <1> QED BY <1>1, <1>7, <1>8 DEF Inserted

(* maskBits keeps the bits lo .. hi and clears the others, as its comment  *)
(* says, for every type that is not narrower than an int.  For a narrower  *)
(* one getBitField's left shift loses no bit, and neither does maskBits.   *)
THEOREM MaskBitsExact ==
    ASSUME NEW w \in Nat, w >= INT_BITS,
           NEW hi \in 0 .. w - 1, NEW lo \in 0 .. hi, NEW v \in Int
    PROVE  BitsOf(w, maskBits(w, hi, lo, v)) = BitsOf(w, v) \cap (lo .. hi)
  <1>1. PICK g \in Int : g = getBitField(w, hi, lo, v)
    BY FieldBits
  <1>2. ASSUME NEW j \in 0 .. hi - lo PROVE Bit(g, j) = Bit(v, j + lo)
    BY <1>1, FieldBits
  <1>3. ASSUME NEW j \in Nat, j > hi - lo PROVE Bit(g, j) = 0
    BY <1>1, <1>3, FieldBits
  <1>4. PICK m \in Int : m = g * 2 ^ lo
    BY BitMultiply
  <1>5. maskBits(w, hi, lo, v) = Trunc(w, m)
    BY <1>1, <1>4 DEF maskBits
  <1>6. ASSUME NEW i \in 0 .. w - 1
        PROVE  Bit(Trunc(w, m), i) = 1 <=> Bit(v, i) = 1 /\ i \in lo .. hi
    <2>1. i \in Nat /\ i < w /\ lo \in Nat /\ hi \in Nat
      OBVIOUS
    <2>2. Bit(Trunc(w, m), i) = Bit(m, i)
      BY <2>1, TruncBits
    <2>3. Bit(g * 2 ^ lo, i) = IF i < lo THEN 0 ELSE Bit(g, i - lo)
      BY <2>1, BitMultiply
    <2>4. CASE i < lo
      BY <1>4, <2>1, <2>2, <2>3, <2>4
    <2>5. CASE ~(i < lo)
      <3>1. PICK j \in Nat : j = i - lo /\ j + lo = i
        BY <2>1, <2>5
      <3>2. j \in 0 .. hi - lo <=> i \in lo .. hi
        BY <2>1, <3>1
      <3>3. Bit(m, i) = Bit(g, j)
        BY <1>4, <2>3, <2>5, <3>1
      <3>4. CASE i \in lo .. hi
        BY <1>2, <2>2, <3>1, <3>2, <3>3, <3>4
      <3>5. CASE i \notin lo .. hi
        <4>1. j > hi - lo
          BY <2>1, <3>1, <3>2, <3>5
        <4> QED BY <1>3, <2>2, <3>3, <3>5, <4>1
      <3> QED BY <3>4, <3>5
    <2> QED BY <2>4, <2>5
  <1>7. /\ BitsOf(w, Trunc(w, m)) = {i \in 0 .. w - 1 : Bit(Trunc(w, m), i) = 1}
        /\ BitsOf(w, v) = {i \in 0 .. w - 1 : Bit(v, i) = 1}
    BY BitsOfIs
  <1> HIDE DEF Trunc
  <1> QED BY <1>5, <1>6, <1>7

(* The fold of getValue puts the fields in one by one.                     *)
IsPut(g, c, fields, S) ==
    g = [s \in SUBSET S |->
            IF s = {} THEN 0
            ELSE InsertField(c, Picked(s), g[s \ {Picked(s)}], fields[Picked(s)])]

(* Its recursive function exists, as for sums.                             *)
LEMMA PutExists ==
    ASSUME NEW S, IsFiniteSet(S), NEW c, NEW fields
    PROVE  \E g : IsPut(g, c, fields, S)
  <1> DEFINE Small(n) == {s \in SUBSET S : Cardinality(s) <= n}
             Val(g, s) == IF s = {} THEN 0
                          ELSE InsertField(c, Picked(s), g[s \ {Picked(s)}], fields[Picked(s)])
             Ok(g, n) == g = [s \in Small(n) |-> Val(g, s)]
             Ns == {n \in Nat : \E g : Ok(g, n)}
  <1>1. \A s \in SUBSET S : IsFiniteSet(s) /\ Cardinality(s) \in Nat
    BY FS_Subset, FS_CardinalityType
  <1>2. ASSUME NEW s \in SUBSET S, s # {}
        PROVE  s \ {Picked(s)} \in SUBSET S /\ Cardinality(s \ {Picked(s)}) = Cardinality(s) - 1
    <2>1. Picked(s) \in s
      BY <1>2 DEF Picked
    <2> QED BY <1>1, <2>1, FS_RemoveElement
  <1>3. 0 \in Ns
    <2>1. Small(0) = {{}}
      BY <1>1, FS_EmptySet
    <2>2. Ok([s \in Small(0) |-> 0], 0)
      BY <2>1
    <2> QED BY <2>2
  <1>4. ASSUME NEW n \in Nat, n \in Ns PROVE n + 1 \in Ns
    <2>1. PICK g : Ok(g, n)
      BY <1>4
    <2> DEFINE h == [s \in Small(n + 1) |-> IF s \in Small(n) THEN g[s] ELSE Val(g, s)]
    <2>2. \A s \in Small(n + 1) : s # {} => s \ {Picked(s)} \in Small(n)
      BY <1>1, <1>2
    <2>3. \A s \in Small(n) : s \in Small(n + 1)
      BY <1>1
    <2>4. \A s \in Small(n) : g[s] = Val(g, s)
      BY <2>1
    <2> HIDE DEF Small
    <2>5. \A s \in Small(n) : h[s] = g[s]
      BY <2>3
    <2>6. \A s \in Small(n + 1) : h[s] = Val(g, s)
      BY <2>4
    <2>7. \A s \in Small(n + 1) : Val(g, s) = Val(h, s)
      BY <2>2, <2>5
    <2>8. Ok(h, n + 1)
      <3>1. h = [s \in Small(n + 1) |-> h[s]]
        OBVIOUS
      <3> HIDE DEF h, Val
      <3> QED BY <2>6, <2>7, <3>1
    <2> HIDE DEF h, Ok
    <2>9. \E gg : Ok(gg, n + 1)
      BY <2>8
    <2> QED BY <2>9
  <1>5. Cardinality(S) \in Nat /\ Cardinality(S) \in Ns
    <2> HIDE DEF Ns
    <2> QED BY <1>3, <1>4, FS_CardinalityType, SetInduction
  <1>6. PICK g : Ok(g, Cardinality(S))
    BY <1>5
  <1>7. Small(Cardinality(S)) = SUBSET S
    BY FS_Subset
  <1> QED BY <1>6, <1>7 DEF IsPut

(* getValue is the value of that function.                                 *)
LEMMA PutUnfold ==
    ASSUME NEW c, NEW fields
    PROVE  getValue(c, fields)
               = (CHOOSE g : IsPut(g, c, fields, DOMAIN fields))[DOMAIN fields]
  BY DEF getValue, FoldSet, MapThenFoldSet, IsPut, Picked

(* One of the fields of s has a one that lands on bit i.                   *)
Lands(c, fields, s, i) ==
    \E f \in s : /\ i \in Layout[c][f].lo .. Layout[c][f].hi
                 /\ Bit(fields[f], i - Layout[c][f].lo) = 1

(* getValue's bits are the fields' low bits in their places, whatever the  *)
(* order in which the fields are put in, and zero elsewhere.               *)
LEMMA GetValueBits ==
    ASSUME NEW c \in CSRs, NEW fields, DOMAIN fields = DOMAIN Layout[c],
           \A f \in DOMAIN fields : fields[f] \in Int
    PROVE  /\ getValue(c, fields) \in 0 .. 2 ^ XLEN - 1
           /\ \A i \in 0 .. XLEN - 1 :
                Bit(getValue(c, fields), i) = 1 <=> Lands(c, fields, DOMAIN Layout[c], i)
  <1> DEFINE S == DOMAIN Layout[c]
  <1>1. IsFiniteSet(S) /\ XLEN \in Nat
    BY CsrAssumption
  <1>2. \A f \in S : /\ Layout[c][f].hi \in 0 .. XLEN - 1
                     /\ Layout[c][f].lo \in 0 .. Layout[c][f].hi
    BY CsrAssumption DEF Placed
  <1>3. \A f, h \in S : f # h => \/ Layout[c][f].hi < Layout[c][h].lo
                                 \/ Layout[c][h].hi < Layout[c][f].lo
    BY CsrAssumption
  <1>4. PICK g : IsPut(g, c, fields, S) /\ getValue(c, fields) = g[S]
    BY <1>1, PutExists, PutUnfold
  <1> HIDE DEF S
  <1> DEFINE Good(s) == /\ g[s] \in 0 .. 2 ^ XLEN - 1 /\ g[s] \in Int
                        /\ \A i \in 0 .. XLEN - 1 :
                                Bit(g[s], i) = 1 <=> Lands(c, fields, s, i)
             Ns == {n \in Nat : \A s \in SUBSET S : Cardinality(s) = n => Good(s)}
  <1>5. \A s \in SUBSET S : IsFiniteSet(s) /\ Cardinality(s) \in Nat
    BY <1>1, FS_Subset, FS_CardinalityType
  <1>6. 0 \in Ns
    <2>1. g[{}] = 0
      BY <1>4 DEF IsPut
    <2>2. 2 ^ XLEN \in Nat /\ 2 ^ XLEN > 0 /\ 2 ^ 0 = 1
      BY <1>1, PowerType
    <2>3. ASSUME NEW i \in 0 .. XLEN - 1 PROVE Bit(0, i) = 0
      <3>1. PICK p \in Nat : p = 2 ^ i /\ p > 0
        BY <1>1, PowerType
      <3>2. 0 \div p = 0
        BY <3>1, DivBound
      <3> QED BY <3>1, <3>2 DEF Bit
    <2>4. Good({})
      BY <2>1, <2>2, <2>3 DEF Lands
    <2>5. \A s \in SUBSET S : Cardinality(s) = 0 => s = {}
      BY <1>5, FS_EmptySet
    <2> HIDE DEF Good
    <2> QED BY <2>4, <2>5
  <1>7. ASSUME NEW n \in Nat, n \in Ns PROVE n + 1 \in Ns
    <2> SUFFICES ASSUME NEW s \in SUBSET S, Cardinality(s) = n + 1 PROVE Good(s)
      <3> HIDE DEF Good
      <3> QED OBVIOUS
    <2>1. PICK f \in s : f = Picked(s)
      <3>1. s # {}
        BY FS_EmptySet
      <3> QED BY <3>1 DEF Picked
    <2> DEFINE r == s \ {f}
    <2>2. r \in SUBSET S /\ Cardinality(r) = n
      BY <1>5, FS_RemoveElement
    <2>3. Good(r)
      <3> HIDE DEF Good
      <3> QED BY <1>7, <2>2
    <2>4. PICK hi \in 0 .. XLEN - 1, lo \in Nat, v \in Int :
              /\ hi = Layout[c][f].hi /\ lo = Layout[c][f].lo /\ v = fields[f]
              /\ lo \in 0 .. hi
      BY <1>2 DEF S
    <2>5. g[s] = setBitField(XLEN, hi, lo, g[r], v)
      <3>1. s # {}
        BY <2>1
      <3> QED BY <1>4, <2>1, <2>4, <3>1 DEF IsPut, InsertField
    <2>6. Inserted(XLEN, hi, lo, g[r], v, g[s])
      <3>1. PICK x \in Int : x = g[r]
        BY <2>3
      <3>2. XLEN \in Nat /\ lo \in 0 .. hi
        BY <1>1, <2>4
      <3>3. Inserted(XLEN, hi, lo, x, v, setBitField(XLEN, hi, lo, x, v))
        BY <3>2, InsertBits
      <3> QED BY <2>5, <3>1, <3>3
    <2>7. ASSUME NEW i \in 0 .. XLEN - 1
          PROVE  Bit(g[s], i) = 1 <=> Lands(c, fields, s, i)
      <3>1. CASE i \in lo .. hi
        <4>1. \A h \in s : h # f => i \notin Layout[c][h].lo .. Layout[c][h].hi
          BY <1>2, <1>3, <2>4, <3>1
        <4>2. Lands(c, fields, s, i) <=> Bit(v, i - lo) = 1
          BY <2>4, <3>1, <4>1 DEF Lands
        <4> QED BY <2>6, <3>1, <4>2 DEF Inserted
      <3>2. CASE i \notin lo .. hi
        <4>1. Lands(c, fields, s, i) <=> Lands(c, fields, r, i)
          BY <2>4, <3>2 DEF Lands
        <4> QED BY <2>3, <2>6, <3>2, <4>1 DEF Inserted
      <3> QED BY <3>1, <3>2
    <2> QED BY <2>6, <2>7 DEF Inserted
  <1> HIDE DEF Ns, Good
  <1>8. \A n \in Nat : n \in Ns
    BY <1>6, <1>7, SetInduction
  <1>9. Good(S)
    BY <1>5, <1>8 DEF Ns
  <1> QED BY <1>4, <1>9 DEF Good, S

(* v is a value that field f of c may hold, a what its bits must be.       *)
FieldOK(c, f, v, a) ==
    /\ v \in Int /\ v \in 0 .. 2 ^ Layout[c][f].type - 1 /\ Legal(c, f, v)
    /\ a \in Int /\ a \in 0 .. 2 ^ Bits(c, f) - 1
    /\ \A i \in 0 .. Bits(c, f) - 1 : Bit(v, i) = Bit(a, i)

(* What is assumed of a field, with its length.                            *)
LEMMA FieldPlaced ==
    ASSUME NEW c \in CSRs, NEW f \in DOMAIN Layout[c]
    PROVE  /\ XLEN \in Nat /\ Layout[c][f].hi \in 0 .. XLEN - 1 /\ Layout[c][f].lo \in Nat
           /\ Layout[c][f].lo \in 0 .. Layout[c][f].hi
           /\ Layout[c][f].type \in Nat /\ Bits(c, f) \in Nat
           /\ Bits(c, f) <= Layout[c][f].type
           /\ Bits(c, f) = 1 + Layout[c][f].hi - Layout[c][f].lo
           /\ Legal(c, f, 0)
  BY CsrAssumption DEF Placed, Bits, Legal

(* A longer type holds what a shorter one does.                            *)
LEMMA PowerGrows ==
    ASSUME NEW a \in Nat, NEW b \in Nat, a <= b
    PROVE  2 ^ a <= 2 ^ b
  <1>1. PICK k \in Nat : b = a + k
    <2>1. b - a \in Nat /\ b = a + (b - a)
      OBVIOUS
    <2> QED BY <2>1
  <1>2. PICK x \in Nat, y \in Nat : x = 2 ^ a /\ y = 2 ^ k /\ y > 0 /\ 2 ^ b = x * y
    BY <1>1, PowerType, PowerAdd
  <1>3. x * y >= x
    <2>1. x * y = x + x * (y - 1) /\ x * (y - 1) >= 0
      BY <1>2
    <2> QED BY <1>2, <2>1
  <1> QED BY <1>2, <1>3

(* Zero may be held by every field.                                        *)
LEMMA ZeroOK ==
    ASSUME NEW c \in CSRs, NEW f \in DOMAIN Layout[c]
    PROVE  FieldOK(c, f, 0, 0)
  <1>1. PICK t \in Nat, b \in Nat : t = 2 ^ Layout[c][f].type /\ t > 0
                                    /\ b = 2 ^ Bits(c, f) /\ b > 0
    BY FieldPlaced, PowerType
  <1> QED BY <1>1, FieldPlaced DEF FieldOK

(* What setValue takes out of a raw value is the field's bits, with zeros  *)
(* above, and so is compared with the enum as the field's value.           *)
LEMMA ExtractIs ==
    ASSUME NEW c \in CSRs, NEW f \in DOMAIN Layout[c], NEW raw \in 0 .. 2 ^ XLEN - 1
    PROVE  getBitField(XLEN, Layout[c][f].hi, Layout[c][f].lo, raw)
               = (raw \div 2 ^ Layout[c][f].lo) % 2 ^ Bits(c, f)
  <1>1. PICK hi \in 0 .. XLEN - 1, lo \in Nat, n \in Nat :
            /\ hi = Layout[c][f].hi /\ lo = Layout[c][f].lo /\ lo \in 0 .. hi
            /\ n = Bits(c, f) /\ n = 1 + hi - lo
    BY FieldPlaced
  <1>2. XLEN \in Nat /\ XLEN >= INT_BITS /\ raw \in Int
    <2>1. PICK p \in Nat : p = 2 ^ XLEN
      BY CsrAssumption, PowerType
    <2> QED BY <2>1, CsrAssumption
  <1>3. PICK v \in Int :
            /\ v = getBitField(XLEN, hi, lo, raw) /\ v \in 0 .. 2 ^ XLEN - 1
            /\ \A i \in 0 .. hi - lo : Bit(v, i) = Bit(raw, i + lo)
            /\ \A i \in Nat : i > hi - lo => Bit(v, i) = 0
    <2>1. XLEN \in Nat /\ lo \in 0 .. hi /\ XLEN >= INT_BITS
      BY <1>1, <1>2
    <2>2. PICK v \in Int : v = getBitField(XLEN, hi, lo, raw) /\ v \in 0 .. 2 ^ XLEN - 1
      BY <1>2, <2>1, FieldBits
    <2>3. ASSUME NEW i \in 0 .. hi - lo PROVE Bit(v, i) = Bit(raw, i + lo)
      BY <1>2, <2>1, <2>2, FieldBits
    <2>4. ASSUME NEW i \in Nat, i > hi - lo PROVE Bit(v, i) = 0
      BY <1>2, <2>1, <2>2, <2>4, FieldBits
    <2> QED BY <2>2, <2>3, <2>4
  <1>4. PICK d \in Int : d = raw \div 2 ^ lo /\ \A i \in Nat : Bit(d, i) = Bit(raw, i + lo)
    <2>1. PICK d \in Int : d = raw \div 2 ^ lo
      BY <1>2, BitDiv
    <2>2. ASSUME NEW i \in Nat PROVE Bit(d, i) = Bit(raw, i + lo)
      BY <1>2, <2>1, BitDiv
    <2> QED BY <2>1, <2>2
  <1>5. PICK a \in Int : a = d % 2 ^ n /\ a \in 0 .. 2 ^ n - 1
    BY <1>1, TruncBits DEF Trunc
  <1>6. 2 ^ n <= 2 ^ XLEN /\ 2 ^ n \in Nat /\ 2 ^ XLEN \in Nat
    <2>1. n <= XLEN
      BY <1>1, <1>2
    <2> QED BY <1>2, <2>1, PowerGrows, PowerType
  <1>7. a \in 0 .. 2 ^ XLEN - 1
    BY <1>5, <1>6
  <1>8. ASSUME NEW i \in 0 .. XLEN - 1 PROVE Bit(v, i) = Bit(a, i)
    <2>1. i \in Nat
      OBVIOUS
    <2>2. CASE i < n
      <3>1. Bit(d % 2 ^ n, i) = Bit(d, i)
        BY <2>1, <2>2, BitTrunc
      <3>2. i \in 0 .. hi - lo
        BY <1>1, <2>1, <2>2
      <3> QED BY <1>3, <1>4, <1>5, <2>1, <3>1, <3>2
    <2>3. CASE ~(i < n)
      <3>1. Bit(a, i) = 0
        BY <1>5, <2>1, <2>3, BitHigh
      <3>2. i > hi - lo
        BY <1>1, <2>1, <2>3
      <3> QED BY <1>3, <2>1, <3>1, <3>2
    <2> QED BY <2>2, <2>3
  <1>9. v = a
    BY <1>2, <1>3, <1>7, <1>8, EqualBits
  <1> QED BY <1>1, <1>3, <1>4, <1>5, <1>9

(* After a write the field may hold what it holds.                         *)
LEMMA WriteOK ==
    ASSUME NEW c \in CSRs, NEW f \in DOMAIN Layout[c], NEW raw \in 0 .. 2 ^ XLEN - 1,
           NEW v, v = (raw \div 2 ^ Layout[c][f].lo) % 2 ^ Bits(c, f)
    PROVE  LET held == IF Legal(c, f, v) THEN v ELSE 0 IN FieldOK(c, f, held, held)
  <1>1. PICK lo \in Nat, n \in Nat, t \in Nat :
            lo = Layout[c][f].lo /\ n = Bits(c, f) /\ t = Layout[c][f].type /\ n <= t
    BY FieldPlaced
  <1>2. raw \in Int
    <2>1. PICK p \in Nat : p = 2 ^ XLEN
      BY CsrAssumption, PowerType
    <2> QED BY <2>1
  <1>3. PICK d \in Int : d = raw \div 2 ^ lo
    BY <1>2, BitDiv
  <1>4. v \in Int /\ v \in 0 .. 2 ^ n - 1
    BY <1>1, <1>3, TruncBits DEF Trunc
  <1>5. v \in 0 .. 2 ^ t - 1
    <2>1. 2 ^ n <= 2 ^ t /\ 2 ^ n \in Nat /\ 2 ^ t \in Nat
      BY <1>1, PowerGrows, PowerType
    <2> QED BY <1>4, <2>1
  <1>6. CASE Legal(c, f, v)
    BY <1>1, <1>4, <1>5, <1>6 DEF FieldOK
  <1>7. CASE ~Legal(c, f, v)
    BY <1>7, ZeroOK
  <1> QED BY <1>6, <1>7

(* A setter's argument may be held whatever its length: its low digits are *)
(* what the field's bits must be.                                          *)
LEMMA SetOK ==
    ASSUME NEW c \in CSRs, NEW f \in DOMAIN Layout[c], NEW v \in Nat,
           v < 2 ^ Layout[c][f].type, Legal(c, f, v)
    PROVE  FieldOK(c, f, v, v % 2 ^ Bits(c, f))
  <1>1. PICK n \in Nat, t \in Nat : n = Bits(c, f) /\ t = Layout[c][f].type
    BY FieldPlaced
  <1>2. PICK a \in Int : a = v % 2 ^ n /\ a \in 0 .. 2 ^ n - 1
    BY <1>1, TruncBits DEF Trunc
  <1>3. ASSUME NEW i \in 0 .. n - 1 PROVE Bit(v, i) = Bit(a, i)
    <2>1. i \in Nat /\ i < n
      OBVIOUS
    <2> QED BY <1>2, <2>1, BitTrunc
  <1>4. v \in 0 .. 2 ^ t - 1
    <2>1. 2 ^ t \in Nat
      BY PowerType
    <2> QED BY <1>1, <2>1
  <1> QED BY <1>1, <1>2, <1>3, <1>4 DEF FieldOK

(* A state of the registers with the fields they have.                     *)
Shaped(s) == /\ DOMAIN s = CSRs
             /\ \A c \in CSRs : DOMAIN s[c] = DOMAIN Layout[c]

(* Every field holds a value of its type, with a name if it is an enum,    *)
(* whose low bits are what the field's bits must be.                       *)
CsrInv ==
    /\ Shaped(csr) /\ Shaped(arch)
    /\ \A c \in CSRs : \A f \in DOMAIN Layout[c] : FieldOK(c, f, csr[c][f], arch[c][f])
    /\ last.idx \in Idxs \cup {0} /\ last.value \in 0 .. 2 ^ XLEN - 1

(* What read returns is a raw value.                                       *)
LEMMA ReadType ==
    ASSUME CsrInv, NEW c \in CSRs
    PROVE  getValue(c, csr[c]) \in 0 .. 2 ^ XLEN - 1
  <1>1. DOMAIN csr[c] = DOMAIN Layout[c] /\ \A f \in DOMAIN csr[c] : csr[c][f] \in Int
    BY DEF CsrInv, Shaped, FieldOK
  <1> QED BY <1>1, GetValueBits

(* Zero is a raw value.                                                    *)
LEMMA ZeroRaw == 0 \in 0 .. 2 ^ XLEN - 1
  <1>1. PICK p \in Nat : p = 2 ^ XLEN /\ p > 0
    BY CsrAssumption, PowerType
  <1> QED BY <1>1

(* A write replaces one register, by fields that may hold what they hold.  *)
LEMMA WriteKeeps ==
    ASSUME CsrInv, NEW idx \in CSRs, NEW raw \in RawValues, write(idx, raw)
    PROVE  CsrInv'
  <1> DEFINE V(f) == (raw \div 2 ^ Layout[idx][f].lo) % 2 ^ Bits(idx, f)
             held(f) == IF Legal(idx, f, V(f)) THEN V(f) ELSE 0
  <1>1. raw \in 0 .. 2 ^ XLEN - 1
    BY CsrAssumption
  <1>2. ASSUME NEW f \in DOMAIN Layout[idx]
        PROVE  setValue(idx, raw)[f] = held(f) /\ FieldOK(idx, f, held(f), held(f))
    <2>1. getBitField(XLEN, Layout[idx][f].hi, Layout[idx][f].lo, raw) = V(f)
      BY <1>1, ExtractIs
    <2>2. FieldOK(idx, f, held(f), held(f))
      BY <1>1, WriteOK
    <2> HIDE DEF V
    <2>3. setValue(idx, raw)[f] = held(f)
      BY <2>1 DEF setValue
    <2> QED BY <2>2, <2>3
  <1>3. /\ csr' = [csr EXCEPT ![idx] = setValue(idx, raw)]
        /\ arch' = [arch EXCEPT ![idx] = [f \in DOMAIN Layout[idx] |-> held(f)]]
        /\ last' = [idx |-> idx, status |-> "OK", value |-> 0]
    BY DEF write, Accessed
  <1>4. DOMAIN setValue(idx, raw) = DOMAIN Layout[idx]
    BY DEF setValue
  <1> HIDE DEF held
  <1>5. Shaped(csr)' /\ Shaped(arch)'
    BY <1>3, <1>4 DEF CsrInv, Shaped
  <1>6. ASSUME NEW c \in CSRs, NEW f \in DOMAIN Layout[c]
        PROVE  FieldOK(c, f, csr'[c][f], arch'[c][f])
    <2>1. CASE c = idx
      <3>1. csr'[c][f] = held(f) /\ arch'[c][f] = held(f)
        BY <1>2, <1>3, <2>1 DEF CsrInv, Shaped
      <3> QED BY <1>2, <2>1, <3>1
    <2>2. CASE c # idx
      <3>1. csr'[c][f] = csr[c][f] /\ arch'[c][f] = arch[c][f]
        BY <1>3, <2>2 DEF CsrInv, Shaped
      <3> QED BY <3>1 DEF CsrInv
    <2> QED BY <2>1, <2>2
  <1>7. (last.idx \in Idxs \cup {0} /\ last.value \in 0 .. 2 ^ XLEN - 1)'
    BY <1>3, ZeroRaw DEF Idxs
  <1> QED BY <1>5, <1>6, <1>7 DEF CsrInv

(* A setter replaces one field.                                            *)
LEMMA SetKeeps ==
    ASSUME CsrInv, NEW d \in CSRs, NEW g \in DOMAIN Layout[d], NEW v \in SetValues,
           setField(d, g, v)
    PROVE  CsrInv'
  <1>1. /\ csr' = [csr EXCEPT ![d][g] = v]
        /\ arch' = [arch EXCEPT ![d][g] = v % 2 ^ Bits(d, g)]
        /\ last' = last
    BY DEF setField
  <1>2. FieldOK(d, g, v, v % 2 ^ Bits(d, g))
    <2>1. v \in Nat /\ v < 2 ^ Layout[d][g].type /\ Legal(d, g, v)
      BY CsrAssumption DEF setField
    <2> QED BY <2>1, SetOK
  <1>3. Shaped(csr)' /\ Shaped(arch)'
    BY <1>1 DEF CsrInv, Shaped
  <1>4. ASSUME NEW c \in CSRs, NEW f \in DOMAIN Layout[c]
        PROVE  FieldOK(c, f, csr'[c][f], arch'[c][f])
    <2>1. CASE c = d /\ f = g
      <3>1. csr'[c][f] = v /\ arch'[c][f] = v % 2 ^ Bits(d, g)
        BY <1>1, <2>1 DEF CsrInv, Shaped
      <3> QED BY <1>2, <2>1, <3>1
    <2>2. CASE ~(c = d /\ f = g)
      <3>1. csr'[c][f] = csr[c][f] /\ arch'[c][f] = arch[c][f]
        BY <1>1, <2>2 DEF CsrInv, Shaped
      <3> QED BY <3>1 DEF CsrInv
    <2> QED BY <2>1, <2>2
  <1> QED BY <1>1, <1>3, <1>4 DEF CsrInv

(* CsrInv is inductive.                                                    *)
LEMMA CsrInvariant == Spec => []CsrInv
  <1>1. Init => CsrInv
    <2> SUFFICES ASSUME Init PROVE CsrInv
      OBVIOUS
    <2>1. Shaped(csr) /\ Shaped(arch)
      BY DEF Init, Zero, Shaped
    <2>2. ASSUME NEW c \in CSRs, NEW f \in DOMAIN Layout[c]
          PROVE  FieldOK(c, f, csr[c][f], arch[c][f])
      <3>1. csr[c][f] = 0 /\ arch[c][f] = 0
        BY DEF Init, Zero
      <3> QED BY <3>1, ZeroOK
    <2> QED BY <2>1, <2>2, ZeroRaw DEF Init, CsrInv
  <1>2. ASSUME CsrInv, [Next]_vars PROVE CsrInv'
    <2>1. CASE UNCHANGED vars
      BY <1>2, <2>1 DEF vars, CsrInv, Shaped
    <2>2. ASSUME NEW idx \in Idxs, NotSupported(idx) PROVE CsrInv'
      BY <1>2, <2>2, ZeroRaw DEF NotSupported, Accessed, CsrInv, Shaped
    <2>3. ASSUME NEW idx \in Idxs, read(idx) PROVE CsrInv'
      <3>1. getValue(idx, csr[idx]) \in 0 .. 2 ^ XLEN - 1
        BY <1>2, <2>3, ReadType DEF read
      <3> QED BY <1>2, <2>3, <3>1 DEF read, Accessed, CsrInv, Shaped
    <2>4. ASSUME NEW idx \in Idxs, NEW raw \in RawValues, write(idx, raw) PROVE CsrInv'
      <3>1. idx \in CSRs
        BY <2>4 DEF write
      <3> QED BY <1>2, <2>4, <3>1, WriteKeeps
    <2>5. ASSUME NEW c \in CSRs, NEW f \in DOMAIN Layout[c], NEW v \in SetValues,
                 setField(c, f, v)
          PROVE  CsrInv'
      BY <1>2, <2>5, SetKeeps
    <2> QED BY <1>2, <2>1, <2>2, <2>3, <2>4, <2>5 DEF Next
  <1> QED BY <1>1, <1>2, PTL DEF Spec

(* Every field keeps a value of its type, and read returns a raw value.    *)
THEOREM CsrTypeOK == Spec => []TypeOK
  <1>1. CsrInv => TypeOK
    BY DEF CsrInv, FieldOK, TypeOK
  <1> QED BY <1>1, CsrInvariant, PTL

(* An enum field never holds a value without a name: satp.MODE is one of   *)
(* those MMU64 switches over.                                              *)
THEOREM EnumsStayLegalTheorem == Spec => []EnumsStayLegal
  <1>1. CsrInv => EnumsStayLegal
    BY DEF CsrInv, FieldOK, EnumsStayLegal
  <1> QED BY <1>1, CsrInvariant, PTL

(* read returns the low bits of every field in its place and nothing else, *)
(* for every layout of fields that do not overlap, every order in which    *)
(* getValue puts them in, and arguments of a setter that are too long.     *)
THEOREM ReadsTheFieldsTheorem == Spec => []ReadsTheFields
  <1>1. ASSUME CsrInv, NEW c \in CSRs
        PROVE  BitsOf(XLEN, getValue(c, csr[c]))
                   = UNION {{b + Layout[c][f].lo : b \in BitsOf(XLEN, arch[c][f])}
                               : f \in DOMAIN Layout[c]}
    <2> DEFINE R == BitsOf(XLEN, getValue(c, csr[c]))
               Moved(f) == {b + Layout[c][f].lo : b \in BitsOf(XLEN, arch[c][f])}
    <2>1. DOMAIN csr[c] = DOMAIN Layout[c] /\ \A f \in DOMAIN csr[c] : csr[c][f] \in Int
      BY <1>1 DEF CsrInv, Shaped, FieldOK
    <2>2. R = {i \in 0 .. XLEN - 1 : Bit(getValue(c, csr[c]), i) = 1}
      BY BitsOfIs
    <2>3. \A i \in 0 .. XLEN - 1 :
              Bit(getValue(c, csr[c]), i) = 1 <=> Lands(c, csr[c], DOMAIN Layout[c], i)
      BY <2>1, GetValueBits
    <2>4. ASSUME NEW f \in DOMAIN Layout[c], NEW i
          PROVE  i \in Moved(f) <=> /\ i \in Layout[c][f].lo .. Layout[c][f].hi
                                    /\ Bit(csr[c][f], i - Layout[c][f].lo) = 1
      <3>1. PICK hi \in 0 .. XLEN - 1, lo \in Nat, n \in Nat :
                /\ hi = Layout[c][f].hi /\ lo = Layout[c][f].lo /\ lo \in 0 .. hi
                /\ n = Bits(c, f) /\ n = 1 + hi - lo /\ XLEN \in Nat
        BY FieldPlaced
      <3>2. PICK a \in Int : a = arch[c][f] /\ a \in 0 .. 2 ^ n - 1
                             /\ \A j \in 0 .. n - 1 : Bit(csr[c][f], j) = Bit(a, j)
        BY <1>1, <3>1 DEF CsrInv, FieldOK
      <3>3. BitsOf(XLEN, a) = {j \in 0 .. XLEN - 1 : Bit(a, j) = 1}
        BY BitsOfIs
      <3>4. \A j \in Nat : n <= j => Bit(a, j) = 0
        BY <3>2, BitHigh
      <3>5. ASSUME NEW j PROVE j \in BitsOf(XLEN, a) <=> j \in 0 .. n - 1 /\ Bit(csr[c][f], j) = 1
        <4>1. n - 1 <= XLEN - 1
          BY <3>1
        <4>2. j \in 0 .. n - 1 => j \in 0 .. XLEN - 1
          BY <3>1, <4>1
        <4>3. j \in 0 .. XLEN - 1 /\ j \notin 0 .. n - 1 => Bit(a, j) = 0
          BY <3>1, <3>4
        <4> QED BY <3>2, <3>3, <4>2, <4>3
      <3>6. ASSUME i \in Moved(f)
            PROVE  i \in lo .. hi /\ Bit(csr[c][f], i - lo) = 1
        <4>1. PICK b \in BitsOf(XLEN, a) : i = b + lo
          BY <3>1, <3>2, <3>6
        <4>2. b \in 0 .. n - 1 /\ Bit(csr[c][f], b) = 1
          BY <3>5
        <4>3. b = i - lo /\ i \in lo .. hi
          BY <3>1, <4>1, <4>2
        <4> QED BY <4>2, <4>3
      <3>7. ASSUME i \in lo .. hi, Bit(csr[c][f], i - lo) = 1 PROVE i \in Moved(f)
        <4>1. PICK b \in 0 .. n - 1 : b = i - lo /\ i = b + lo
          <5>1. i - lo \in 0 .. n - 1 /\ i = (i - lo) + lo
            BY <3>1, <3>7
          <5> QED BY <5>1
        <4>2. b \in BitsOf(XLEN, a)
          BY <3>5, <3>7, <4>1
        <4> QED BY <3>1, <3>2, <4>1, <4>2
      <3> QED BY <3>1, <3>6, <3>7
    <2>5. ASSUME NEW f \in DOMAIN Layout[c]
          PROVE  Layout[c][f].lo .. Layout[c][f].hi \subseteq 0 .. XLEN - 1
      BY FieldPlaced
    <2> HIDE DEF R, Moved
    <2>6. ASSUME NEW i PROVE i \in R <=> \E f \in DOMAIN Layout[c] : i \in Moved(f)
      <3>1. i \in R <=> i \in 0 .. XLEN - 1 /\ Lands(c, csr[c], DOMAIN Layout[c], i)
        BY <2>2, <2>3
      <3> QED BY <2>4, <2>5, <3>1 DEF Lands
    <2>7. R = UNION {Moved(f) : f \in DOMAIN Layout[c]}
      BY <2>6
    <2> QED BY <2>7 DEF R, Moved
  <1>2. CsrInv => ReadsTheFields
    BY <1>1 DEF ReadsTheFields
  <1> QED BY <1>2, CsrInvariant, PTL

-----------------------------------------------------------------------------
(* The decoder, for every code and every tree with what is assumed of it.  *)

(* The code being decoded has the digits of A.                             *)
Agrees(A) == \A x \in A : x[2] = IF x[1] \in code THEN 1 ELSE 0

(* A section of the code is below 2 to its length, and has a value exactly *)
(* when the code has the digits that this demands.                         *)
LEMMA SectionIs ==
    ASSUME NEW range, InCode(range)
    PROVE  LET u == ValueOf(Section(range.msb, range.lsb))
               n == 1 + range.msb - range.lsb
           IN  /\ u \in 0 .. 2 ^ n - 1 /\ u \in Nat
               /\ Agrees(Demands(range, u))
               /\ \A v \in 0 .. 2 ^ n - 1 : Agrees(Demands(range, v)) => u = v
  <1> DEFINE S == Section(range.msb, range.lsb)
  <1>1. PICK msb \in CodeBits, lsb \in Nat, n \in Nat :
            /\ msb = range.msb /\ lsb = range.lsb /\ lsb \in 0 .. msb
            /\ n = 1 + range.msb - range.lsb /\ n = 1 + msb - lsb /\ msb \in Nat
    BY DEF InCode, CodeBits
  <1>2. \A j \in 0 .. n - 1 : j \in S <=> lsb + j \in code
    <2> SUFFICES ASSUME NEW j \in 0 .. n - 1 PROVE j \in S <=> lsb + j \in code
      OBVIOUS
    <2>1. lsb + j \in lsb .. msb /\ (lsb + j) - lsb = j
      BY <1>1
    <2>2. ASSUME NEW b \in code \cap (lsb .. msb), j = b - lsb PROVE b = lsb + j
      BY <1>1, <2>2
    <2>3. S = {b - lsb : b \in code \cap (lsb .. msb)}
      BY <1>1 DEF Section
    <2> QED BY <2>1, <2>2, <2>3
  <1>3. S \in SUBSET (0 .. n - 1)
    BY <1>1 DEF Section
  <1> HIDE DEF S
  <1>4. PICK u \in Int : u = ValueOf(S) /\ u \in 0 .. 2 ^ n - 1
                         /\ \A i \in 0 .. n - 1 : Bit(u, i) = 1 <=> i \in S
    BY <1>3, ValueOfBits
  <1>5. \A j \in 0 .. n - 1 : Bit(u, j) = IF lsb + j \in code THEN 1 ELSE 0
    <2> SUFFICES ASSUME NEW j \in 0 .. n - 1
                 PROVE  Bit(u, j) = IF lsb + j \in code THEN 1 ELSE 0
      OBVIOUS
    <2>1. Bit(u, j) \in {0, 1}
      BY BitType
    <2> QED BY <1>2, <1>4, <2>1
  <1>6. ASSUME NEW v PROVE Demands(range, v) = {<<b, Bit(v, b - lsb)>> : b \in lsb .. msb}
    BY <1>1 DEF Demands, Bit
  <1>7. Agrees(Demands(range, u))
    <2> SUFFICES ASSUME NEW b \in lsb .. msb
                 PROVE  Bit(u, b - lsb) = IF b \in code THEN 1 ELSE 0
      BY <1>6 DEF Agrees
    <2>1. b - lsb \in 0 .. n - 1 /\ lsb + (b - lsb) = b
      BY <1>1
    <2> QED BY <1>5, <2>1
  <1>8. ASSUME NEW v \in 0 .. 2 ^ n - 1, Agrees(Demands(range, v)) PROVE u = v
    <2>1. ASSUME NEW j \in 0 .. n - 1 PROVE Bit(u, j) = Bit(v, j)
      <3>1. PICK b \in lsb .. msb : b = lsb + j /\ b - lsb = j
        <4>1. lsb + j \in lsb .. msb /\ (lsb + j) - lsb = j
          BY <1>1
        <4> QED BY <4>1
      <3>2. <<b, Bit(v, b - lsb)>> \in Demands(range, v)
        BY <1>6
      <3>3. Bit(v, b - lsb) = IF b \in code THEN 1 ELSE 0
        BY <1>8, <3>2 DEF Agrees
      <3> QED BY <1>5, <3>1, <3>3
    <2> QED BY <1>4, <2>1, EqualBits
  <1>9. u \in Nat
    <2>1. 2 ^ n \in Nat
      BY PowerType
    <2> QED BY <1>4, <2>1
  <1> QED BY <1>1, <1>4, <1>7, <1>8, <1>9 DEF S

(* What is assumed of the code, the tree and the instructions.             *)
LEMMA TreeIs ==
    /\ <<>> \in DOMAIN Tree /\ \A p \in DOMAIN Tree : p \in Seq(Nat)
    /\ \A p \in DOMAIN Tree : IsLeaf(Tree[p]) => Tree[p].mnemonic \in DOMAIN Instructions
    /\ \A p \in DOMAIN Tree : ~IsLeaf(Tree[p]) => InCode(Tree[p])
  BY DecoderAssumption

(* Going down by a case adds the digits of its label to those of the path. *)
LEMMA PathStep ==
    ASSUME NEW p \in DOMAIN Tree, NEW v \in Nat
    PROVE  PathBits(Append(p, v)) \subseteq PathBits(p) \cup Demands(Tree[p], v)
  <1>1. p \in Seq(Nat)
    BY TreeIs
  <1> DEFINE r == Append(p, v)
  <1>2. /\ Len(r) = Len(p) + 1 /\ r[Len(p) + 1] = v /\ Len(p) \in Nat
        /\ \A k \in 1 .. Len(p) : r[k] = p[k]
    BY <1>1
  <1> HIDE DEF r
  <1>3. ASSUME NEW q \in Above(r)
        PROVE  Demands(Tree[q], r[Len(q) + 1]) \subseteq PathBits(p) \cup Demands(Tree[p], v)
    <2>1. /\ q \in DOMAIN Tree /\ Len(q) < Len(r) /\ \A k \in 1 .. Len(q) : q[k] = r[k]
      BY DEF Above
    <2>2. q \in Seq(Nat) /\ Len(q) \in Nat
      BY <2>1, TreeIs
    <2>3. CASE Len(q) < Len(p)
      <3>1. q \in Above(p)
        BY <1>2, <2>1, <2>2, <2>3 DEF Above
      <3>2. r[Len(q) + 1] = p[Len(q) + 1]
        BY <1>2, <2>2, <2>3
      <3> QED BY <3>1, <3>2 DEF PathBits
    <2>4. CASE ~(Len(q) < Len(p))
      <3>1. Len(q) = Len(p)
        BY <1>2, <2>1, <2>2, <2>4
      <3>2. q = p
        <4>1. \A k \in 1 .. Len(q) : q[k] = p[k]
          BY <1>2, <2>1, <3>1
        <4> QED BY <1>1, <2>2, <3>1, <4>1, SeqEqual
      <3> QED BY <1>2, <3>2
    <2> QED BY <2>3, <2>4
  <1> QED BY <1>3 DEF PathBits, r

(* What the leaf assigns.                                                  *)
Assigned(i) ==
    LET fields == Instructions[i].fields
    IN  [id |-> i, rd |-> Register("rd", fields), rs1 |-> Register("rs1", fields),
         rs2 |-> Register("rs2", fields),
         imm |-> UNION {Immediate(f) : f \in fields \cap KNOWN_IMMS}]

(* The code has the digits of the path passed so far, and what the         *)
(* constructor returns is what the leaf assigns, or nothing where a switch *)
(* has no case.                                                            *)
DecoderInv ==
    /\ code \in Codes /\ at \in DOMAIN Tree /\ done \in BOOLEAN
    /\ Agrees(PathBits(at))
    /\ ~done => instr = Default
    /\ done /\ IsLeaf(Tree[at]) => instr = Assigned(Tree[at].mnemonic)
    /\ done /\ ~IsLeaf(Tree[at]) => instr = Default /\ NextLabel \notin DOMAIN Tree

(* DecoderInv is inductive.                                                *)
LEMMA DecoderInvariant == DecoderSpec => []DecoderInv
  <1>1. DecoderInit => DecoderInv
    <2> SUFFICES ASSUME DecoderInit PROVE DecoderInv
      OBVIOUS
    <2>1. Above(at) = {}
      <3>1. \A q \in DOMAIN Tree : ~(Len(q) < 0)
        BY TreeIs
      <3>2. Len(at) = 0
        BY DEF DecoderInit
      <3> QED BY <3>1, <3>2 DEF Above
    <2>2. Agrees(PathBits(at))
      BY <2>1 DEF Agrees, PathBits
    <2> QED BY <2>2, TreeIs DEF DecoderInit, DecoderInv
  <1>2. ASSUME DecoderInv, [GenerateHandleNode]_decoderVars PROVE DecoderInv'
    <2>1. CASE UNCHANGED decoderVars
      <3>1. code' = code /\ at' = at /\ instr' = instr /\ done' = done
        BY <2>1 DEF decoderVars
      <3>2. Agrees(PathBits(at))' /\ NextLabel' = NextLabel
        BY <1>2, <3>1 DEF DecoderInv, Agrees, PathBits, Above, NextLabel, Section
      <3>3. Assigned(Tree[at].mnemonic)' = Assigned(Tree[at].mnemonic)
        BY <3>1 DEF Assigned, Register, Immediate, GenerateGetBinValue, Section
      <3> QED BY <1>2, <3>1, <3>2, <3>3 DEF DecoderInv
    <2>2. CASE ~done /\ HandleCase
      <3> DEFINE v == ValueOf(Section(Tree[at].msb, Tree[at].lsb))
      <3>1. /\ ~IsLeaf(Tree[at]) /\ Append(at, v) \in DOMAIN Tree /\ at' = Append(at, v)
            /\ code' = code /\ instr' = instr /\ done' = done
        BY <2>2 DEF HandleCase, NextLabel
      <3>2. v \in Nat /\ Agrees(Demands(Tree[at], v))
        <4>1. InCode(Tree[at])
          BY <1>2, <3>1, TreeIs DEF DecoderInv
        <4> QED BY <4>1, SectionIs
      <3> HIDE DEF v
      <3>3. PathBits(at') \subseteq PathBits(at) \cup Demands(Tree[at], v)
        BY <1>2, <3>1, <3>2, PathStep DEF DecoderInv
      <3>4. \A x \in PathBits(at') : x[2] = IF x[1] \in code THEN 1 ELSE 0
        BY <1>2, <3>2, <3>3 DEF DecoderInv, Agrees
      <3>5. Agrees(PathBits(at))'
        BY <3>1, <3>4 DEF Agrees, PathBits, Above
      <3> QED BY <1>2, <2>2, <3>1, <3>5 DEF DecoderInv
    <2>3. CASE ~done /\ HandleDefault
      <3>1. Agrees(PathBits(at))'
        BY <1>2, <2>3 DEF HandleDefault, DecoderInv, Agrees, PathBits, Above
      <3>2. NextLabel' = NextLabel
        BY <2>3 DEF HandleDefault, NextLabel, Section
      <3> QED BY <1>2, <2>3, <3>1, <3>2 DEF HandleDefault, DecoderInv
    <2>4. CASE ~done /\ GenerateFieldAssigning
      <3>1. Agrees(PathBits(at))'
        BY <1>2, <2>4 DEF GenerateFieldAssigning, DecoderInv, Agrees, PathBits, Above
      <3>2. instr' = Assigned(Tree[at].mnemonic)
        BY <2>4 DEF GenerateFieldAssigning, Assigned
      <3>3. Assigned(Tree[at].mnemonic)' = Assigned(Tree[at].mnemonic)
        BY <2>4 DEF GenerateFieldAssigning, Assigned, Register, Immediate,
           GenerateGetBinValue, Section
      <3> QED BY <1>2, <2>4, <3>1, <3>2, <3>3 DEF GenerateFieldAssigning, DecoderInv
    <2> QED BY <1>2, <2>1, <2>2, <2>3, <2>4 DEF GenerateHandleNode
  <1> QED BY <1>1, <1>2, PTL DEF DecoderSpec

(* Bits of a field that the code's ones give.                              *)
Moved(pairs) == {q[2] : q \in {p \in pairs : p[1] \in code}}

(* A field is put together from its sections, bit by bit.                  *)
LEMMA SectionsPlaced ==
    ASSUME NEW f, \A s \in Fields[f] : InCode(s) /\ s.to \in Nat
    PROVE  UNION {GenerateGetBinValue(s) : s \in Fields[f]} = Moved(Places(f))
  <1> DEFINE Part(s) == {<<b, b - s.lsb + s.to>> : b \in s.lsb .. s.msb}
  <1>1. ASSUME NEW s \in Fields[f] PROVE GenerateGetBinValue(s) = Moved(Part(s))
    <2>1. s.lsb \in Nat /\ s.msb \in Nat /\ s.to \in Nat
      BY DEF InCode, CodeBits
    <2>2. GenerateGetBinValue(s) = {(b - s.lsb) + s.to : b \in code \cap (s.lsb .. s.msb)}
      BY DEF GenerateGetBinValue, Section
    <2>3. \A b : b \in code \cap (s.lsb .. s.msb) => <<b, b - s.lsb + s.to>> \in Part(s)
      OBVIOUS
    <2>4. ASSUME NEW x \in GenerateGetBinValue(s) PROVE x \in Moved(Part(s))
      <3>1. PICK b \in code \cap (s.lsb .. s.msb) : x = (b - s.lsb) + s.to
        BY <2>2
      <3>2. <<b, x>> \in Part(s) /\ <<b, x>>[1] \in code /\ <<b, x>>[2] = x
        BY <3>1
      <3> HIDE DEF Part
      <3> QED BY <3>2 DEF Moved
    <2>5. ASSUME NEW x \in Moved(Part(s)) PROVE x \in GenerateGetBinValue(s)
      <3>1. PICK p \in Part(s) : p[1] \in code /\ x = p[2]
        <4> HIDE DEF Part
        <4> QED BY DEF Moved
      <3>2. PICK b \in s.lsb .. s.msb : p = <<b, b - s.lsb + s.to>>
        OBVIOUS
      <3> QED BY <2>2, <3>1, <3>2
    <2> QED BY <2>4, <2>5
  <1>2. Places(f) = UNION {Part(s) : s \in Fields[f]}
    BY DEF Places
  <1> HIDE DEF Part
  <1>3. Moved(UNION {Part(s) : s \in Fields[f]}) = UNION {Moved(Part(s)) : s \in Fields[f]}
    BY DEF Moved
  <1> QED BY <1>1, <1>2, <1>3

(* Consecutive bits that are moved are a section.                          *)
LEMMA FromIs ==
    ASSUME NEW lo \in Nat, NEW hi \in Nat
    PROVE  Moved(From(lo, hi, lo)) = Section(hi, lo)
  <1>1. ASSUME NEW x \in Moved(From(lo, hi, lo)) PROVE x \in Section(hi, lo)
    <2>1. PICK p \in From(lo, hi, lo) : p[1] \in code /\ x = p[2]
      BY DEF Moved
    <2>2. PICK b \in lo .. hi : p = <<b, b - lo>>
      BY DEF From
    <2> QED BY <2>1, <2>2 DEF Section
  <1>2. ASSUME NEW x \in Section(hi, lo) PROVE x \in Moved(From(lo, hi, lo))
    <2>1. PICK b \in code \cap (lo .. hi) : x = b - lo
      BY DEF Section
    <2>2. <<b, x>> \in From(lo, hi, lo) /\ <<b, x>>[1] \in code /\ <<b, x>>[2] = x
      BY <2>1 DEF From
    <2> QED BY <2>2 DEF Moved
  <1> QED BY <1>1, <1>2

(* In the manual an immediate's bits are code bits, and the one at its     *)
(* sign, which is the highest, is bit 31 of the code.                      *)
LEMMA ManualImmIs ==
    ASSUME NEW format \in {"I", "S", "B", "U", "J", "SHIFT", "SHIFTW", "none"}
    PROVE  /\ ManualImm(format).sign \in 0 .. 32
           /\ \A q \in ManualImm(format).bits :
                q[1] \in 0 .. 31 /\ q[2] \in 0 .. 31 /\ q[2] <= ManualImm(format).sign
                /\ (q[2] = ManualImm(format).sign => q[1] = 31)
           /\ ManualImm(format).sign = 32
                \/ <<31, ManualImm(format).sign>> \in ManualImm(format).bits
  <1>1. ASSUME NEW lo \in Nat, NEW hi \in Nat, NEW shift \in Int, NEW q \in From(lo, hi, shift)
        PROVE  q[1] \in lo .. hi /\ q[2] = q[1] - shift
    BY DEF From
  <1>2. ASSUME NEW lo \in Nat, NEW hi \in Nat, NEW shift \in Int, lo <= hi
        PROVE  <<hi, hi - shift>> \in From(lo, hi, shift)
    BY <1>2 DEF From
  <1>3. CASE format = "I"
    <2>1. ManualImm(format) = [sign |-> 11, bits |-> From(20, 31, 20)]
      BY <1>3 DEF ManualImm
    <2>2. \A q \in From(20, 31, 20) : q[1] \in 20 .. 31 /\ q[2] = q[1] - 20
      BY <1>1
    <2>3. <<31, 31 - 20>> \in From(20, 31, 20)
      BY <1>2
    <2> QED BY <2>1, <2>2, <2>3
  <1>4. CASE format = "S"
    <2>1. ManualImm(format) = [sign |-> 11, bits |-> From(25, 31, 20) \cup From(7, 11, 7)]
      BY <1>4 DEF ManualImm
    <2>2. \A q \in From(25, 31, 20) : q[1] \in 25 .. 31 /\ q[2] = q[1] - 20
      BY <1>1
    <2>3. \A q \in From(7, 11, 7) : q[1] \in 7 .. 11 /\ q[2] = q[1] - 7
      BY <1>1
    <2>4. <<31, 31 - 20>> \in From(25, 31, 20)
      BY <1>2
    <2> QED BY <2>1, <2>2, <2>3, <2>4
  <1>5. CASE format = "B"
    <2>1. ManualImm(format) = [sign |-> 12, bits |-> {<<31, 12>>, <<7, 11>>}
                                   \cup From(25, 30, 20) \cup From(8, 11, 7)]
      BY <1>5 DEF ManualImm
    <2>2. \A q \in From(25, 30, 20) : q[1] \in 25 .. 30 /\ q[2] = q[1] - 20
      BY <1>1
    <2>3. \A q \in From(8, 11, 7) : q[1] \in 8 .. 11 /\ q[2] = q[1] - 7
      BY <1>1
    <2> QED BY <2>1, <2>2, <2>3
  <1>6. CASE format = "U"
    <2>1. ManualImm(format) = [sign |-> 31, bits |-> From(12, 31, 0)]
      BY <1>6 DEF ManualImm
    <2>2. \A q \in From(12, 31, 0) : q[1] \in 12 .. 31 /\ q[2] = q[1] - 0
      BY DEF From
    <2>3. <<31, 31 - 0>> \in From(12, 31, 0)
      BY <1>2
    <2> QED BY <2>1, <2>2, <2>3
  <1>7. CASE format = "J"
    <2>1. ManualImm(format) = [sign |-> 20, bits |-> {<<31, 20>>, <<20, 11>>}
                                   \cup From(21, 30, 20) \cup From(12, 19, 0)]
      BY <1>7 DEF ManualImm
    <2>2. \A q \in From(21, 30, 20) : q[1] \in 21 .. 30 /\ q[2] = q[1] - 20
      BY <1>1
    <2>3. \A q \in From(12, 19, 0) : q[1] \in 12 .. 19 /\ q[2] = q[1] - 0
      BY <1>1
    <2> QED BY <2>1, <2>2, <2>3
  <1>8. CASE format = "SHIFT"
    <2>1. ManualImm(format) = [sign |-> 32, bits |-> From(20, 25, 20)]
      BY <1>8 DEF ManualImm
    <2>2. \A q \in From(20, 25, 20) : q[1] \in 20 .. 25 /\ q[2] = q[1] - 20
      BY <1>1
    <2> QED BY <2>1, <2>2
  <1>9. CASE format = "SHIFTW"
    <2>1. ManualImm(format) = [sign |-> 32, bits |-> From(20, 24, 20)]
      BY <1>9 DEF ManualImm
    <2>2. \A q \in From(20, 24, 20) : q[1] \in 20 .. 24 /\ q[2] = q[1] - 20
      BY <1>1
    <2> QED BY <2>1, <2>2
  <1>10. CASE format = "none"
    BY <1>10 DEF ManualImm
  <1> QED BY <1>3, <1>4, <1>5, <1>6, <1>7, <1>8, <1>9, <1>10

(* The instruction's immediate and registers, as the leaf assigns them,    *)
(* are the manual's.                                                       *)
ManualSigned(i) ==
    Moved(ManualImm(Format[i]).bits)
        \cup IF 31 \in code THEN ManualImm(Format[i]).sign .. 31 ELSE {}

LEMMA AssignedIs ==
    ASSUME NEW i \in DOMAIN Instructions, code \subseteq CodeBits
    PROVE  /\ Assigned(i).id = i
           /\ Assigned(i).imm = ManualSigned(i)
           /\ Assigned(i).rd =
                IF "rd" \in Instructions[i].fields THEN Section(11, 7) ELSE {}
           /\ Assigned(i).rs1 =
                IF "rs1" \in Instructions[i].fields THEN Section(19, 15) ELSE {}
           /\ Assigned(i).rs2 =
                IF "rs2" \in Instructions[i].fields THEN Section(24, 20) ELSE {}
  <1> DEFINE fields == Instructions[i].fields
             imm == ManualImm(Format[i])
             imms == fields \cap KNOWN_IMMS
  <1>1. FieldsPlaced(i)
    BY DecoderAssumption
  <1>2. ASSUME NEW f \in fields
        PROVE  UNION {GenerateGetBinValue(s) : s \in Fields[f]} = Moved(Places(f))
    <2>1. \A s \in Fields[f] : InCode(s) /\ s.to \in Nat
      BY <1>1 DEF FieldsPlaced
    <2> QED BY <2>1, SectionsPlaced
  <1>3. "rd" \in fields => Register("rd", fields) = Section(11, 7)
    <2>1. "rd" \in fields => Places("rd") = From(7, 11, 7)
      BY <1>1 DEF FieldsPlaced
    <2> HIDE DEF fields
    <2> QED BY <1>2, <2>1, FromIs DEF Register
  <1>4. "rs1" \in fields => Register("rs1", fields) = Section(19, 15)
    <2>1. "rs1" \in fields => Places("rs1") = From(15, 19, 15)
      BY <1>1 DEF FieldsPlaced
    <2> HIDE DEF fields
    <2> QED BY <1>2, <2>1, FromIs DEF Register
  <1>5. "rs2" \in fields => Register("rs2", fields) = Section(24, 20)
    <2>1. "rs2" \in fields => Places("rs2") = From(20, 24, 20)
      BY <1>1 DEF FieldsPlaced
    <2> HIDE DEF fields
    <2> QED BY <1>2, <2>1, FromIs DEF Register
  <1>6. /\ Format[i] \in {"I", "S", "B", "U", "J", "SHIFT", "SHIFTW", "none"}
        /\ imms = {} => imm.bits = {} /\ imm.sign = 32
        /\ \A f \in imms :
            /\ imms = {f} /\ Places(f) = imm.bits
            /\ imm.sign = IF f \in IMMS_NO_EXTEND THEN 32 ELSE ExtendFrom(f)
    BY <1>1 DEF FieldsPlaced
  <1>7. /\ imm.sign \in 0 .. 32
        /\ \A q \in imm.bits :
            q[1] \in 0 .. 31 /\ q[2] \in 0 .. 31 /\ q[2] <= imm.sign
            /\ (q[2] = imm.sign => q[1] = 31)
        /\ imm.sign = 32 \/ <<31, imm.sign>> \in imm.bits
    BY <1>6, ManualImmIs
  <1>8. UNION {Immediate(f) : f \in imms} = ManualSigned(i)
    <2>1. ManualSigned(i) = Moved(imm.bits) \cup IF 31 \in code THEN imm.sign .. 31 ELSE {}
      BY DEF ManualSigned
    <2> HIDE DEF imm
    <2>2. CASE imms = {}
      <3>1. imm.bits = {} /\ imm.sign .. 31 = {}
        BY <1>6, <2>2
      <3> QED BY <2>1, <2>2, <3>1 DEF Moved
    <2>3. ASSUME NEW f \in imms PROVE UNION {Immediate(g) : g \in imms} = ManualSigned(i)
      <3>1. imms = {f} /\ f \in fields /\ f \in KNOWN_IMMS /\ Places(f) = imm.bits
        BY <1>6
      <3> DEFINE raw == UNION {GenerateGetBinValue(s) : s \in Fields[f]}
                 top == IF 31 \in code THEN imm.sign .. 31 ELSE {}
      <3>2. raw = Moved(imm.bits)
        BY <1>2, <3>1
      <3>3. UNION {Immediate(g) : g \in imms} = Immediate(f)
        BY <3>1
      <3>4. Immediate(f) = IF Extended(f) THEN signExtend(ExtendFrom(f), raw) ELSE raw
        BY DEF Immediate
      <3>5. \A x \in raw : x \in 0 .. 31 /\ x <= imm.sign /\ (x = imm.sign => 31 \in code)
        BY <1>7, <3>2 DEF Moved
      <3>6. 31 \in code /\ imm.sign # 32 => imm.sign \in raw
        <4>1. <<31, imm.sign>>[1] = 31 /\ <<31, imm.sign>>[2] = imm.sign
          OBVIOUS
        <4> QED BY <1>7, <3>2, <4>1 DEF Moved
      <3> HIDE DEF raw
      <3>7. CASE Extended(f)
        <4>1. imm.sign = ExtendFrom(f) /\ imm.sign <= 30
          BY <1>6, <3>7 DEF Extended
        <4>2. raw \cap (0 .. imm.sign) = raw
          BY <1>7, <3>5
        <4>3. imm.sign \in raw <=> 31 \in code
          BY <3>5, <3>6, <4>1
        <4>4. Immediate(f) = raw \cup top
          BY <3>4, <3>7, <4>1, <4>2, <4>3 DEF signExtend
        <4> QED BY <2>1, <3>2, <3>3, <4>4
      <3>8. CASE ~Extended(f)
        <4>1. imm.sign \in {31, 32}
          <5>1. CASE f \in IMMS_NO_EXTEND
            BY <1>6, <5>1
          <5>2. CASE f \notin IMMS_NO_EXTEND
            <6>1. ExtendFrom(f) = imm.sign /\ ~(ExtendFrom(f) <= 30)
              BY <1>6, <3>8, <5>2 DEF Extended
            <6> QED BY <1>7, <6>1
          <5> QED BY <5>1, <5>2
        <4>2. \A x \in top : x \in raw
          BY <3>6, <4>1
        <4>3. raw \cup top = raw
          BY <4>2
        <4>4. Immediate(f) = raw
          BY <3>4, <3>8
        <4> QED BY <2>1, <3>2, <3>3, <4>3, <4>4
      <3> QED BY <3>7, <3>8
    <2> QED BY <2>2, <2>3
  <1> QED BY <1>3, <1>4, <1>5, <1>8 DEF Assigned, Register

(* A code with the fixed bits of an instruction has their digits.          *)
LEMMA MatchesIs ==
    ASSUME NEW i \in DOMAIN Instructions
    PROVE  Matches(i) <=> Agrees(FixedBits(i))
  <1>1. ASSUME NEW t \in Instructions[i].fixed
        PROVE  ValueOf(Section(t.msb, t.lsb)) = t.value <=> Agrees(Demands(t, t.value))
    <2>1. InCode(t) /\ t.value \in 0 .. 2 ^ (1 + t.msb - t.lsb) - 1
      BY DecoderAssumption
    <2> QED BY <2>1, SectionIs
  <1>2. Agrees(FixedBits(i)) <=> \A t \in Instructions[i].fixed : Agrees(Demands(t, t.value))
    BY DEF Agrees, FixedBits
  <1> QED BY <1>1, <1>2 DEF Matches

(* A code does not have the digits of both sets when they conflict.        *)
LEMMA NoConflict ==
    ASSUME NEW A, NEW B, Agrees(A), Agrees(B)
    PROVE  ~Conflict(A, B)
  <1> SUFFICES ASSUME NEW x \in A, <<x[1], 1 - x[2]>> \in B PROVE FALSE
    BY DEF Conflict
  <1>1. x[2] = IF x[1] \in code THEN 1 ELSE 0
    BY DEF Agrees
  <1>2. 1 - x[2] = IF x[1] \in code THEN 1 ELSE 0
    <2>1. <<x[1], 1 - x[2]>>[2] = 1 - x[2] /\ <<x[1], 1 - x[2]>>[1] = x[1]
      OBVIOUS
    <2> QED BY <2>1 DEF Agrees
  <1> QED BY <1>1, <1>2

(* The code and the leaf's instruction are what is assumed of them.        *)
LEMMA DecoderTypes ==
    ASSUME DecoderInv
    PROVE  /\ code \subseteq CodeBits
           /\ IsLeaf(Tree[at]) => Tree[at].mnemonic \in DOMAIN Instructions
           /\ IF done /\ IsLeaf(Tree[at]) THEN instr = Assigned(Tree[at].mnemonic)
              ELSE instr = Default
  <1>1. code \subseteq CodeBits
    BY DecoderAssumption DEF DecoderInv
  <1> QED BY <1>1, TreeIs DEF DecoderInv

(* The members of Instr hold what their types can, whatever is decoded.    *)
THEOREM InstrTypeOKTheorem == DecoderSpec => []InstrTypeOK
  <1>1. ASSUME DecoderInv PROVE InstrTypeOK
    <2>1. CASE instr = Default
      BY <2>1 DEF InstrTypeOK, Default, KNOWN_REGS
    <2>2. ASSUME NEW i \in DOMAIN Instructions, instr = Assigned(i) PROVE InstrTypeOK
      <3>1. code \subseteq CodeBits
        BY <1>1, DecoderTypes
      <3>2. \A q \in ManualImm(Format[i]).bits : q[2] \in 0 .. 31
        <4>1. Format[i] \in {"I", "S", "B", "U", "J", "SHIFT", "SHIFTW", "none"}
          BY DecoderAssumption DEF FieldsPlaced
        <4> QED BY <4>1, ManualImmIs
      <3>3. ManualImm(Format[i]).sign \in 0 .. 32
        <4>1. Format[i] \in {"I", "S", "B", "U", "J", "SHIFT", "SHIFTW", "none"}
          BY DecoderAssumption DEF FieldsPlaced
        <4> QED BY <4>1, ManualImmIs
      <3>4. ManualSigned(i) \subseteq CodeBits
        BY <3>2, <3>3 DEF ManualSigned, Moved, CodeBits
      <3>5. /\ Section(11, 7) \subseteq 0 .. 4 /\ Section(19, 15) \subseteq 0 .. 4
            /\ Section(24, 20) \subseteq 0 .. 4
        BY DEF Section
      <3>6. /\ instr.id = i /\ instr.imm \subseteq CodeBits /\ instr.rd \subseteq 0 .. 4
            /\ instr.rs1 \subseteq 0 .. 4 /\ instr.rs2 \subseteq 0 .. 4
        BY <2>2, <3>1, <3>4, <3>5, AssignedIs
      <3> QED BY <3>6 DEF InstrTypeOK, KNOWN_REGS
    <2> QED BY <1>1, <2>1, <2>2, DecoderTypes
  <1> QED BY <1>1, DecoderInvariant, PTL

(* No code, of all there are, is taken for an instruction whose fixed bits *)
(* it does not have, when the switches above a leaf test those bits.       *)
THEOREM OnlyValidCodesDecodedTheorem == DecoderSpec => []OnlyValidCodesDecoded
  <1>1. ASSUME DecoderInv, done, instr.id \notin LooseIds \cup {"SIM_STATUS_INSTR"}
        PROVE  Matches(instr.id)
    <2>1. IsLeaf(Tree[at]) /\ instr = Assigned(Tree[at].mnemonic)
      <3>1. instr # Default
        BY <1>1 DEF Default
      <3> QED BY <1>1, <3>1, DecoderTypes
    <2>2. PICK i \in DOMAIN Instructions : i = Tree[at].mnemonic /\ i = instr.id
      BY <1>1, <2>1, DecoderTypes DEF Assigned
    <2>3. FixedBits(i) \subseteq PathBits(at)
      <3>1. LeafTests(at)
        BY <1>1, DecoderAssumption DEF DecoderInv
      <3> QED BY <1>1, <2>1, <2>2, <3>1 DEF LeafTests
    <2>4. Agrees(FixedBits(i))
      BY <1>1, <2>3 DEF DecoderInv, Agrees
    <2> QED BY <2>2, <2>4, MatchesIs
  <1>2. DecoderInv => OnlyValidCodesDecoded
    BY <1>1 DEF OnlyValidCodesDecoded
  <1> QED BY <1>2, DecoderInvariant, PTL

(* Every code with the fixed bits of an instruction, of all there are, is  *)
(* decoded to it with the manual's registers and sign-extended immediate.  *)
THEOREM ValidCodesDecodedTheorem == DecoderSpec => []ValidCodesDecoded
  <1>1. ASSUME DecoderInv, NEW i \in DOMAIN Instructions, done, Matches(i)
        PROVE  instr = Assigned(i)
    <2>1. Agrees(FixedBits(i)) /\ Agrees(PathBits(at))
      BY <1>1, MatchesIs DEF DecoderInv
    <2>2. ~Conflict(FixedBits(i), PathBits(at))
      BY <2>1, NoConflict
    <2>3. LeadsOn(at)
      BY <1>1, DecoderAssumption DEF DecoderInv
    <2>4. CASE IsLeaf(Tree[at])
      <3>1. Tree[at].mnemonic = i
        BY <2>2, <2>3, <2>4 DEF LeadsOn
      <3> QED BY <1>1, <2>4, <3>1 DEF DecoderInv
    <2>5. CASE ~IsLeaf(Tree[at])
      <3> DEFINE v == ValueOf(Section(Tree[at].msb, Tree[at].lsb))
      <3>1. InCode(Tree[at])
        BY <1>1, <2>5, TreeIs DEF DecoderInv
      <3>2. v \in 0 .. 2 ^ (1 + Tree[at].msb - Tree[at].lsb) - 1 /\ Agrees(Demands(Tree[at], v))
        BY <3>1, SectionIs
      <3>3. Append(at, v) \notin DOMAIN Tree
        BY <1>1, <2>5 DEF DecoderInv, NextLabel
      <3> HIDE DEF v
      <3>4. Conflict(Demands(Tree[at], v), FixedBits(i))
        BY <2>2, <2>3, <2>5, <3>2, <3>3 DEF LeadsOn
      <3> QED BY <2>1, <3>2, <3>4, NoConflict
    <2> QED BY <2>4, <2>5
  <1>2. ASSUME DecoderInv, NEW i \in DOMAIN Instructions, done, Matches(i)
        PROVE  LET imm == ManualImm(Format[i])
               IN  /\ instr.id = i
                   /\ instr.imm = {p[2] : p \in {q \in imm.bits : q[1] \in code}}
                                      \cup IF 31 \in code THEN imm.sign .. 31 ELSE {}
                   /\ \A r \in KNOWN_REGS \cap Instructions[i].fields :
                          instr[r] = CASE r = "rd"  -> Section(11, 7)
                                       [] r = "rs1" -> Section(19, 15)
                                       [] r = "rs2" -> Section(24, 20)
    <2>1. instr = Assigned(i) /\ code \subseteq CodeBits
      BY <1>1, <1>2, DecoderTypes
    <2>2. instr.id = i /\ instr.imm = ManualSigned(i)
      BY <2>1, AssignedIs
    <2>3. /\ "rd" \in Instructions[i].fields => instr.rd = Section(11, 7)
          /\ "rs1" \in Instructions[i].fields => instr.rs1 = Section(19, 15)
          /\ "rs2" \in Instructions[i].fields => instr.rs2 = Section(24, 20)
      BY <2>1, AssignedIs
    <2>4. ASSUME NEW r \in KNOWN_REGS \cap Instructions[i].fields
          PROVE  instr[r] = CASE r = "rd"  -> Section(11, 7)
                              [] r = "rs1" -> Section(19, 15)
                              [] r = "rs2" -> Section(24, 20)
      BY <2>3 DEF KNOWN_REGS
    <2> QED BY <2>2, <2>4 DEF ManualSigned, Moved
  <1>3. DecoderInv => ValidCodesDecoded
    BY <1>2 DEF ValidCodesDecoded
  <1> QED BY <1>3, DecoderInvariant, PTL
=============================================================================
