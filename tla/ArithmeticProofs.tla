-------------------------- MODULE ArithmeticProofs --------------------------
(***************************************************************************)
(* Facts about numbers that the other proofs rest on: induction, powers of *)
(* two, division with remainder, and the sums that the community module    *)
(* Functions defines by a fold.  Induction is stated for sets, which the   *)
(* provers can instantiate.                                                *)
(***************************************************************************)
EXTENDS Integers, FiniteSets, Functions, FiniteSetTheorems, WellFoundedInduction, TLAPS

(* Every nonempty set of naturals has a least member. *)
LEMMA LeastNatural ==
    ASSUME NEW T, T \subseteq Nat, T # {}
    PROVE  \E x \in T : \A y \in T : x <= y
  <1> DEFINE R == OpToRel(<, Nat)
  <1>1. \A x, y \in Nat : y < x => <<y, x>> \in R
    BY DEF OpToRel
  <1>2. IsWellFoundedOn(R, Nat)
    BY NatLessThanWellFounded
  <1> HIDE DEF R
  <1>3. PICK x \in T : \A y \in T : ~(<<y, x>> \in R)
    BY <1>2, WFMin
  <1>4. \A y \in T : ~(y < x)
    BY <1>1, <1>3
  <1>5. \A y \in T : x <= y
    BY <1>4
  <1> QED BY <1>5

(* Induction. *)
LEMMA SetInduction ==
    ASSUME NEW S, 0 \in S, \A n \in Nat : n \in S => n + 1 \in S
    PROVE  \A n \in Nat : n \in S
  <1> SUFFICES ASSUME NEW n \in Nat, n \notin S PROVE FALSE
    OBVIOUS
  <1> DEFINE T == {m \in Nat : m \notin S}
  <1>1. PICK x \in T : \A y \in T : x <= y
    BY LeastNatural
  <1>2. x # 0 /\ x - 1 \in Nat
    BY <1>1
  <1>3. x - 1 \in S
    BY <1>1, <1>2
  <1> QED BY <1>1, <1>2, <1>3

-----------------------------------------------------------------------------
(* Sums.  The fold of SumFunctionOnSet removes the members of the set one  *)
(* by one.                                                                 *)
Picked(s) == CHOOSE x \in s : TRUE

IsSum(g, f, S) ==
    g = [s \in SUBSET S |->
            IF s = {} THEN 0 ELSE f[Picked(s)] + g[s \ {Picked(s)}]]

(* Its recursive function exists: on the subsets of at most n members, by  *)
(* induction on n, and so on all.                                          *)
LEMMA SumExists ==
    ASSUME NEW S, IsFiniteSet(S), NEW f
    PROVE  \E g : IsSum(g, f, S)
  <1> DEFINE Small(n) == {s \in SUBSET S : Cardinality(s) <= n}
             Val(g, s) == IF s = {} THEN 0 ELSE f[Picked(s)] + g[s \ {Picked(s)}]
             Ok(g, n) == g = [s \in Small(n) |-> Val(g, s)]
             Ns == {n \in Nat : \E g : Ok(g, n)}
  <1>1. \A s \in SUBSET S : IsFiniteSet(s) /\ Cardinality(s) \in Nat
    BY FS_Subset, FS_CardinalityType
  <1>2. ASSUME NEW s \in SUBSET S, s # {}
        PROVE  /\ Picked(s) \in s /\ s \ {Picked(s)} \in SUBSET S
               /\ Cardinality(s \ {Picked(s)}) = Cardinality(s) - 1
    <2>1. Picked(s) \in s
      BY <1>2 DEF Picked
    <2> QED BY <1>1, <2>1, FS_RemoveElement
  <1>3. 0 \in Ns
    <2>1. Small(0) = {{}}
      BY <1>1, FS_EmptySet
    <2>2. Ok([s \in Small(0) |-> 0], 0)
      BY <2>1
    <2> QED BY <2>2
  <1>4. ASSUME NEW n \in Nat, n \in Ns PROVE n + 1 \in Ns
    <2>1. PICK g : Ok(g, n)
      BY <1>4
    <2> DEFINE h == [s \in Small(n + 1) |-> IF s \in Small(n) THEN g[s] ELSE Val(g, s)]
    <2>2. \A s \in Small(n + 1) : s # {} => s \ {Picked(s)} \in Small(n)
      BY <1>1, <1>2
    <2>3. \A s \in Small(n) : s \in Small(n + 1)
      BY <1>1
    <2>4. \A s \in Small(n) : g[s] = Val(g, s)
      BY <2>1
    <2> HIDE DEF Small
    <2>5. \A s \in Small(n) : h[s] = g[s]
      BY <2>3
    <2>6. \A s \in Small(n + 1) : h[s] = Val(g, s)
      BY <2>4
    <2>7. \A s \in Small(n + 1) : Val(g, s) = Val(h, s)
      BY <2>2, <2>5
    <2>8. Ok(h, n + 1)
      <3>1. h = [s \in Small(n + 1) |-> h[s]]
        OBVIOUS
      <3> HIDE DEF h, Val
      <3> QED BY <2>6, <2>7, <3>1
    <2> HIDE DEF h, Ok
    <2>9. \E gg : Ok(gg, n + 1)
      BY <2>8
    <2> QED BY <2>9
  <1>5. Cardinality(S) \in Nat /\ Cardinality(S) \in Ns
    <2> HIDE DEF Ns
    <2> QED BY <1>3, <1>4, FS_CardinalityType, SetInduction
  <1>6. PICK g : Ok(g, Cardinality(S))
    BY <1>5
  <1>7. Small(Cardinality(S)) = SUBSET S
    BY FS_Subset
  <1> QED BY <1>6, <1>7 DEF IsSum

(* The sum is the value of the function that its fold chooses. *)
LEMMA SumUnfold ==
    ASSUME NEW S, NEW f
    PROVE  SumFunctionOnSet(f, S) = (CHOOSE g : IsSum(g, f, S))[S]
  BY DEF SumFunctionOnSet, FoldFunctionOnSet, MapThenFoldSet, IsSum, Picked

(* What a sum is: nothing, or a member and the rest.  The member the fold  *)
(* picks first, that is; SumRemove is about any member.                    *)
LEMMA SumPicked ==
    ASSUME NEW S, IsFiniteSet(S), NEW f
    PROVE  /\ SumFunctionOnSet(f, {}) = 0
           /\ S # {} => SumFunctionOnSet(f, S) =
                          f[Picked(S)] + SumFunctionOnSet(f, S \ {Picked(S)})
  <1> DEFINE G(T) == CHOOSE g : IsSum(g, f, T)
  <1>1. \A T : IsFiniteSet(T) => IsSum(G(T), f, T)
    BY SumExists
  <1>2. \A T : SumFunctionOnSet(f, T) = G(T)[T]
    BY SumUnfold
  <1> HIDE DEF G
  <1>3. IsFiniteSet({})
    BY FS_EmptySet
  <1>4. G({})[{}] = 0
    BY <1>1, <1>3 DEF IsSum
  <1>5. ASSUME S # {} PROVE SumFunctionOnSet(f, S) =
                          f[Picked(S)] + SumFunctionOnSet(f, S \ {Picked(S)})
    <2> DEFINE T == S \ {Picked(S)}
    <2>1. IsFiniteSet(T) /\ T \in SUBSET S
      BY FS_Subset
    <2>2. IsSum(G(S), f, S) /\ IsSum(G(T), f, T)
      BY <1>1, <2>1
    <2>3. G(S)[S] = f[Picked(S)] + G(S)[T]
      BY <1>5, <2>2 DEF IsSum
    <2>4. ASSUME NEW g, NEW h, IsSum(g, f, S), IsSum(h, f, T)
          PROVE  g[T] = h[T]
      <3> DEFINE Ns == {n \in Nat : \A s \in SUBSET T : Cardinality(s) = n => g[s] = h[s]}
      <3>1. \A s \in SUBSET T : /\ IsFiniteSet(s) /\ Cardinality(s) \in Nat
                                /\ s \in SUBSET S
        BY <2>1, FS_Subset, FS_CardinalityType
      <3>2. 0 \in Ns
        <4>1. \A s \in SUBSET T : Cardinality(s) = 0 => s = {}
          BY <3>1, FS_EmptySet
        <4>2. g[{}] = 0 /\ h[{}] = 0
          BY <2>4 DEF IsSum
        <4> QED BY <4>1, <4>2
      <3>3. ASSUME NEW n \in Nat, n \in Ns PROVE n + 1 \in Ns
        <4> SUFFICES ASSUME NEW s \in SUBSET T, Cardinality(s) = n + 1 PROVE g[s] = h[s]
          OBVIOUS
        <4>1. s # {} /\ Picked(s) \in s
          BY FS_EmptySet DEF Picked
        <4> DEFINE r == s \ {Picked(s)}
        <4>2. r \in SUBSET T /\ Cardinality(r) = n
          <5>1. IsFiniteSet(s)
            BY <3>1
          <5>2. Cardinality(r) = Cardinality(s) - 1
            BY <4>1, <5>1, FS_RemoveElement
          <5> QED BY <5>2
        <4>3. g[r] = h[r]
          BY <3>3, <4>2
        <4>4. g[s] = f[Picked(s)] + g[r] /\ h[s] = f[Picked(s)] + h[r]
          BY <2>4, <3>1, <4>1 DEF IsSum
        <4> QED BY <4>3, <4>4
      <3> HIDE DEF Ns
      <3>4. \A n \in Nat : n \in Ns
        BY <3>2, <3>3, SetInduction
      <3> QED BY <3>1, <3>4 DEF Ns
    <2>5. G(S)[T] = G(T)[T]
      BY <2>2, <2>4
    <2> QED BY <1>2, <2>3, <2>5
  <1> QED BY <1>2, <1>4, <1>5

(* A sum of integers is an integer. *)
LEMMA SumType ==
    ASSUME NEW S, IsFiniteSet(S), NEW f, \A x \in S : f[x] \in Int
    PROVE  \A s \in SUBSET S : SumFunctionOnSet(f, s) \in Int
  <1> DEFINE Sum(s) == SumFunctionOnSet(f, s)
             Ns == {n \in Nat : \A s \in SUBSET S : Cardinality(s) = n => Sum(s) \in Int}
  <1>1. \A s \in SUBSET S : IsFiniteSet(s) /\ Cardinality(s) \in Nat
    BY FS_Subset, FS_CardinalityType
  <1>2. \A s \in SUBSET S : s # {} => Sum(s) = f[Picked(s)] + Sum(s \ {Picked(s)})
    BY <1>1, SumPicked
  <1>3. Sum({}) = 0
    BY SumPicked
  <1> HIDE DEF Sum
  <1>4. 0 \in Ns
    <2>1. \A s \in SUBSET S : Cardinality(s) = 0 => s = {}
      BY <1>1, FS_EmptySet
    <2> QED BY <1>3, <2>1
  <1>5. ASSUME NEW n \in Nat, n \in Ns PROVE n + 1 \in Ns
    <2> SUFFICES ASSUME NEW s \in SUBSET S, Cardinality(s) = n + 1 PROVE Sum(s) \in Int
      OBVIOUS
    <2>1. s # {} /\ Picked(s) \in s
      BY FS_EmptySet DEF Picked
    <2>2. Cardinality(s \ {Picked(s)}) = n
      BY <1>1, <2>1, FS_RemoveElement
    <2>3. Sum(s \ {Picked(s)}) \in Int
      BY <1>5, <2>2
    <2> QED BY <1>2, <2>1, <2>3
  <1> HIDE DEF Ns
  <1>6. \A n \in Nat : n \in Ns
    BY <1>4, <1>5, SetInduction
  <1>7. \A s \in SUBSET S : Sum(s) \in Int
    BY <1>1, <1>6 DEF Ns
  <1> QED BY <1>7 DEF Sum

(* Any member of the set may be added last. *)
LEMMA SumRemove ==
    ASSUME NEW S, IsFiniteSet(S), NEW f, \A x \in S : f[x] \in Int
    PROVE  \A x \in S : SumFunctionOnSet(f, S) = f[x] + SumFunctionOnSet(f, S \ {x})
  <1> DEFINE Sum(s) == SumFunctionOnSet(f, s)
             Good(s) == \A x \in s : Sum(s) = f[x] + Sum(s \ {x})
             Ns == {n \in Nat : \A s \in SUBSET S : Cardinality(s) = n => Good(s)}
  <1>1. \A s \in SUBSET S : IsFiniteSet(s) /\ Cardinality(s) \in Nat
    BY FS_Subset, FS_CardinalityType
  <1>2. \A s \in SUBSET S : s # {} => Sum(s) = f[Picked(s)] + Sum(s \ {Picked(s)})
    BY <1>1, SumPicked
  <1>3. \A s \in SUBSET S : Sum(s) \in Int
    BY SumType
  <1> HIDE DEF Sum
  <1>4. 0 \in Ns
    <2>1. \A s \in SUBSET S : Cardinality(s) = 0 => s = {}
      BY <1>1, FS_EmptySet
    <2>2. Good({})
      OBVIOUS
    <2> HIDE DEF Good
    <2> QED BY <2>1, <2>2
  <1>5. ASSUME NEW n \in Nat, n \in Ns PROVE n + 1 \in Ns
    <2> SUFFICES ASSUME NEW s \in SUBSET S, Cardinality(s) = n + 1, NEW x \in s
                 PROVE  Sum(s) = f[x] + Sum(s \ {x})
      OBVIOUS
    <2> DEFINE p == Picked(s)
    <2>1. s # {} /\ p \in s
      BY FS_EmptySet DEF Picked
    <2>2. Sum(s) = f[p] + Sum(s \ {p})
      BY <1>2, <2>1
    <2> HIDE DEF p
    <2>3. \A y \in s : Cardinality(s \ {y}) = n
      BY <1>1, FS_RemoveElement
    <2>4. \A y \in s : Good(s \ {y})
      BY <1>5, <2>3
    <2>5. CASE x = p
      BY <2>2, <2>5
    <2>6. CASE x # p
      <3> DEFINE r == (s \ {p}) \ {x}
      <3>1. Sum(s \ {p}) = f[x] + Sum(r)
        BY <2>1, <2>4, <2>6
      <3>2. (s \ {x}) \ {p} = r
        OBVIOUS
      <3>3. Sum(s \ {x}) = f[p] + Sum(r)
        BY <2>1, <2>4, <2>6, <3>2
      <3>4. Sum(r) \in Int /\ f[x] \in Int /\ f[p] \in Int
        BY <1>3, <2>1
      <3> HIDE DEF r
      <3>5. f[p] + (f[x] + Sum(r)) = f[x] + (f[p] + Sum(r))
        BY <3>4
      <3> QED BY <2>2, <3>1, <3>3, <3>5
    <2> QED BY <2>5, <2>6
  <1> HIDE DEF Ns
  <1>6. \A n \in Nat : n \in Ns
    BY <1>4, <1>5, SetInduction
  <1>7. Good(S)
    BY <1>1, <1>6 DEF Ns
  <1> QED BY <1>7 DEF Sum

(* A sum depends on the function's values in the set only. *)
LEMMA SumEqual ==
    ASSUME NEW S, IsFiniteSet(S), NEW f, NEW g,
           \A x \in S : f[x] = g[x] /\ f[x] \in Int
    PROVE  SumFunctionOnSet(f, S) = SumFunctionOnSet(g, S)
  <1> DEFINE Good(s) == SumFunctionOnSet(f, s) = SumFunctionOnSet(g, s)
             Ns == {n \in Nat : \A s \in SUBSET S : Cardinality(s) = n => Good(s)}
  <1>1. \A s \in SUBSET S : IsFiniteSet(s) /\ Cardinality(s) \in Nat
    BY FS_Subset, FS_CardinalityType
  <1>2. 0 \in Ns
    <2>1. \A s \in SUBSET S : Cardinality(s) = 0 => s = {}
      BY <1>1, FS_EmptySet
    <2>2. Good({})
      BY SumPicked, FS_EmptySet
    <2> HIDE DEF Good
    <2> QED BY <2>1, <2>2
  <1>3. ASSUME NEW n \in Nat, n \in Ns PROVE n + 1 \in Ns
    <2> SUFFICES ASSUME NEW s \in SUBSET S, Cardinality(s) = n + 1 PROVE Good(s)
      OBVIOUS
    <2>1. s # {} /\ Picked(s) \in s
      BY FS_EmptySet DEF Picked
    <2>2. Cardinality(s \ {Picked(s)}) = n
      BY <1>1, <2>1, FS_RemoveElement
    <2>3. Good(s \ {Picked(s)})
      BY <1>3, <2>2
    <2>4. /\ SumFunctionOnSet(f, s) = f[Picked(s)] + SumFunctionOnSet(f, s \ {Picked(s)})
          /\ SumFunctionOnSet(g, s) = g[Picked(s)] + SumFunctionOnSet(g, s \ {Picked(s)})
      BY <1>1, <2>1, SumPicked
    <2> QED BY <2>1, <2>3, <2>4
  <1> HIDE DEF Ns
  <1>4. \A n \in Nat : n \in Ns
    BY <1>2, <1>3, SetInduction
  <1>5. Good(S)
    BY <1>1, <1>4 DEF Ns
  <1> QED BY <1>5

-----------------------------------------------------------------------------
(* Division with remainder by a number that is not a literal. *)

(* The quotient and the remainder are what they should be. *)
LEMMA DivMod ==
    ASSUME NEW a \in Int, NEW n \in Nat, n > 0
    PROVE  /\ a \div n \in Int /\ a % n \in 0 .. n - 1
           /\ a = n * (a \div n) + (a % n)
  OBVIOUS

(* A multiple of n that is not zero is at least n away from it. *)
LEMMA Multiple ==
    ASSUME NEW n \in Nat, n > 0, NEW k \in Int
    PROVE  /\ n * k \in Int
           /\ k >= 1 => n * k >= n
           /\ k <= -1 => n * k <= -n
  OBVIOUS

(* They are the only ones. *)
LEMMA DivModUnique ==
    ASSUME NEW a \in Int, NEW n \in Nat, n > 0, NEW q \in Int, NEW r \in 0 .. n - 1,
           a = n * q + r
    PROVE  q = a \div n /\ r = a % n
  <1> DEFINE d == a \div n
             m == a % n
  <1>1. d \in Int /\ m \in 0 .. n - 1 /\ a = n * d + m
    BY DivMod
  <1> HIDE DEF d, m
  <1>2. n * (q - d) = n * q - n * d
    BY <1>1
  <1>3. n * q \in Int /\ n * d \in Int
    BY <1>1
  <1>4. n * (q - d) = m - r
    BY <1>1, <1>2, <1>3
  <1>5. ~(q - d >= 1) /\ ~(q - d <= -1)
    BY <1>1, <1>4, Multiple
  <1>6. q = d
    BY <1>1, <1>5
  <1>7. r = m
    BY <1>1, <1>3, <1>6
  <1> QED BY <1>6, <1>7 DEF d, m

(* A remainder may be taken at any time. *)
LEMMA ModPlus ==
    ASSUME NEW a \in Int, NEW b \in Int, NEW n \in Nat, n > 0
    PROVE  ((a % n) + b) % n = (a + b) % n
  <1> DEFINE d == a \div n
             m == a % n
             e == (m + b) \div n
             r == (m + b) % n
  <1>1. d \in Int /\ m \in 0 .. n - 1 /\ a = n * d + m
    BY DivMod
  <1> HIDE DEF d, m
  <1>2. e \in Int /\ r \in 0 .. n - 1 /\ m + b = n * e + r
    BY <1>1, DivMod
  <1> HIDE DEF e, r
  <1>3. n * d \in Int /\ n * e \in Int /\ n * (d + e) = n * d + n * e
    BY <1>1, <1>2
  <1>4. a + b = n * (d + e) + r
    BY <1>1, <1>2, <1>3
  <1>5. PICK q \in Int : q = d + e
    BY <1>1, <1>2
  <1>6. PICK c \in Int : c = a + b
    OBVIOUS
  <1>7. r = c % n
    BY <1>2, <1>4, <1>5, <1>6, DivModUnique
  <1> QED BY <1>6, <1>7 DEF m, r

(* Dividing a number that is not negative does not make it larger. *)
LEMMA DivBound ==
    ASSUME NEW a \in Nat, NEW n \in Nat, n > 0
    PROVE  a \div n \in 0 .. a
  <1> DEFINE d == a \div n
             m == a % n
  <1>1. d \in Int /\ m \in 0 .. n - 1 /\ a = n * d + m
    BY DivMod
  <1> HIDE DEF d, m
  <1>2. ~(d <= -1)
    BY <1>1, Multiple
  <1>3. n * d >= d
    BY <1>1, <1>2
  <1>4. d \in 0 .. a
    BY <1>1, <1>2, <1>3
  <1> QED BY <1>4 DEF d

-----------------------------------------------------------------------------
(* Powers of two, of which the provers know nothing: 2 ^ n is the number   *)
(* of subsets of a set of n members.                                       *)

(* Powers of two are positive numbers. *)
LEMMA PowerType ==
    ASSUME NEW n \in Nat
    PROVE  2 ^ n \in Nat /\ 2 ^ n > 0
  <1>1. IsFiniteSet(1 .. n) /\ Cardinality(1 .. n) = n
    BY FS_Interval
  <1>2. IsFiniteSet(SUBSET (1 .. n)) /\ Cardinality(SUBSET (1 .. n)) = 2 ^ n
    BY <1>1, FS_SUBSET
  <1>3. Cardinality(SUBSET (1 .. n)) # 0
    BY <1>2, FS_EmptySet
  <1>4. Cardinality(SUBSET (1 .. n)) \in Nat
    BY <1>2, FS_CardinalityType
  <1> QED BY <1>2, <1>3, <1>4

(* With one member more there are twice as many. *)
LEMMA PowerStep ==
    ASSUME NEW n \in Nat
    PROVE  2 ^ (n + 1) = 2 * 2 ^ n
  <1> DEFINE S == 1 .. n
             T == 1 .. n + 1
             A == SUBSET S
             f == [s \in A |-> s \cup {n + 1}]
             B == {f[s] : s \in A}
  <1>1. IsFiniteSet(S) /\ Cardinality(S) = n /\ IsFiniteSet(T) /\ Cardinality(T) = n + 1
    BY FS_Interval
  <1>2. IsFiniteSet(A) /\ Cardinality(A) = 2 ^ n
    BY <1>1, FS_SUBSET
  <1>3. Cardinality(SUBSET T) = 2 ^ (n + 1)
    BY <1>1, FS_SUBSET
  <1>4. n + 1 \notin S /\ T = S \cup {n + 1}
    OBVIOUS
  <1> HIDE DEF S, T
  <1>5. f \in Bijection(A, B)
    <2>1. f \in [A -> B] /\ \A t \in B : \E s \in A : f[s] = t
      OBVIOUS
    <2>2. \A s, t \in A : f[s] = f[t] => s = t
      BY <1>4
    <2> HIDE DEF f, A, B
    <2> QED BY <2>1, <2>2 DEF Bijection, Injection, Surjection, IsInjective
  <1>6. IsFiniteSet(B) /\ Cardinality(B) = Cardinality(A)
    BY <1>2, <1>5, FS_Bijection DEF ExistsBijection
  <1>7. SUBSET T = A \cup B
    <2>1. ASSUME NEW t \in SUBSET T PROVE t \in A \cup B
      <3>1. CASE n + 1 \in t
        <4>1. t \ {n + 1} \in A
          BY <1>4
        <4>2. f[t \ {n + 1}] = t
          BY <3>1, <4>1
        <4> QED BY <4>1, <4>2
      <3>2. CASE n + 1 \notin t
        BY <1>4, <3>2
      <3> QED BY <3>1, <3>2
    <2>2. ASSUME NEW t \in A \cup B PROVE t \in SUBSET T
      BY <1>4
    <2> QED BY <2>1, <2>2
  <1>8. A \cap B = {}
    BY <1>4
  <1>9. Cardinality(A \cup B) = Cardinality(A) + Cardinality(B) - Cardinality(A \cap B)
    BY <1>2, <1>6, FS_Union
  <1> HIDE DEF A, B
  <1>10. Cardinality(A \cap B) = 0
    BY <1>8, FS_EmptySet
  <1>11. PICK x \in Nat : x = 2 ^ n
    BY PowerType
  <1>12. 2 ^ (n + 1) = x + x - 0
    BY <1>2, <1>3, <1>6, <1>7, <1>9, <1>10, <1>11
  <1>13. x + x - 0 = 2 * x
    OBVIOUS
  <1> QED BY <1>11, <1>12, <1>13

(* Powers multiply by adding exponents. *)
LEMMA PowerAdd ==
    ASSUME NEW a \in Nat
    PROVE  \A b \in Nat : 2 ^ (a + b) = 2 ^ a * 2 ^ b
  <1> DEFINE Ns == {b \in Nat : 2 ^ (a + b) = 2 ^ a * 2 ^ b}
  <1>1. 2 ^ 0 = 1
    OBVIOUS
  <1>2. 0 \in Ns
    BY <1>1, PowerType
  <1>3. ASSUME NEW b \in Nat, b \in Ns PROVE b + 1 \in Ns
    <2>1. 2 ^ ((a + b) + 1) = 2 * 2 ^ (a + b) /\ 2 ^ (b + 1) = 2 * 2 ^ b
      BY PowerStep
    <2>2. PICK x : x = 2 ^ a
      OBVIOUS
    <2>3. PICK y : y = 2 ^ b
      OBVIOUS
    <2>4. x \in Nat /\ y \in Nat
      BY <2>2, <2>3, PowerType
    <2>5. 2 * (x * y) = x * (2 * y)
      BY <2>4
    <2>6. (a + b) + 1 = a + (b + 1)
      OBVIOUS
    <2>7. 2 ^ (a + b) = x * y
      BY <1>3, <2>2, <2>3
    <2>8. 2 ^ (a + (b + 1)) = x * 2 ^ (b + 1)
      BY <2>1, <2>3, <2>5, <2>6, <2>7
    <2> QED BY <2>2, <2>8
  <1> HIDE DEF Ns
  <1>4. \A b \in Nat : b \in Ns
    BY <1>2, <1>3, SetInduction
  <1> QED BY <1>4 DEF Ns

(* A number of n digits of B bits, some of them perhaps left out, is below *)
(* 2 ^ (B * n).                                                            *)
LEMMA DigitsBound ==
    ASSUME NEW B \in Nat, NEW f
    PROVE  \A n \in Nat : \A s \in SUBSET (0 .. n - 1) :
               (\A j \in s : \E d \in 0 .. 2 ^ B - 1 : f[j] = d * 2 ^ (B * j))
                   => SumFunctionOnSet(f, s) \in 0 .. 2 ^ (B * n) - 1
  <1> DEFINE Digits(s) == \A j \in s : \E d \in 0 .. 2 ^ B - 1 : f[j] = d * 2 ^ (B * j)
             Sum(s) == SumFunctionOnSet(f, s)
             Ns == {n \in Nat : \A s \in SUBSET (0 .. n - 1) :
                        Digits(s) => Sum(s) \in 0 .. 2 ^ (B * n) - 1}
  <1>1. PICK Q \in Nat : Q = 2 ^ B /\ Q > 0
    BY PowerType
  <1>2. 0 \in Ns
    <2>1. B * 0 = 0 /\ 2 ^ 0 = 1
      OBVIOUS
    <2>2. \A s \in SUBSET (0 .. 0 - 1) : s = {}
      OBVIOUS
    <2>3. Sum({}) = 0
      BY SumPicked, FS_EmptySet
    <2> HIDE DEF Sum, Digits
    <2>4. 2 ^ (B * 0) - 1 = 0
      <3>1. 2 ^ (B * 0) = 2 ^ 0
        BY <2>1
      <3> QED BY <2>1, <3>1
    <2>5. 0 \in 0 .. 2 ^ (B * 0) - 1
      BY <2>4
    <2> QED BY <2>2, <2>3, <2>5
  <1>3. ASSUME NEW n \in Nat, n \in Ns PROVE n + 1 \in Ns
    <2> SUFFICES ASSUME NEW s \in SUBSET (0 .. (n + 1) - 1), Digits(s)
                 PROVE  Sum(s) \in 0 .. 2 ^ (B * (n + 1)) - 1
      <3> HIDE DEF Sum, Digits
      <3> QED OBVIOUS
    <2>1. B * n \in Nat /\ B * (n + 1) = B * n + B
      OBVIOUS
    <2>2. PICK P \in Nat : P = 2 ^ (B * n) /\ P > 0
      BY <2>1, PowerType
    <2>3. 2 ^ (B * (n + 1)) = P * Q
      BY <1>1, <2>1, <2>2, PowerAdd
    <2>4. P * Q \in Nat /\ P * Q >= P
      BY <1>1, <2>2
    <2> DEFINE t == s \ {n}
    <2>5. t \in SUBSET (0 .. n - 1) /\ Digits(t)
      OBVIOUS
    <2>6. Sum(t) \in 0 .. P - 1
      BY <1>3, <2>2, <2>5
    <2>7. CASE n \notin s
      <3>1. t = s
        BY <2>7
      <3>2. \A x \in 0 .. P - 1 : x \in 0 .. P * Q - 1
        BY <2>4
      <3> HIDE DEF Sum, t
      <3> QED BY <2>3, <2>6, <3>1, <3>2
    <2>8. CASE n \in s
      <3>1. PICK d \in 0 .. Q - 1 : f[n] = d * P
        BY <1>1, <2>2, <2>8
      <3>2. d * P \in Nat /\ (d + 1) * P <= P * Q /\ (d + 1) * P = d * P + P
        BY <1>1, <2>2
      <3>3. \A j \in s : f[j] \in Int
        <4> SUFFICES ASSUME NEW j \in s PROVE f[j] \in Int
          OBVIOUS
        <4>1. B * j \in Nat
          OBVIOUS
        <4>2. 2 ^ (B * j) \in Nat
          BY <4>1, PowerType
        <4>3. PICK e \in 0 .. Q - 1 : f[j] = e * 2 ^ (B * j)
          BY <1>1
        <4> QED BY <4>2, <4>3
      <3>4. IsFiniteSet(s)
        <4>1. IsFiniteSet(0 .. n) /\ s \in SUBSET (0 .. n)
          BY FS_Interval
        <4> QED BY <4>1, FS_Subset
      <3>5. Sum(s) = f[n] + Sum(t)
        BY <2>8, <3>3, <3>4, SumRemove
      <3> HIDE DEF Sum, t
      <3>6. Sum(s) \in 0 .. P * Q - 1
        BY <2>4, <2>6, <3>1, <3>2, <3>5
      <3> QED BY <2>3, <3>6
    <2> QED BY <2>7, <2>8
  <1> HIDE DEF Ns
  <1>4. \A n \in Nat : n \in Ns
    BY <1>2, <1>3, SetInduction
  <1> QED BY <1>4 DEF Ns
=============================================================================
