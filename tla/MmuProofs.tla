----------------------------- MODULE MmuProofs ------------------------------
(***************************************************************************)
(* MMU64::translate ends, when it ends, as the declarative definition says *)
(* - for any tables, number of levels, sizes of tables and page numbers,   *)
(* privilege, access and build.                                            *)
(***************************************************************************)
EXTENDS MmuReference, ArithmeticProofs

(* Where the walk stands: at the end of a path from the root. *)
PathsTo(i) == [i .. LEVELS - 1 -> 0 .. PPN_SIZE - 1]

WalkOnPath ==
    walk.pc = "walk" =>
        /\ satp.mode = "PAGED"
        /\ \E t \in PathsTo(walk.i) :
               IsPath(t, walk.va, walk.i) /\ t[walk.i] = walk.table

CsrTypes ==
    /\ satp \in [mode : Modes, ppn : Roots]
    /\ mstatus \in [mxr : BOOLEAN, sum : BOOLEAN]

(* The inductive invariant. *)
IInv == TypeOK /\ CsrTypes /\ WalkOnPath /\ TranslateMatchesReference

-----------------------------------------------------------------------------
(* Page numbers made of VPN fields. *)

(* A table has a slot 0 and a slot is a digit. *)
LEMMA SlotDigits ==
    /\ VPN_BIT_STEP \in Nat
    /\ 0 \in Slots
    /\ Slots = 0 .. 2 ^ VPN_BIT_STEP - 1
  <1>1. 2 ^ VPN_BIT_STEP \in Nat /\ 2 ^ VPN_BIT_STEP > 0
    BY PowerType, PageTablesAssumption
  <1> QED BY <1>1, PageTablesAssumption DEF Slots, VPN_SIZE

(* Superpages have at least one page; those of level 0 have one. *)
LEMMA SuperPageType ==
    /\ \A i \in Nat : SuperPage(i) \in Nat /\ SuperPage(i) > 0
    /\ SuperPage(0) = 1
  <1>1. ASSUME NEW i \in Nat PROVE SuperPage(i) \in Nat /\ SuperPage(i) > 0
    <2>1. VPN_BIT_STEP * i \in Nat
      BY PageTablesAssumption
    <2> QED BY <2>1, PowerType DEF SuperPage
  <1>2. VPN_BIT_STEP * 0 = 0 /\ 2 ^ 0 = 1
    BY PageTablesAssumption
  <1>3. SuperPage(0) = 2 ^ 0
    BY <1>2 DEF SuperPage
  <1> QED BY <1>1, <1>2, <1>3

(* A superpage of level i + d is made of superpages of level i. *)
LEMMA SuperPageAdd ==
    ASSUME NEW i \in Nat, NEW d \in Nat
    PROVE  SuperPage(i + d) = SuperPage(i) * SuperPage(d)
  <1>1. /\ VPN_BIT_STEP * i \in Nat /\ VPN_BIT_STEP * d \in Nat
        /\ VPN_BIT_STEP * (i + d) = VPN_BIT_STEP * i + VPN_BIT_STEP * d
    BY PageTablesAssumption
  <1> QED BY <1>1, PowerAdd DEF SuperPage

(* The number that the lower n fields make is below SuperPage(n). *)
LEMMA LowPagesBound ==
    ASSUME NEW va \in VirtPages, NEW n \in 0 .. FIELDS
    PROVE  LowPages(va, n) \in 0 .. SuperPage(n) - 1
  <1> DEFINE f == [j \in 0 .. n - 1 |-> va[j] * SuperPage(j)]
             B == VPN_BIT_STEP
  <1>1. n \in Nat /\ FIELDS \in Nat /\ B \in Nat
    BY PageTablesAssumption
  <1>2. \A j \in 0 .. n - 1 : \E d \in 0 .. 2 ^ B - 1 : f[j] = d * 2 ^ (B * j)
    <2> SUFFICES ASSUME NEW j \in 0 .. n - 1
                 PROVE  \E d \in 0 .. 2 ^ B - 1 : f[j] = d * 2 ^ (B * j)
      OBVIOUS
    <2>1. va[j] \in 0 .. 2 ^ B - 1
      <3>1. j \in 0 .. FIELDS - 1
        BY <1>1
      <3> QED BY <3>1, SlotDigits DEF VirtPages
    <2>2. f[j] = va[j] * 2 ^ (B * j)
      BY DEF SuperPage
    <2> HIDE DEF f, B
    <2> WITNESS va[j] \in 0 .. 2 ^ B - 1
    <2> QED BY <2>2
  <1>3. SumFunctionOnSet(f, 0 .. n - 1) \in 0 .. 2 ^ (B * n) - 1
    <2> HIDE DEF f
    <2> QED BY <1>1, <1>2, DigitsBound
  <1> QED BY <1>3 DEF LowPages, SuperPage

(* One field more. *)
LEMMA LowPagesStep ==
    ASSUME NEW va \in VirtPages, NEW n \in Nat, n < FIELDS
    PROVE  LowPages(va, n + 1) = va[n] * SuperPage(n) + LowPages(va, n)
  <1> DEFINE f == [j \in 0 .. n - 1 |-> va[j] * SuperPage(j)]
             g == [j \in 0 .. (n + 1) - 1 |-> va[j] * SuperPage(j)]
  <1>1. \A j \in 0 .. n : va[j] * SuperPage(j) \in Int
    <2> SUFFICES ASSUME NEW j \in 0 .. n PROVE va[j] * SuperPage(j) \in Int
      OBVIOUS
    <2>1. j \in 0 .. FIELDS - 1
      BY PageTablesAssumption
    <2>2. PICK x \in Nat : x = va[j]
      <3>1. 2 ^ VPN_BIT_STEP \in Nat
        BY PowerType, PageTablesAssumption
      <3> QED BY <2>1, <3>1, SlotDigits DEF VirtPages
    <2>3. PICK y \in Nat : y = SuperPage(j)
      BY SuperPageType
    <2> QED BY <2>2, <2>3
  <1>2. 0 .. (n + 1) - 1 = 0 .. n /\ (0 .. n) \ {n} = 0 .. n - 1 /\ n \in 0 .. n
    OBVIOUS
  <1>3. IsFiniteSet(0 .. n) /\ IsFiniteSet(0 .. n - 1)
    BY FS_Interval
  <1>4. /\ \A j \in 0 .. n : g[j] \in Int
        /\ \A j \in 0 .. n - 1 : g[j] = f[j] /\ g[j] \in Int
        /\ g[n] = va[n] * SuperPage(n)
    BY <1>1, <1>2
  <1>5. LowPages(va, n) = SumFunctionOnSet(f, 0 .. n - 1)
    BY DEF LowPages
  <1>6. LowPages(va, n + 1) = SumFunctionOnSet(g, 0 .. n)
    BY <1>2 DEF LowPages
  <1> HIDE DEF f, g
  <1>7. SumFunctionOnSet(g, 0 .. n) = g[n] + SumFunctionOnSet(g, 0 .. n - 1)
    BY <1>2, <1>3, <1>4, SumRemove
  <1>8. SumFunctionOnSet(g, 0 .. n - 1) = SumFunctionOnSet(f, 0 .. n - 1)
    BY <1>3, <1>4, SumEqual
  <1> QED BY <1>4, <1>5, <1>6, <1>7, <1>8

(* The fields from i on are the superpage, the lower ones the offset.  *)
LEMMA LowPagesMod ==
    ASSUME NEW va \in VirtPages, NEW i \in 0 .. FIELDS
    PROVE  LowPages(va, FIELDS) % SuperPage(i) = LowPages(va, i)
  <1>1. FIELDS \in Nat /\ i \in Nat /\ FIELDS - i \in Nat
    BY PageTablesAssumption
  <1>2. PICK S \in Nat : S = SuperPage(i) /\ S > 0
    BY <1>1, SuperPageType
  <1>3. PICK L \in 0 .. S - 1 : L = LowPages(va, i)
    BY <1>2, LowPagesBound
  <1> DEFINE Ns == {d \in Nat : i + d <= FIELDS =>
                        \E q \in Nat : LowPages(va, i + d) = S * q + L}
  <1>4. 0 \in Ns
    <2>1. i + 0 = i /\ S * 0 = 0 /\ 0 \in Nat
      BY <1>1, <1>2
    <2>2. LowPages(va, i + 0) = S * 0 + L
      BY <1>3, <2>1
    <2> QED BY <2>2
  <1>5. ASSUME NEW d \in Nat, d \in Ns PROVE d + 1 \in Ns
    <2> SUFFICES ASSUME i + (d + 1) <= FIELDS
                 PROVE  \E q \in Nat : LowPages(va, i + (d + 1)) = S * q + L
      OBVIOUS
    <2>1. i + d \in Nat /\ i + d < FIELDS /\ i + (d + 1) = (i + d) + 1
      BY <1>1
    <2>2. PICK q \in Nat : LowPages(va, i + d) = S * q + L
      BY <1>1, <1>5, <2>1
    <2>3. PICK T \in Nat : T = SuperPage(d)
      BY SuperPageType
    <2>4. SuperPage(i + d) = S * T
      BY <1>1, <1>2, <2>3, SuperPageAdd
    <2>5. PICK x \in Nat : x = va[i + d]
      <3>1. i + d \in 0 .. FIELDS - 1
        BY <1>1, <2>1
      <3>2. 2 ^ VPN_BIT_STEP \in Nat
        BY PowerType, PageTablesAssumption
      <3> QED BY <3>1, <3>2, SlotDigits DEF VirtPages
    <2>6. LowPages(va, i + (d + 1)) = x * (S * T) + (S * q + L)
      BY <2>1, <2>2, <2>4, <2>5, LowPagesStep
    <2>7. x * T + q \in Nat /\ x * (S * T) + (S * q + L) = S * (x * T + q) + L
      BY <1>2, <1>3, <2>2, <2>3, <2>5
    <2> WITNESS x * T + q \in Nat
    <2> QED BY <2>6, <2>7
  <1> HIDE DEF Ns
  <1>6. FIELDS - i \in Ns
    BY <1>1, <1>4, <1>5, SetInduction
  <1>7. PICK q \in Nat : LowPages(va, FIELDS) = S * q + L
    <2>1. i + (FIELDS - i) = FIELDS /\ FIELDS <= FIELDS
      BY <1>1
    <2> QED BY <1>6, <2>1 DEF Ns
  <1>8. PICK a \in Int : a = S * q + L
    BY <1>2, <1>3, <1>7
  <1>9. L = a % S
    <2>1. S > 0 /\ q \in Int /\ L \in 0 .. S - 1 /\ a = S * q + L
      BY <1>2, <1>3, <1>7, <1>8
    <2>2. q = a \div S /\ L = a % S
      BY <2>1, DivModUnique
    <2> QED BY <2>2
  <1> QED BY <1>2, <1>3, <1>7, <1>8, <1>9

(* The two ways to say that a page number is not that of a superpage. *)
LEMMA MisalignedBy ==
    ASSUME NEW p \in Nat, NEW n \in Nat, n > 0
    PROVE  p % n # 0 <=> \E k \in 1 .. n - 1 : (p - k) % n = 0
  <1>1. PICK d \in Int, r \in 0 .. n - 1 : p = n * d + r /\ r = p % n
    BY DivMod
  <1>2. ASSUME p % n # 0 PROVE \E k \in 1 .. n - 1 : (p - k) % n = 0
    <2>1. r \in 1 .. n - 1
      BY <1>1, <1>2
    <2>2. p - r \in Int /\ p - r = n * d + 0 /\ 0 \in 0 .. n - 1
      BY <1>1
    <2>3. (p - r) % n = 0
      BY <1>1, <2>2, DivModUnique
    <2> QED BY <2>1, <2>3
  <1>3. ASSUME NEW k \in 1 .. n - 1, (p - k) % n = 0 PROVE p % n # 0
    <2>1. PICK q \in Int : p - k = n * q + 0
      <3>1. p - k \in Int
        OBVIOUS
      <3> QED BY <1>3, <3>1, DivMod
    <2>2. n * q \in Int
      BY <2>1, Multiple
    <2>3. p = n * q + k /\ k \in 0 .. n - 1
      BY <2>1, <2>2
    <2>4. k = p % n
      BY <2>1, <2>3, DivModUnique
    <2> QED BY <2>4
  <1> QED BY <1>2, <1>3

-----------------------------------------------------------------------------
(* The steps of the walk. *)

(* What a slot on the walk holds, and the sizes of what is computed. *)
LEMMA WalkTypes ==
    ASSUME IInv, walk.pc = "walk"
    PROVE  /\ walk.i \in 0 .. LEVELS - 1 /\ walk.i \in Nat /\ walk.i \in 0 .. FIELDS
           /\ walk.va \in VirtPages /\ walk.table \in 0 .. PPN_SIZE - 1
           /\ walk.priv \in Levels /\ walk.access \in AccessTypes
           /\ walk.table \in DOMAIN mem =>
                  pte \in PTEs /\ pte = SlotAt(walk.table, walk.va, walk.i)
  <1> USE PageTablesAssumption
  <1>1. /\ walk.i \in 0 .. LEVELS - 1 /\ walk.va \in VirtPages
        /\ walk.table \in 0 .. PPN_SIZE - 1
        /\ walk.priv \in Levels /\ walk.access \in AccessTypes
    BY DEF IInv, TypeOK, MmuTypeOK
  <1>2. walk.i \in Nat /\ walk.i \in 0 .. FIELDS /\ walk.i \in 0 .. FIELDS - 1
    BY <1>1
  <1>3. walk.va[walk.i] \in Slots
    BY <1>1, <1>2 DEF VirtPages
  <1>4. mem \in [DOMAIN mem -> [Slots -> PTEs]]
    BY DEF IInv, TypeOK
  <1> QED BY <1>1, <1>2, <1>3, <1>4 DEF pte, SlotAt, getVPN

(* The loop's tests against the reference's: a table pointer is what is    *)
(* neither bad nor a leaf, and a usable leaf is a leaf that is not bad.    *)
LEMMA PteKinds ==
    ASSUME pte \in PTEs
    PROVE  /\ Pointer(pte) <=> ~BadPte /\ ~Leaf
           /\ WellFormedLeaf(pte) <=> ~BadPte /\ Leaf
  <1>1. pte.rsv \in BOOLEAN /\ pte.flags \subseteq PTEFlags
    BY DEF PTEs
  <1>2. ~BadPte /\ ~Leaf <=>
            /\ "V" \in pte.flags /\ "R" \notin pte.flags /\ "X" \notin pte.flags
            /\ "W" \notin pte.flags /\ ~pte.rsv
    BY DEF BadPte, Leaf, V
  <1>3. pte.flags \cap {"V", "R", "W", "X"} = {"V"} <=>
            /\ "V" \in pte.flags /\ "R" \notin pte.flags /\ "X" \notin pte.flags
            /\ "W" \notin pte.flags
    OBVIOUS
  <1>4. WellFormedLeaf(pte) <=> ~BadPte /\ Leaf
    BY DEF WellFormedLeaf, BadPte, Leaf, V
  <1> QED BY <1>2, <1>3, <1>4 DEF Pointer

(* checkLeafFlags gives the rights of the privileged specification. *)
LEMMA RightsMatch ==
    ASSUME CsrTypes, NEW priv \in Levels, NEW access \in AccessTypes, NEW flags
    PROVE  checkLeafFlags(priv, access, flags)
               <=> access \in Grants(flags) /\ MayUse(priv, access, flags)
  <1>1. priv = "USER" \/ priv = "SUPERVISOR"
    BY DEF Levels
  <1>2. CASE access = "READ"
    BY <1>1, <1>2 DEF checkLeafFlags, Grants, MayUse, AccessTypes, CsrTypes
  <1>3. CASE access = "WRITE"
    BY <1>1, <1>3 DEF checkLeafFlags, Grants, MayUse, AccessTypes, CsrTypes
  <1>4. CASE access = "FETCH"
    BY <1>1, <1>4 DEF checkLeafFlags, Grants, MayUse, AccessTypes, CsrTypes
  <1> QED BY <1>2, <1>3, <1>4 DEF AccessTypes

(* One level down. *)
LEMMA PathDown ==
    ASSUME IInv, Descend
    PROVE  \E t \in PathsTo(walk.i - 1) :
               IsPath(t, walk.va, walk.i - 1) /\ t[walk.i - 1] = pte.ppn
  <1> USE PageTablesAssumption
  <1>1. walk.pc = "walk" /\ walk.table \in DOMAIN mem /\ ~BadPte /\ ~Leaf /\ walk.i # 0
    BY DEF Descend, PteRead
  <1>2. PICK i \in 1 .. LEVELS - 1, va \in VirtPages : i = walk.i /\ va = walk.va
    BY <1>1, WalkTypes
  <1>3. pte \in PTEs /\ pte = SlotAt(walk.table, va, i) /\ Pointer(pte)
    BY <1>1, <1>2, WalkTypes, PteKinds
  <1>4. PICK t \in PathsTo(i) : IsPath(t, va, i) /\ t[i] = walk.table
    BY <1>1, <1>2 DEF IInv, WalkOnPath
  <1>5. PICK n \in 0 .. PPN_SIZE - 1 : n = pte.ppn
    BY <1>3 DEF PTEs
  <1> DEFINE u == [j \in i - 1 .. LEVELS - 1 |-> IF j = i - 1 THEN n ELSE t[j]]
  <1>6. u \in PathsTo(i - 1)
    BY <1>4 DEF PathsTo
  <1>7. u[i - 1] = n /\ \A j \in i .. LEVELS - 1 : u[j] = t[j]
    OBVIOUS
  <1> HIDE DEF u
  <1>8. IsPath(u, va, i - 1)
    <2>1. u[LEVELS - 1] = satp.ppn
      BY <1>4, <1>7 DEF IsPath
    <2>2. ASSUME NEW j \in (i - 1) + 1 .. LEVELS - 1
          PROVE  /\ u[j] \in DOMAIN mem /\ Pointer(SlotAt(u[j], va, j))
                 /\ u[j - 1] = SlotAt(u[j], va, j).ppn
      <3>1. CASE j = i
        BY <1>1, <1>3, <1>4, <1>5, <1>7, <3>1
      <3>2. CASE j # i
        <4>1. j \in i + 1 .. LEVELS - 1 /\ j \in i .. LEVELS - 1 /\ j - 1 \in i .. LEVELS - 1
          BY <3>2
        <4>2. /\ t[j] \in DOMAIN mem /\ Pointer(SlotAt(t[j], va, j))
              /\ t[j - 1] = SlotAt(t[j], va, j).ppn
          BY <1>4, <4>1 DEF IsPath
        <4> QED BY <1>7, <4>1, <4>2
      <3> QED BY <3>1, <3>2
    <2> QED BY <2>1, <2>2 DEF IsPath
  <1> QED BY <1>2, <1>5, <1>6, <1>7, <1>8

(* Nothing the reference looks at changes during a call. *)
LEMMA ReferenceFixed ==
    ASSUME UNCHANGED <<mem, satp, mstatus>>
    PROVE  /\ \A t, va, i : IsPath(t, va, i)' <=> IsPath(t, va, i)
           /\ \A va, i : MaximalPaths(va, i)' = MaximalPaths(va, i)
           /\ \A priv, access, va, i, t :
                  Outcome(priv, access, va, i, t)' = Outcome(priv, access, va, i, t)
  <1>1. mem' = mem /\ satp' = satp /\ mstatus' = mstatus
    OBVIOUS
  <1>2. \A t, va, j : SlotAt(t, va, j)' = SlotAt(t, va, j)
    BY <1>1 DEF SlotAt
  <1>3. \A t, va, i : IsPath(t, va, i)' <=> IsPath(t, va, i)
    <2> TAKE t, va, i
    <2>1. \A j : Pointer(SlotAt(t[j], va, j))' <=> Pointer(SlotAt(t[j], va, j))
      BY <1>1 DEF SlotAt, Pointer
    <2> QED BY <1>1, <1>2, <2>1 DEF IsPath
  <1>4. \A va, i : MaximalPaths(va, i)' = MaximalPaths(va, i)
    BY <1>1, <1>2, <1>3 DEF MaximalPaths, Pointer
  <1>5. \A flags : Grants(flags)' = Grants(flags)
    BY <1>1 DEF Grants
  <1>6. \A priv, access, flags : MayUse(priv, access, flags)' <=> MayUse(priv, access, flags)
    BY <1>1 DEF MayUse
  <1>7. \A priv, access, va, i, t :
            Outcome(priv, access, va, i, t)' = Outcome(priv, access, va, i, t)
    BY <1>1, <1>2, <1>5, <1>6 DEF Outcome
  <1> QED BY <1>3, <1>4, <1>7

(* A return from the loop with what the reference says of the path so far, *)
(* when the path goes no further.                                          *)
LEMMA EndsAsOutcome ==
    ASSUME IInv, walk.pc = "walk", UNCHANGED <<mem, satp, mstatus>>,
           \/ walk.i = 0 \/ walk.table \notin DOMAIN mem
           \/ ~Pointer(SlotAt(walk.table, walk.va, walk.i)),
           NEW status, NEW page \in Nat, Ends(status, page),
           [status |-> status, page |-> page] =
               Outcome(walk.priv, walk.access, walk.va, walk.i, walk.table)
    PROVE  IInv'
  <1>1. res' = [status |-> status, page |-> page] /\ walk' = [walk EXCEPT !.pc = "idle"]
    BY DEF Ends, ResultIs
  <1>2. walk \in [pc : {"idle", "walk"}, priv : Levels, access : AccessTypes,
                  va : VirtPages, i : 0 .. LEVELS - 1, table : 0 .. PPN_SIZE - 1]
    BY DEF IInv, TypeOK, MmuTypeOK
  <1>3. /\ walk'.pc = "idle" /\ walk'.priv = walk.priv /\ walk'.access = walk.access
        /\ walk'.va = walk.va /\ walk'.i = walk.i /\ walk'.table = walk.table
        /\ walk' \in [pc : {"idle", "walk"}, priv : Levels, access : AccessTypes,
                      va : VirtPages, i : 0 .. LEVELS - 1, table : 0 .. PPN_SIZE - 1]
    BY <1>1, <1>2
  <1>4. TypeOK'
    BY <1>1, <1>3 DEF IInv, TypeOK, MmuTypeOK
  <1>5. CsrTypes' /\ satp.mode = "PAGED" /\ satp'.mode # "BARE"
    BY DEF IInv, CsrTypes, WalkOnPath
  <1>6. PICK i, va, priv, access, table :
            /\ i \in 0 .. LEVELS - 1 /\ i = walk.i /\ va = walk.va /\ priv = walk.priv /\ access = walk.access
            /\ table = walk.table
    BY <1>2
  <1>7. PICK t \in PathsTo(i) : IsPath(t, va, i) /\ t[i] = table
    BY <1>6 DEF IInv, WalkOnPath
  <1>8. TranslateMatchesReference'
    <2>1. t \in MaximalPaths(va, i)
      BY <1>6, <1>7 DEF MaximalPaths, PathsTo
    <2>2. t \in MaximalPaths(va, i)'
      BY <2>1, ReferenceFixed
    <2>3. res' = Outcome(priv, access, va, i, table)'
      BY <1>1, <1>6, ReferenceFixed
    <2>4. \E k \in 0 .. LEVELS - 1 : \E u \in MaximalPaths(va, k)' :
              res' = Outcome(priv, access, va, k, u[k])'
      BY <1>6, <1>7, <2>2, <2>3
    <2> QED BY <1>3, <1>5, <1>6, <2>4 DEF TranslateMatchesReference
  <1> QED BY <1>3, <1>4, <1>5, <1>8 DEF IInv, WalkOnPath

(* The faults of the loop, and of a leaf that may not be used. *)
LEMMA FaultsMatch ==
    ASSUME IInv, UNCHANGED <<mem, satp, mstatus>>,
           TableAccessFault \/ InvalidPte \/ NoLeaf \/ LeafRefused
    PROVE  IInv'
  <1> DEFINE i == walk.i
             p == SlotAt(walk.table, walk.va, i)
  <1>1. walk.pc = "walk" /\ 0 \in Nat
    BY DEF TableAccessFault, InvalidPte, NoLeaf, LeafRefused, PteRead
  <1>2. CASE TableAccessFault
    <2>1. walk.table \notin DOMAIN mem /\ Ends("PHYS_MEM__ACCESS_FAULT", 0)
      BY <1>2 DEF TableAccessFault
    <2>2. Outcome(walk.priv, walk.access, walk.va, i, walk.table) =
              [status |-> "PHYS_MEM__ACCESS_FAULT", page |-> 0]
      BY <2>1 DEF Outcome
    <2> QED BY <1>1, <2>1, <2>2, EndsAsOutcome
  <1>3. CASE InvalidPte \/ NoLeaf \/ LeafRefused
    <2>1. walk.table \in DOMAIN mem /\ Ends("MMU64__PAGE_FAULT", 0)
      BY <1>3 DEF InvalidPte, NoLeaf, LeafRefused, PteRead, PageFault
    <2>2. pte \in PTEs /\ pte = p
      BY <1>1, <2>1, WalkTypes
    <2>3. i = 0 \/ ~Pointer(p)
      BY <1>3, <2>2, PteKinds DEF InvalidPte, NoLeaf, LeafRefused
    <2>4. \/ ~WellFormedLeaf(p)
          \/ walk.access \notin Grants(p.flags)
          \/ ~MayUse(walk.priv, walk.access, p.flags)
          \/ \E k \in 1 .. SuperPage(i) - 1 : (p.ppn - k) % SuperPage(i) = 0
      <3>1. CASE InvalidPte \/ NoLeaf
        BY <2>2, <3>1, PteKinds DEF InvalidPte, NoLeaf
      <3>2. CASE LeafRefused /\ ~Allowed
        <4>1. walk.priv \in Levels /\ walk.access \in AccessTypes /\ CsrTypes
          BY <1>1, WalkTypes DEF IInv
        <4> QED BY <2>2, <3>2, <4>1, RightsMatch DEF Allowed
      <3>3. CASE LeafRefused /\ Misaligned
        <4>1. SuperPage(i) \in Nat /\ SuperPage(i) > 0
          BY <1>1, WalkTypes, SuperPageType
        <4>2. p.ppn \in Nat
          BY <2>2, PageTablesAssumption DEF PTEs
        <4>3. p.ppn % SuperPage(i) # 0
          BY <2>2, <3>3 DEF Misaligned
        <4> HIDE DEF p, i
        <4> QED BY <4>1, <4>2, <4>3, MisalignedBy
      <3> QED BY <1>3, <3>1, <3>2, <3>3 DEF LeafRefused
    <2>5. Outcome(walk.priv, walk.access, walk.va, i, walk.table) =
              [status |-> "MMU64__PAGE_FAULT", page |-> 0]
      BY <2>1, <2>4 DEF Outcome
    <2> QED BY <1>1, <2>1, <2>3, <2>5, EndsAsOutcome
  <1> QED BY <1>2, <1>3

(* A leaf that may be used: the page, with the superpage's offset. *)
LEMMA LeafMatches ==
    ASSUME IInv, UNCHANGED <<mem, satp, mstatus>>, LeafFound
    PROVE  IInv'
  <1> DEFINE i == walk.i
             p == SlotAt(walk.table, walk.va, i)
             S == SuperPage(i)
             ok == {"A", "D"} \subseteq p.flags \/ NDEBUG
             page == p.ppn + (LowPages(walk.va, FIELDS) % S)
  <1>1. /\ walk.pc = "walk" /\ walk.table \in DOMAIN mem
        /\ ~BadPte /\ Leaf /\ Allowed /\ ~Misaligned
    BY DEF LeafFound, PteRead
  <1>2. pte \in PTEs /\ pte = p
    BY <1>1, WalkTypes
  <1>3. /\ i \in Nat /\ i \in 0 .. FIELDS /\ walk.va \in VirtPages
        /\ walk.priv \in Levels /\ walk.access \in AccessTypes /\ CsrTypes
    BY <1>1, WalkTypes DEF IInv
  <1>4. S \in Nat /\ S > 0 /\ p.ppn \in Nat
    BY <1>2, <1>3, SuperPageType, PageTablesAssumption DEF PTEs
  <1>5. p.ppn % S = 0
    <2>1. CASE i = 0
      <3>1. S = 1
        BY <2>1, SuperPageType
      <3> HIDE DEF p, S
      <3> QED BY <1>4, <3>1
    <2>2. CASE i # 0
      BY <1>1, <1>2, <1>3, <2>2 DEF Misaligned
    <2> QED BY <2>1, <2>2
  <1>6. ~\E k \in 1 .. S - 1 : (p.ppn - k) % S = 0
    <2> HIDE DEF p, S
    <2> QED BY <1>4, <1>5, MisalignedBy
  <1>7. /\ WellFormedLeaf(p) /\ ~Pointer(p)
        /\ walk.access \in Grants(p.flags) /\ MayUse(walk.priv, walk.access, p.flags)
    BY <1>1, <1>2, <1>3, PteKinds, RightsMatch DEF Allowed
  <1>8. LowPages(walk.va, FIELDS) % S = LowPages(walk.va, i)
        /\ LowPages(walk.va, i) \in 0 .. S - 1
    BY <1>3, LowPagesMod, LowPagesBound
  <1>9. page \in Nat /\ calcPhysPage(p, walk.va, i) = page
    <2>1. CASE i = 0
      <3>1. S = 1
        BY <2>1, SuperPageType
      <3>2. LowPages(walk.va, i) = 0
        BY <1>8, <3>1
      <3>3. calcPhysPage(p, walk.va, i) = p.ppn
        BY <2>1 DEF calcPhysPage
      <3>4. page = p.ppn + 0
        BY <1>8, <3>2
      <3> HIDE DEF p, page
      <3> QED BY <1>4, <3>3, <3>4
    <2>2. CASE i # 0
      <3>1. calcPhysPage(p, walk.va, i) = p.ppn - (p.ppn % S) + LowPages(walk.va, i)
        BY <2>2 DEF calcPhysPage
      <3>2. page = p.ppn + LowPages(walk.va, i)
        BY <1>8
      <3>3. LowPages(walk.va, i) \in Nat
        <4> HIDE DEF S
        <4> QED BY <1>4, <1>8
      <3>4. PICK a, l \in Nat : a = p.ppn /\ l = LowPages(walk.va, i)
        BY <1>4, <3>3
      <3>5. page = a + l /\ calcPhysPage(p, walk.va, i) = a - 0 + l
        BY <1>5, <3>1, <3>2, <3>4
      <3> HIDE DEF page
      <3> QED BY <3>4, <3>5
    <2> QED BY <2>1, <2>2
  <1>10. Outcome(walk.priv, walk.access, walk.va, i, walk.table) =
             IF ok THEN [status |-> "OK", page |-> page] ELSE [status |-> "abort", page |-> 0]
    BY <1>1, <1>6, <1>7 DEF Outcome
  <1>11. IF ok THEN Ends("OK", page) ELSE Ends("abort", 0)
    BY <1>2, <1>9 DEF LeafFound
  <1> HIDE DEF page, ok
  <1>12. CASE ok
    BY <1>1, <1>7, <1>9, <1>10, <1>11, <1>12, EndsAsOutcome
  <1>13. CASE ~ok
    <2>1. 0 \in Nat
      OBVIOUS
    <2> QED BY <1>1, <1>7, <1>10, <1>11, <1>13, <2>1, EndsAsOutcome
  <1> QED BY <1>12, <1>13

(* The loop goes down one level. *)
LEMMA DescendMatches ==
    ASSUME IInv, UNCHANGED <<mem, satp, mstatus>>, Descend
    PROVE  IInv'
  <1> USE PageTablesAssumption
  <1>1. /\ walk.pc = "walk" /\ walk.table \in DOMAIN mem /\ walk.i # 0
        /\ walk' = [walk EXCEPT !.i = walk.i - 1, !.table = pte.ppn] /\ res' = res
    BY DEF Descend, PteRead
  <1>2. walk \in [pc : {"idle", "walk"}, priv : Levels, access : AccessTypes,
                  va : VirtPages, i : 0 .. LEVELS - 1, table : 0 .. PPN_SIZE - 1]
    BY DEF IInv, TypeOK, MmuTypeOK
  <1>3. PICK i, n, va :
            /\ i \in 0 .. LEVELS - 1 /\ i = walk.i - 1
            /\ n \in 0 .. PPN_SIZE - 1 /\ n = pte.ppn
            /\ va = walk.va
    <2>1. pte \in PTEs
      BY <1>1, WalkTypes
    <2> QED BY <1>1, <1>2, <2>1 DEF PTEs
  <1>4. /\ walk'.pc = "walk" /\ walk'.i = i /\ walk'.table = n /\ walk'.va = va
        /\ walk' \in [pc : {"idle", "walk"}, priv : Levels, access : AccessTypes,
                      va : VirtPages, i : 0 .. LEVELS - 1, table : 0 .. PPN_SIZE - 1]
    BY <1>1, <1>2, <1>3
  <1>5. TypeOK' /\ CsrTypes' /\ satp'.mode = "PAGED"
    BY <1>1, <1>4 DEF IInv, TypeOK, MmuTypeOK, CsrTypes, WalkOnPath
  <1>6. \E t \in PathsTo(i) : IsPath(t, va, i)' /\ t[i] = n
    BY <1>3, PathDown, ReferenceFixed
  <1>7. WalkOnPath'
    BY <1>4, <1>5, <1>6 DEF WalkOnPath, PathsTo
  <1>8. TranslateMatchesReference'
    BY <1>4 DEF TranslateMatchesReference
  <1> QED BY <1>5, <1>7, <1>8 DEF IInv

(* A call begins at the root, or is over at once in BARE mode. *)
LEMMA TranslateBegins ==
    ASSUME IInv, UNCHANGED <<mem, satp, mstatus>>,
           NEW priv \in Levels, NEW access \in AccessTypes, NEW va \in VirtPages,
           translate(priv, access, va)
    PROVE  IInv'
  <1> USE PageTablesAssumption
  <1>1. walk \in [pc : {"idle", "walk"}, priv : Levels, access : AccessTypes,
                  va : VirtPages, i : 0 .. LEVELS - 1, table : 0 .. PPN_SIZE - 1]
    BY DEF IInv, TypeOK, MmuTypeOK
  <1>2. CASE satp.mode = "BARE"
    <2>1. /\ walk.pc = "idle" /\ res' = [status |-> "OK", page |-> LowPages(va, FIELDS)]
          /\ walk' = [walk EXCEPT !.priv = priv, !.access = access, !.va = va]
      BY <1>2 DEF translate, ResultIs
    <2>2. /\ walk'.pc = "idle" /\ walk'.va = va
          /\ walk' \in [pc : {"idle", "walk"}, priv : Levels, access : AccessTypes,
                        va : VirtPages, i : 0 .. LEVELS - 1, table : 0 .. PPN_SIZE - 1]
      BY <1>1, <2>1
    <2>3. LowPages(va, FIELDS) \in Nat
      <3>1. FIELDS \in Nat /\ FIELDS \in 0 .. FIELDS
        OBVIOUS
      <3>2. SuperPage(FIELDS) \in Nat
        BY <3>1, SuperPageType
      <3> QED BY <3>1, <3>2, LowPagesBound
    <2>4. TypeOK' /\ CsrTypes'
      BY <2>1, <2>2, <2>3 DEF IInv, TypeOK, MmuTypeOK, CsrTypes
    <2>5. TranslateMatchesReference'
      BY <1>2, <2>1, <2>2 DEF TranslateMatchesReference
    <2> QED BY <2>2, <2>4, <2>5 DEF IInv, WalkOnPath
  <1>3. CASE satp.mode # "BARE"
    <2>1. /\ res' = [status |-> "pending", page |-> 0]
          /\ walk' = [pc |-> "walk", priv |-> priv, access |-> access,
                      va |-> va, i |-> LEVELS - 1, table |-> satp.ppn]
      BY <1>3 DEF translate, ResultIs, RootLevel
    <2>2. satp.ppn \in 0 .. PPN_SIZE - 1 /\ satp'.mode = "PAGED" /\ satp' = satp
      BY <1>3, MmuAssumption DEF IInv, CsrTypes, Modes
    <2>0. PICK root \in 0 .. PPN_SIZE - 1 : root = satp.ppn
      BY <2>2
    <2>3. /\ walk'.pc = "walk" /\ walk'.va = va /\ walk'.i = LEVELS - 1 /\ walk'.table = root
          /\ walk' \in [pc : {"idle", "walk"}, priv : Levels, access : AccessTypes,
                        va : VirtPages, i : 0 .. LEVELS - 1, table : 0 .. PPN_SIZE - 1]
      BY <2>0, <2>1, <2>2
    <2>4. TypeOK' /\ CsrTypes'
      BY <2>1, <2>3 DEF IInv, TypeOK, MmuTypeOK, CsrTypes
    <2>5. \E t \in PathsTo(LEVELS - 1) : IsPath(t, va, LEVELS - 1)' /\ t[LEVELS - 1] = root
      <3> DEFINE t == [j \in LEVELS - 1 .. LEVELS - 1 |-> root]
      <3>1. t \in PathsTo(LEVELS - 1) /\ t[LEVELS - 1] = root
        BY DEF PathsTo
      <3>2. (LEVELS - 1) + 1 .. LEVELS - 1 = {}
        OBVIOUS
      <3> HIDE DEF t
      <3>3. IsPath(t, va, LEVELS - 1)
        BY <2>0, <3>1, <3>2 DEF IsPath
      <3>4. IsPath(t, va, LEVELS - 1)'
        BY <3>3, ReferenceFixed
      <3> QED BY <3>1, <3>4
    <2>6. WalkOnPath'
      BY <2>2, <2>3, <2>5 DEF WalkOnPath, PathsTo
    <2>7. TranslateMatchesReference'
      BY <2>3 DEF TranslateMatchesReference
    <2> QED BY <2>4, <2>6, <2>7 DEF IInv
  <1> QED BY <1>2, <1>3

(* The invariant holds before the first call. *)
LEMMA InitIInv == Init => IInv
  <1> SUFFICES ASSUME Init PROVE IInv
    OBVIOUS
  <1> USE PageTablesAssumption
  <1>1. TypeOK
    BY MmuAssumption, SlotDigits
       DEF Init, MmuInit, IdleWalk, TypeOK, MmuTypeOK, VirtPages, Levels, AccessTypes
  <1> QED BY <1>1 DEF Init, MmuInit, IdleWalk, IInv, CsrTypes, WalkOnPath,
                      TranslateMatchesReference

(* Every step of the loop, and every call, keeps it. *)
LEMMA NextIInv == IInv /\ [Next]_vars => IInv'
  <1> SUFFICES ASSUME IInv, [Next]_vars PROVE IInv'
    OBVIOUS
  <1>1. CASE UNCHANGED vars
    <2>1. UNCHANGED <<mem, satp, mstatus>> /\ walk' = walk /\ res' = res
      BY <1>1 DEF vars
    <2>2. TypeOK' /\ CsrTypes'
      BY <2>1 DEF IInv, TypeOK, MmuTypeOK, CsrTypes
    <2>3. PICK w, r : w = walk /\ r = res
      OBVIOUS
    <2>4. WalkOnPath'
      BY <2>1, <2>3, ReferenceFixed DEF IInv, WalkOnPath, PathsTo
    <2>5. TranslateMatchesReference'
      BY <2>1, <2>3, ReferenceFixed DEF IInv, TranslateMatchesReference
    <2> QED BY <2>2, <2>4, <2>5 DEF IInv
  <1>2. ASSUME NEW r \in Requests, translate(r[1], r[2], r[3]),
               UNCHANGED <<mem, satp, mstatus>>
        PROVE  IInv'
    <2>1. r[1] \in Levels /\ r[2] \in AccessTypes /\ r[3] \in VirtPages
      BY MmuAssumption
    <2> QED BY <1>2, <2>1, TranslateBegins
  <1>3. ASSUME WalkStep, UNCHANGED <<mem, satp, mstatus>> PROVE IInv'
    BY <1>3, FaultsMatch, DescendMatches, LeafMatches DEF WalkStep
  <1> QED BY <1>1, <1>2, <1>3 DEF Next

(* It is an invariant. *)
LEMMA SpecIInv == Spec => []IInv
  BY InitIInv, NextIInv, PTL DEF Spec

-----------------------------------------------------------------------------
(* Type correctness of the walk; the level never leaves 0 .. LEVELS - 1.   *)
THEOREM TypeCorrect == Spec => []TypeOK
  <1>1. IInv => TypeOK
    BY DEF IInv
  <1> QED BY <1>1, SpecIInv, PTL

(* MMU64::translate returns what the loop-free definition assigns to a     *)
(* maximal path of the address, whatever the tables hold.                  *)
THEOREM TranslateAlwaysMatches == Spec => []TranslateMatchesReference
  <1>1. IInv => TranslateMatchesReference
    BY DEF IInv
  <1> QED BY <1>1, SpecIInv, PTL

(* Paths of one address agree as far as both go. *)
LEMMA PathsAgree ==
    ASSUME NEW va, NEW i \in 0 .. LEVELS - 1, NEW k \in 0 .. LEVELS - 1,
           NEW t \in PathsTo(i), IsPath(t, va, i), NEW u \in PathsTo(k), IsPath(u, va, k)
    PROVE  \A j \in 0 .. LEVELS - 1 : i <= j /\ k <= j => t[j] = u[j]
  <1> USE PageTablesAssumption
  <1> DEFINE Ns == {d \in Nat : LET j == LEVELS - 1 - d
                                IN  i <= j /\ k <= j => t[j] = u[j]}
  <1>1. 0 \in Ns
    <2>1. LEVELS - 1 - 0 = LEVELS - 1
      OBVIOUS
    <2>2. t[LEVELS - 1] = u[LEVELS - 1]
      BY DEF IsPath
    <2> QED BY <2>1, <2>2
  <1>2. ASSUME NEW d \in Nat, d \in Ns PROVE d + 1 \in Ns
    <2>1. PICK j \in Int : j = LEVELS - 1 - d /\ j - 1 = LEVELS - 1 - (d + 1)
      OBVIOUS
    <2>2. ASSUME i <= j - 1, k <= j - 1 PROVE t[j - 1] = u[j - 1]
      <3>1. j \in i + 1 .. LEVELS - 1 /\ j \in k + 1 .. LEVELS - 1
        BY <2>1, <2>2
      <3>2. t[j] = u[j]
        BY <1>2, <2>1, <2>2
      <3>3. t[j - 1] = SlotAt(t[j], va, j).ppn /\ u[j - 1] = SlotAt(u[j], va, j).ppn
        BY <3>1 DEF IsPath
      <3> QED BY <3>2, <3>3
    <2> QED BY <2>1, <2>2
  <1> HIDE DEF Ns
  <1>3. \A d \in Nat : d \in Ns
    BY <1>1, <1>2, SetInduction
  <1> SUFFICES ASSUME NEW j \in 0 .. LEVELS - 1, i <= j, k <= j PROVE t[j] = u[j]
    OBVIOUS
  <1>4. PICK d \in Nat : j = LEVELS - 1 - d
    <2>1. LEVELS - 1 - j \in Nat /\ j = LEVELS - 1 - (LEVELS - 1 - j)
      OBVIOUS
    <2> QED BY <2>1
  <1> QED BY <1>3, <1>4 DEF Ns

(* A maximal path cannot be a part of another path. *)
LEMMA NotBelowMaximal ==
    ASSUME NEW va, NEW i \in 0 .. LEVELS - 1, NEW k \in 0 .. LEVELS - 1,
           NEW t \in MaximalPaths(va, i), NEW u \in MaximalPaths(va, k)
    PROVE  ~(k < i)
  <1> SUFFICES ASSUME k < i PROVE FALSE
    OBVIOUS
  <1>1. /\ t \in PathsTo(i) /\ IsPath(t, va, i) /\ u \in PathsTo(k) /\ IsPath(u, va, k)
        /\ t[i] \notin DOMAIN mem \/ ~Pointer(SlotAt(t[i], va, i))
    BY DEF MaximalPaths, PathsTo
  <1>2. t[i] = u[i]
    BY <1>1, PathsAgree
  <1>3. i \in k + 1 .. LEVELS - 1
    BY PageTablesAssumption
  <1>4. u[i] \in DOMAIN mem /\ Pointer(SlotAt(u[i], va, i))
    BY <1>1, <1>3 DEF IsPath
  <1> QED BY <1>1, <1>2, <1>4

(* The definition that translate() is compared with is one: an address has *)
(* no two maximal paths, so "a maximal path" above is "the maximal path".  *)
THEOREM OneMaximalPath ==
    ASSUME NEW va, NEW i \in 0 .. LEVELS - 1, NEW k \in 0 .. LEVELS - 1,
           NEW t \in MaximalPaths(va, i), NEW u \in MaximalPaths(va, k)
    PROVE  i = k /\ t = u
  <1> USE PageTablesAssumption
  <1>1. i = k
    <2>1. ~(k < i) /\ ~(i < k)
      BY NotBelowMaximal
    <2> QED BY <2>1
  <1>2. t \in PathsTo(i) /\ IsPath(t, va, i) /\ u \in PathsTo(i) /\ IsPath(u, va, i)
    BY <1>1 DEF MaximalPaths, PathsTo
  <1>3. \A j \in i .. LEVELS - 1 : t[j] = u[j]
    BY <1>2, PathsAgree
  <1> QED BY <1>1, <1>2, <1>3 DEF PathsTo
=============================================================================
