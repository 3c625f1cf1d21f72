-------------------------- MODULE PhysMemoryProofs --------------------------
(***************************************************************************)
(* The host side of physical memory is safe for any number of pages, any   *)
(* page size and any growth factor: no two guest pages share a host page,  *)
(* no pointer dangles, and PhysMemory implements FlatMemory.               *)
(***************************************************************************)
EXTENDS PhysMemory, TLAPS

(* The host pages the allocator has given away. *)
Taken ==
    {h \in HostPages :
        /\ h[1] \in DOMAIN mmaps
        /\ h[2] < mmaps[h[1]].ppn
        /\ h[1] = Len(mmaps) => h[2] < currPpn}

(* Region i of the vector is the i-th the OS gave and is wholly mapped. *)
RegionsOK ==
    /\ \A i \in DOMAIN mmaps : mmaps[i].ppn > 0 /\ mmaps[i].ptr = i
    /\ \A i \in DOMAIN mmaps, k \in Nat :
        k < mmaps[i].ppn => <<i, k>> \in DOMAIN host

(* What the allocator still holds has never been written. *)
FreshZero == \A h \in DOMAIN host \ Taken : host[h] = ZeroPage

(* The inductive invariant: what is mapped was taken from the allocator. *)
IInv ==
    /\ TypeOK
    /\ RegionsOK
    /\ FreshZero
    /\ currPpn <= Back.ppn
    /\ \A p \in DOMAIN mapping : mapping[p] \in Taken
    /\ HostPagesDistinct
    /\ HandedOutCurrent

-----------------------------------------------------------------------------
(* Taken host pages are mapped by the OS. *)
LEMMA TakenMapped == IInv => Taken \subseteq DOMAIN host
  BY DEF IInv, TypeOK, RegionsOK, Taken, HostPages

(* The last region of the vector. *)
LEMMA BackOK ==
    ASSUME IInv
    PROVE  /\ Len(mmaps) \in Nat /\ Len(mmaps) > 0
           /\ DOMAIN mmaps = 1 .. Len(mmaps)
           /\ Back \in MMapType
           /\ Back.ppn \in Nat /\ Back.ppn > 0 /\ Back.ptr = Len(mmaps)
           /\ currPpn \in Nat /\ currPpn <= Back.ppn
  <1>1. mmaps \in Seq(MMapType) /\ Len(mmaps) > 0
    BY DEF IInv, TypeOK
  <1>2. /\ Len(mmaps) \in Nat /\ DOMAIN mmaps = 1 .. Len(mmaps)
        /\ Len(mmaps) \in DOMAIN mmaps
    BY <1>1
  <1>3. mmaps[Len(mmaps)] \in MMapType
    BY <1>1, <1>2
  <1>4. mmaps[Len(mmaps)].ppn > 0 /\ mmaps[Len(mmaps)].ptr = Len(mmaps)
    BY <1>2 DEF IInv, RegionsOK
  <1>5. currPpn \in Nat /\ currPpn <= Back.ppn
    BY DEF IInv, TypeOK
  <1> QED BY <1>1, <1>2, <1>3, <1>4, <1>5 DEF Back, MMapType

(* Moving the MMap objects unmaps nothing and keeps every region. *)
LEMMA EmplaceBackEffect ==
    ASSUME NEW ppn, NEW ptr, NEW r,
           mmaps \in Seq(MMapType),
           EmplaceBack(MMap(ppn, ptr), r)
    PROVE  /\ mmaps' = Append(mmaps, MMap(ppn, ptr))
           /\ host' = [h \in DOMAIN host \cup Region(MMap(ppn, ptr)) |->
                        IF h \in Region(MMap(ppn, ptr)) THEN ZeroPage ELSE host[h]]
  <1> DEFINE new == MMap(ppn, ptr)
             old == IF r THEN Range(mmaps) ELSE {}
  <1>1. \A m : Unmapped(MovedFrom(m)) = {}
    BY DEF Unmapped, MovedFrom, MMap, nullptr
  <1>2. UNION {Unmapped(MovedFrom(m)) : m \in old \cup {new}} = {}
    BY <1>1, Zenon
  <1>3. [i \in DOMAIN mmaps |-> MovedTo(mmaps[i])] = mmaps
    BY DEF MovedTo
  <1>4. (DOMAIN host \cup Region(new)) \ {} = DOMAIN host \cup Region(new)
    OBVIOUS
  <1> HIDE DEF new, old
  <1>5. /\ mmaps' = Append([i \in DOMAIN mmaps |-> MovedTo(mmaps[i])], MovedTo(new))
        /\ host' = [h \in (DOMAIN host \cup Region(new)) \
                            UNION {Unmapped(MovedFrom(m)) : m \in old \cup {new}} |->
                       IF h \in Region(new) THEN ZeroPage ELSE host[h]]
    BY DEF EmplaceBack, new, old
  <1>6. MovedTo(new) = new
    BY DEF MovedTo
  <1>7. /\ mmaps' = Append(mmaps, new)
        /\ host' = [h \in DOMAIN host \cup Region(new) |->
                     IF h \in Region(new) THEN ZeroPage ELSE host[h]]
    BY <1>2, <1>3, <1>4, <1>5, <1>6
  <1> QED BY <1>7 DEF new

(* What allocPage guarantees: the page it returns is new, mapped, zeroed,  *)
(* and no other page is touched.                                           *)
LEMMA AllocPageEffect ==
    ASSUME IInv, allocPage
    PROVE  /\ mmaps' \in Seq(MMapType) /\ Len(mmaps') > 0
           /\ DOMAIN host' \subseteq HostPages
           /\ \A h \in DOMAIN host' : host'[h] \in [Offsets -> Byte]
           /\ currPpn' \in Nat /\ (currPpn <= Back.ppn)'
           /\ RegionsOK' /\ FreshZero'
           /\ AllocatedPage \in HostPages
           /\ host'[AllocatedPage] = ZeroPage
           /\ AllocatedPage \notin Taken
           /\ AllocatedPage \in Taken'
           /\ Taken \subseteq Taken'
           /\ \A h \in Taken : host'[h] = host[h]
  <1> USE ConstantsAssumption
  <1>0. ZeroPage \in [Offsets -> Byte]
    BY DEF ZeroPage
  <1>1. CASE RegionFull
    <2> DEFINE n == Len(mmaps)
               new == MMap(Back.ppn * ALLOC_FACTOR, n + 1)
    <2>1. n \in Nat \ {0} /\ Back.ppn \in Nat /\ Back.ppn > 0
      BY BackOK
    <2>2. PICK r \in BOOLEAN : EmplaceBack(new, r)
      BY <1>1 DEF allocPage
    <2>3. /\ mmaps' = Append(mmaps, new)
          /\ host' = [h \in DOMAIN host \cup Region(new) |->
                       IF h \in Region(new) THEN ZeroPage ELSE host[h]]
          /\ currPpn' = 1
      BY <2>2, <1>1, EmplaceBackEffect DEF allocPage, IInv, TypeOK
    <2>4. Back.ppn * ALLOC_FACTOR \in Nat /\ Back.ppn * ALLOC_FACTOR > 0
      BY <2>1, \A a, b \in Nat \ {0} : a * b \in Nat /\ a * b > 0
    <2>5. new \in MMapType /\ new.ppn \in Nat /\ new.ppn > 0 /\ new.ptr = n + 1
      BY <2>1, <2>4 DEF MMap, MMapType
    <2>6. Region(new) = {<<n + 1, k>> : k \in 0 .. new.ppn - 1}
      BY <2>5 DEF Region
    <2> HIDE DEF new
    <2>7. /\ mmaps' \in Seq(MMapType)
          /\ Len(mmaps') = n + 1
          /\ DOMAIN mmaps = 1 .. n /\ DOMAIN mmaps' = 1 .. n + 1
          /\ mmaps'[n + 1] = new
          /\ \A i \in 1 .. n : mmaps'[i] = mmaps[i]
      BY <2>1, <2>3, <2>5 DEF IInv, TypeOK
    <2>8. Region(new) \subseteq HostPages
      BY <2>1, <2>5, <2>6 DEF HostPages
    <2>9. DOMAIN host' = DOMAIN host \cup Region(new)
      BY <2>3
    <2>10. \A h \in DOMAIN host' : host'[h] \in [Offsets -> Byte]
      BY <2>3, <1>0 DEF IInv, TypeOK
    <2>11. RegionsOK'
      <3>1. \A i \in 1 .. n + 1 : mmaps'[i].ppn > 0 /\ mmaps'[i].ptr = i
        <4>1. \A i \in 1 .. n : mmaps[i].ppn > 0 /\ mmaps[i].ptr = i
          BY <2>7 DEF IInv, RegionsOK
        <4>2. \A i \in 1 .. n + 1 : i \in 1 .. n \/ i = n + 1
          BY <2>1
        <4> QED BY <2>5, <2>7, <4>1, <4>2
      <3>2. \A i \in 1 .. n, k \in Nat : k < mmaps'[i].ppn => <<i, k>> \in DOMAIN host'
        BY <2>7, <2>9 DEF IInv, RegionsOK
      <3>3. \A k \in Nat : k < new.ppn => <<n + 1, k>> \in DOMAIN host'
        BY <2>5, <2>6, <2>9
      <3>4. \A i \in 1 .. n + 1 : i \in 1 .. n \/ i = n + 1
        BY <2>1
      <3>5. \A i \in 1 .. n + 1, k \in Nat :
                k < mmaps'[i].ppn => <<i, k>> \in DOMAIN host'
        BY <2>7, <3>2, <3>3, <3>4
      <3> QED BY <2>7, <3>1, <3>5 DEF RegionsOK
    <2>12. AllocatedPage = <<n + 1, 0>>
      BY <1>1 DEF AllocatedPage
    <2>13. AllocatedPage \in HostPages /\ AllocatedPage \notin Taken
      BY <2>1, <2>7, <2>12 DEF HostPages, Taken
    <2>14. AllocatedPage \in Taken'
      BY <2>1, <2>3, <2>5, <2>7, <2>12 DEF HostPages, Taken
    <2>15. Taken \subseteq Taken'
      BY <2>1, <2>7 DEF Taken, HostPages
    <2>16. \A h \in Taken : h \notin Region(new)
      BY <2>1, <2>6, <2>7 DEF Taken, HostPages
    <2>17. \A h \in Taken : host'[h] = host[h]
      BY <2>3, <2>16, TakenMapped
    <2>18. currPpn' \in Nat /\ (currPpn <= Back.ppn)'
      BY <2>3, <2>5, <2>7 DEF Back
    <2>19. DOMAIN host' \subseteq HostPages
      BY <2>8, <2>9 DEF IInv, TypeOK
    <2>20. FreshZero'
      BY <2>3, <2>15 DEF IInv, FreshZero
    <2>21. host'[AllocatedPage] = ZeroPage
      BY <2>3, <2>5, <2>6, <2>12
    <2> QED BY <2>1, <2>7, <2>10, <2>11, <2>13, <2>14, <2>15, <2>17, <2>18, <2>19,
               <2>20, <2>21
  <1>2. CASE ~RegionFull
    <2>1. currPpn' = currPpn + 1 /\ mmaps' = mmaps /\ host' = host
      BY <1>2 DEF allocPage
    <2>2. /\ Len(mmaps) \in DOMAIN mmaps
          /\ Back.ppn \in Nat /\ Back.ptr = Len(mmaps) /\ currPpn < Back.ppn
          /\ currPpn \in Nat /\ Len(mmaps) \in Nat
      BY <1>2, BackOK DEF RegionFull
    <2>3. AllocatedPage = <<Len(mmaps), currPpn>>
      BY <1>2, <2>2 DEF AllocatedPage
    <2>4. AllocatedPage \in HostPages /\ AllocatedPage \notin Taken
      BY <2>2, <2>3 DEF HostPages, Taken
    <2>5. AllocatedPage \in Taken'
      BY <2>1, <2>2, <2>3 DEF HostPages, Taken, Back
    <2>6. Taken \subseteq Taken'
      BY <2>1, <2>2 DEF Taken, HostPages
    <2>7. RegionsOK'
      BY <2>1 DEF IInv, RegionsOK
    <2>8. FreshZero'
      BY <2>1, <2>6 DEF IInv, FreshZero
    <2>9. AllocatedPage \in DOMAIN host
      BY <2>2, <2>3 DEF IInv, RegionsOK, Back
    <2>10. host'[AllocatedPage] = ZeroPage
      BY <2>1, <2>4, <2>9 DEF IInv, FreshZero
    <2> QED BY <2>1, <2>2, <2>4, <2>5, <2>6, <2>7, <2>8, <2>10 DEF IInv, TypeOK, Back
  <1> QED BY <1>1, <1>2

-----------------------------------------------------------------------------
(* The initial state satisfies the invariant. *)
LEMMA InitIInv == Init => IInv
  <1> SUFFICES ASSUME Init PROVE IInv
    OBVIOUS
  <1> USE ConstantsAssumption
  <1> DEFINE m == MMap(PPN_16MB, 1)
  <1>1. m \in MMapType /\ m.ppn = PPN_16MB /\ m.ptr = 1
    BY DEF MMap, MMapType
  <1>2. mmaps = <<m>> /\ host = [h \in Region(m) |-> ZeroPage]
    BY DEF Init
  <1>3. Region(m) = {<<1, k>> : k \in 0 .. PPN_16MB - 1}
    BY <1>1 DEF Region
  <1> HIDE DEF m
  <1>4. /\ mmaps \in Seq(MMapType) /\ Len(mmaps) = 1 /\ DOMAIN mmaps = {1}
        /\ mmaps[1] = m
    BY <1>1, <1>2
  <1>5. DOMAIN host = Region(m) /\ Region(m) \subseteq HostPages
    BY <1>2, <1>3 DEF HostPages
  <1>6. ZeroPage \in [Offsets -> Byte]
    BY DEF ZeroPage
  <1>7. TypeOK
    BY <1>2, <1>4, <1>5, <1>6 DEF Init, TypeOK
  <1>8. RegionsOK
    BY <1>1, <1>3, <1>4, <1>5 DEF RegionsOK
  <1>9. currPpn <= Back.ppn
    BY <1>1, <1>4 DEF Init, Back
  <1>10. HostPagesDistinct /\ HandedOutCurrent
    BY DEF Init, HostPagesDistinct, IsInjective, HandedOutCurrent
  <1>11. FreshZero
    BY <1>2 DEF FreshZero
  <1> QED BY <1>7, <1>8, <1>9, <1>10, <1>11 DEF IInv, Init

(* A store through the host page of a guest page changes that page only. *)
LEMMA StoreEffect ==
    ASSUME IInv, NEW h \in DOMAIN host, NEW off \in Offsets, NEW n \in Sizes,
           NEW v \in [1 .. n -> Byte], StoreBytes(h, off, v)
    PROVE  /\ host' = [host EXCEPT ![h] =
                [o \in Offsets |->
                    IF o \in off .. off + Len(v) - 1
                    THEN v[o - off + 1] ELSE host[h][o]]]
           /\ DOMAIN host' = DOMAIN host
           /\ \A g \in DOMAIN host' : host'[g] \in [Offsets -> Byte]
           /\ \A g \in DOMAIN host : g # h => host'[g] = host[g]
  <1> USE ConstantsAssumption
  <1>1. host' = [host EXCEPT ![h] =
                [o \in Offsets |->
                    IF o \in off .. off + Len(v) - 1
                    THEN v[o - off + 1] ELSE host[h][o]]]
    BY DEF StoreBytes
  <1>2. Len(v) = n /\ n \in Nat
    OBVIOUS
  <1>3. host[h] \in [Offsets -> Byte]
    BY DEF IInv, TypeOK
  <1>4. \A o \in Offsets : o \in off .. off + n - 1 => v[o - off + 1] \in Byte
    BY <1>2 DEF Offsets
  <1>5. [o \in Offsets |-> IF o \in off .. off + Len(v) - 1
                           THEN v[o - off + 1] ELSE host[h][o]] \in [Offsets -> Byte]
    BY <1>2, <1>3, <1>4
  <1> QED BY <1>1, <1>5 DEF IInv, TypeOK

(* Adding pages to the mapping keeps what was there. *)
LEMMA AddPageKeeps ==
    ASSUME IInv, NEW p \in Pages, allocPage, TryEmplace(p, AllocatedPage),
           UNCHANGED <<readPtrs, writePtrs>>
    PROVE  IInv'
  <1> DEFINE a == AllocatedPage
  <1>1. /\ mmaps' \in Seq(MMapType) /\ Len(mmaps') > 0
        /\ DOMAIN host' \subseteq HostPages
        /\ \A h \in DOMAIN host' : host'[h] \in [Offsets -> Byte]
        /\ currPpn' \in Nat /\ (currPpn <= Back.ppn)'
        /\ RegionsOK' /\ FreshZero'
        /\ a \in HostPages /\ a \notin Taken /\ a \in Taken'
        /\ Taken \subseteq Taken'
    BY AllocPageEffect
  <1> HIDE DEF a
  <1>2. CASE p \in DOMAIN mapping
    <2>1. mapping' = mapping
      BY <1>2 DEF TryEmplace
    <2> QED BY <1>1, <2>1 DEF IInv, TypeOK, HostPagesDistinct, IsInjective, HandedOutCurrent
  <1>3. CASE p \notin DOMAIN mapping
    <2>1. mapping' = [q \in DOMAIN mapping \cup {p} |-> IF q = p THEN a ELSE mapping[q]]
      BY <1>3 DEF TryEmplace, a
    <2>2. /\ DOMAIN mapping' = DOMAIN mapping \cup {p}
          /\ mapping'[p] = a
          /\ \A q \in DOMAIN mapping : mapping'[q] = mapping[q]
      BY <1>3, <2>1
    <2>3. TypeOK'
      BY <1>1, <2>2 DEF IInv, TypeOK
    <2>4. \A q \in DOMAIN mapping' : mapping'[q] \in Taken'
      BY <1>1, <2>2 DEF IInv
    <2>5. \A q \in DOMAIN mapping : mapping[q] # a
      BY <1>1 DEF IInv
    <2>6. HostPagesDistinct'
      BY <2>2, <2>5 DEF IInv, HostPagesDistinct, IsInjective
    <2>7. HandedOutCurrent'
      BY <2>2 DEF IInv, HandedOutCurrent
    <2> QED BY <1>1, <2>3, <2>4, <2>6, <2>7 DEF IInv
  <1> QED BY <1>2, <1>3

(* A step that leaves allocator, mapping and the domain of host alone and  *)
(* hands out at most the page's own host page keeps the invariant.         *)
LEMMA AccessKeeps ==
    ASSUME IInv, NEW p, p \in DOMAIN mapping,
           UNCHANGED <<mmaps, currPpn, mapping>>,
           DOMAIN host' = DOMAIN host,
           \A h \in DOMAIN host' : host'[h] \in [Offsets -> Byte],
           \A h \in DOMAIN host : h # mapping[p] => host'[h] = host[h],
           readPtrs' \subseteq readPtrs \cup {<<p, mapping[p]>>},
           writePtrs' \subseteq writePtrs \cup {<<p, mapping[p]>>}
    PROVE  IInv'
  <1>1. p \in Pages /\ mapping[p] \in HostPages
    BY DEF IInv, TypeOK
  <1>2. TypeOK'
    BY <1>1 DEF IInv, TypeOK
  <1>3. RegionsOK'
    BY DEF IInv, RegionsOK
  <1>4. HandedOutCurrent'
    BY DEF IInv, HandedOutCurrent
  <1>5. FreshZero'
    BY DEF IInv, FreshZero, Taken
  <1> QED BY <1>2, <1>3, <1>4, <1>5 DEF IInv, Back, Taken, HostPagesDistinct, IsInjective

(* So does one that changes neither. *)
LEMMA IdleKeeps ==
    ASSUME IInv, UNCHANGED <<host, mmaps, currPpn, mapping, readPtrs, writePtrs>>
    PROVE  IInv'
  BY DEF IInv, TypeOK, RegionsOK, FreshZero, Back, Taken, HostPagesDistinct,
         IsInjective, HandedOutCurrent

-----------------------------------------------------------------------------
(* Every step keeps the invariant. *)
LEMMA NextIInv == IInv /\ [Next]_vars => IInv'
  <1> SUFFICES ASSUME IInv, [Next]_vars PROVE IInv'
    OBVIOUS
  <1>1. ASSUME NEW p \in Pages, addRAMPage(p) PROVE IInv'
    BY <1>1, AddPageKeeps DEF addRAMPage
  <1>2. ASSUME NEW p \in Pages, addRAMPageThrows(p) PROVE IInv'
    <2>1. CASE UNCHANGED <<host, mmaps, currPpn>>
      BY <1>2, <2>1, IdleKeeps DEF addRAMPageThrows
    <2>2. CASE allocPage
      <3>1. UNCHANGED <<mapping, readPtrs, writePtrs>>
        BY <1>2 DEF addRAMPageThrows
      <3>2. /\ TypeOK' /\ RegionsOK' /\ FreshZero' /\ (currPpn <= Back.ppn)'
            /\ Taken \subseteq Taken'
        BY <2>2, <3>1, AllocPageEffect DEF IInv, TypeOK
      <3> QED BY <3>1, <3>2 DEF IInv, HostPagesDistinct, IsInjective, HandedOutCurrent
    <2> QED BY <1>2, <2>1, <2>2 DEF addRAMPageThrows
  <1>3. ASSUME NEW off \in Offsets, NEW n \in Sizes, NEW p \in Pages, read(p, off, n)
        PROVE  IInv'
    <2>1. CASE UNCHANGED readPtrs
      BY <1>3, <2>1, IdleKeeps DEF read
    <2>2. CASE Granted(p, off, n) /\ readPtrs' = readPtrs \cup {<<p, mapping[p]>>}
      <3>1. UNCHANGED <<host, mmaps, currPpn, mapping, writePtrs>>
        BY <1>3 DEF read
      <3>2. p \in DOMAIN mapping
        BY <2>2 DEF Granted
      <3>3. \A h \in DOMAIN host' : host'[h] \in [Offsets -> Byte]
        BY <3>1 DEF IInv, TypeOK
      <3> QED BY <2>2, <3>1, <3>2, <3>3, AccessKeeps
    <2> QED BY <1>3, <2>1, <2>2 DEF read
  <1>4. ASSUME NEW off \in Offsets, NEW n \in Sizes, NEW v \in [1 .. n -> Byte],
               NEW p \in Pages, write(p, off, v)
        PROVE  IInv'
    <2>1. CASE UNCHANGED <<host, writePtrs>>
      BY <1>4, <2>1, IdleKeeps DEF write
    <2>2. CASE /\ Granted(p, off, Len(v)) /\ StoreBytes(mapping[p], off, v)
               /\ writePtrs' = writePtrs \cup {<<p, mapping[p]>>}
      <3>1. UNCHANGED <<mmaps, currPpn, mapping, readPtrs>>
        BY <1>4 DEF write
      <3>2. p \in DOMAIN mapping
        BY <2>2 DEF Granted
      <3>3. mapping[p] \in DOMAIN host
        BY <3>2, TakenMapped DEF IInv
      <3>4. /\ DOMAIN host' = DOMAIN host
            /\ \A h \in DOMAIN host' : host'[h] \in [Offsets -> Byte]
            /\ \A h \in DOMAIN host : h # mapping[p] => host'[h] = host[h]
        BY <2>2, <3>3, StoreEffect
      <3> QED BY <2>2, <3>1, <3>2, <3>4, AccessKeeps
    <2> QED BY <1>4, <2>1, <2>2 DEF write
  <1>5. ASSUME NEW off \in Offsets, NEW n \in Sizes, NEW ptr \in readPtrs,
               HostLoad(ptr, off, n)
        PROVE  IInv'
    BY <1>5, IdleKeeps DEF HostLoad
  <1>6. ASSUME NEW off \in Offsets, NEW n \in Sizes, NEW v \in [1 .. n -> Byte],
               NEW ptr \in writePtrs, HostStore(ptr, off, v)
        PROVE  IInv'
    <2>1. ptr[1] \in DOMAIN mapping /\ mapping[ptr[1]] = ptr[2]
      BY DEF IInv, HandedOutCurrent
    <2>2. ptr[2] \in DOMAIN host
      BY <2>1, TakenMapped DEF IInv
    <2>3. StoreBytes(ptr[2], off, v) /\ UNCHANGED <<mmaps, currPpn, mapping, readPtrs, writePtrs>>
      BY <1>6 DEF HostStore
    <2>4. /\ DOMAIN host' = DOMAIN host
          /\ \A h \in DOMAIN host' : host'[h] \in [Offsets -> Byte]
          /\ \A h \in DOMAIN host : h # ptr[2] => host'[h] = host[h]
      BY <2>2, <2>3, StoreEffect
    <2> QED BY <2>1, <2>3, <2>4, AccessKeeps
  <1>7. CASE UNCHANGED vars
    BY <1>7, IdleKeeps DEF vars
  <1> QED BY <1>1, <1>2, <1>3, <1>4, <1>5, <1>6, <1>7 DEF Next

(* The invariant holds in every reachable state. *)
THEOREM SpecIInv == Spec => []IInv
  BY InitIInv, NextIInv, PTL DEF Spec

(* Type correctness of the allocator, the RAM table and the pointers that  *)
(* read() and write() hand out.                                            *)
THEOREM TypeCorrect == Spec => []TypeOK
  <1>1. IInv => TypeOK
    BY DEF IInv
  <1> QED BY <1>1, SpecIInv, PTL

(* RAM::addPage never gives two guest pages one host page, whatever the    *)
(* sizes of the regions and however additions fail.                        *)
THEOREM HostPagesNeverShared == Spec => []HostPagesDistinct
  <1>1. IInv => HostPagesDistinct
    BY DEF IInv
  <1> QED BY <1>1, SpecIInv, PTL

(* Growing m_mmaps never unmaps a page that RAM or a TLB still points to.  *)
THEOREM NeverDangling == Spec => []NoDanglingHostPage
  <1>1. IInv => NoDanglingHostPage
    <2> SUFFICES ASSUME IInv PROVE NoDanglingHostPage
      OBVIOUS
    <2>1. \A p \in DOMAIN mapping : mapping[p] \in DOMAIN host
      BY TakenMapped DEF IInv
    <2>2. \A ptr \in readPtrs \cup writePtrs : ptr[2] \in DOMAIN host
      BY <2>1 DEF IInv, HandedOutCurrent
    <2> QED BY <2>1, <2>2 DEF NoDanglingHostPage, Range
  <1> QED BY <1>1, SpecIInv, PTL

(* A pointer that read() or write() handed out stays the right one. *)
THEOREM HostPtrsStable == Spec => []HandedOutCurrent
  <1>1. IInv => HandedOutCurrent
    BY DEF IInv
  <1> QED BY <1>1, SpecIInv, PTL

-----------------------------------------------------------------------------
(* A store through a page's own host page stores into that guest page. *)
LEMMA StoreRefines ==
    ASSUME IInv, NEW off \in Offsets, NEW n \in Sizes, NEW v \in [1 .. n -> Byte],
           NEW p, p \in DOMAIN mapping, mapping' = mapping,
           StoreBytes(mapping[p], off, v)
    PROVE  FlatMem' = [FlatMem EXCEPT ![p] = Flat!Patched(FlatMem[p], off, v)]
  <1> DEFINE new == [o \in Offsets |-> IF o \in off .. off + Len(v) - 1
                        THEN v[o - off + 1] ELSE host[mapping[p]][o]]
  <1>1. \A q \in DOMAIN mapping : mapping[q] \in DOMAIN host
    BY TakenMapped DEF IInv
  <1>2. host' = [host EXCEPT ![mapping[p]] = new]
    BY DEF StoreBytes
  <1>3. new = Flat!Patched(FlatMem[p], off, v)
    BY DEF Flat!Patched, FlatMem, Offsets, Flat!Offsets
  <1> HIDE DEF new
  <1>4. \A q \in DOMAIN mapping : q # p => mapping[q] # mapping[p]
    BY DEF IInv, HostPagesDistinct, IsInjective
  <1>5. /\ host'[mapping[p]] = new
        /\ \A q \in DOMAIN mapping : q # p => host'[mapping[q]] = host[mapping[q]]
    BY <1>1, <1>2, <1>4
  <1>6. FlatMem' = [q \in DOMAIN mapping |-> host'[mapping[q]]]
    BY DEF FlatMem
  <1>7. FlatMem' = [FlatMem EXCEPT ![p] = new]
    BY <1>5, <1>6 DEF FlatMem
  <1> QED BY <1>3, <1>7

(* The initial state is the empty flat memory. *)
LEMMA InitRefines == Init => Flat!Init
  <1> SUFFICES ASSUME Init PROVE Flat!Init
    OBVIOUS
  <1>1. FlatMem = [p \in {} |-> Flat!ZeroPage]
    BY DEF Init, FlatMem
  <1>2. PagesOf(readPtrs) = {} /\ PagesOf(writePtrs) = {}
    BY DEF Init, PagesOf
  <1> QED BY <1>1, <1>2 DEF Init, Flat!Init

(* addRAMPage, whatever the allocator has to do, adds one zeroed page. *)
LEMMA AddPageRefines ==
    ASSUME IInv, NEW p \in Pages, addRAMPage(p)
    PROVE  Flat!AddPage(p)
  <1>1. /\ allocPage /\ TryEmplace(p, AllocatedPage)
        /\ UNCHANGED <<readPtrs, writePtrs>>
    BY DEF addRAMPage
  <1>2. \A q \in DOMAIN mapping : host'[mapping[q]] = host[mapping[q]]
    BY <1>1, AllocPageEffect DEF IInv
  <1>3. host'[AllocatedPage] = ZeroPage
    BY <1>1, AllocPageEffect
  <1>4. PagesOf(readPtrs)' = PagesOf(readPtrs) /\ PagesOf(writePtrs)' = PagesOf(writePtrs)
    BY <1>1 DEF PagesOf
  <1>5. DOMAIN FlatMem = DOMAIN mapping
    BY DEF FlatMem
  <1>6. FlatMem' = [q \in DOMAIN mapping' |-> host'[mapping'[q]]]
    BY DEF FlatMem
  <1>7. CASE p \in DOMAIN mapping
    <2>1. mapping' = mapping /\ Returns(<<p>>, "false", <<>>)
      BY <1>1, <1>7 DEF TryEmplace
    <2>2. FlatMem' = FlatMem
      BY <1>2, <1>6, <2>1 DEF FlatMem
    <2> QED BY <1>4, <1>5, <1>7, <2>1, <2>2 DEF Flat!AddPage, Flat!Returns, Returns
  <1>8. CASE p \notin DOMAIN mapping
    <2>1. /\ mapping' = [q \in DOMAIN mapping \cup {p} |->
                            IF q = p THEN AllocatedPage ELSE mapping[q]]
          /\ Returns(<<p>>, "true", <<>>)
      BY <1>1, <1>8 DEF TryEmplace
    <2>2. ZeroPage = Flat!ZeroPage
      BY DEF ZeroPage, Flat!ZeroPage, Offsets, Flat!Offsets
    <2>3. FlatMem' = [q \in DOMAIN FlatMem \cup {p} |->
                        IF q = p THEN Flat!ZeroPage ELSE FlatMem[q]]
      BY <1>2, <1>3, <1>5, <1>6, <1>8, <2>1, <2>2 DEF FlatMem
    <2> QED BY <1>4, <1>5, <1>8, <2>1, <2>3 DEF Flat!AddPage, Flat!Returns, Returns
  <1> QED BY <1>7, <1>8

(* An addition that throws changes nothing a caller can see. *)
LEMMA ThrowRefines ==
    ASSUME IInv, NEW p \in Pages, addRAMPageThrows(p)
    PROVE  Flat!AddPageThrows(p)
  <1>1. UNCHANGED <<mapping, readPtrs, writePtrs>> /\ Returns(<<p>>, "bad_alloc", <<>>)
    BY DEF addRAMPageThrows
  <1>2. \A q \in DOMAIN mapping : host'[mapping[q]] = host[mapping[q]]
    <2>1. CASE host' = host
      BY <2>1
    <2>2. CASE allocPage
      BY <2>2, AllocPageEffect DEF IInv
    <2> QED BY <2>1, <2>2 DEF addRAMPageThrows
  <1>3. FlatMem' = FlatMem
    BY <1>1, <1>2 DEF FlatMem
  <1> QED BY <1>1, <1>3 DEF Flat!AddPageThrows, Flat!Returns, Returns, PagesOf

(* A refused access is refused in the flat memory. *)
LEMMA RefusedRefines ==
    ASSUME NEW p, NEW off, NEW n, Refused(p, off, n),
           UNCHANGED <<host, mapping, readPtrs, writePtrs>>
    PROVE  Flat!Refuse(p, off, n)
  <1>1. FlatMem' = FlatMem /\ DOMAIN FlatMem = DOMAIN mapping
    BY DEF FlatMem
  <1>2. PagesOf(readPtrs)' = PagesOf(readPtrs) /\ PagesOf(writePtrs)' = PagesOf(writePtrs)
    BY DEF PagesOf
  <1> QED BY <1>1, <1>2 DEF Refused, Flat!Refuse, Crosses, Flat!Crosses,
                            Returns, Flat!Returns

(* The bytes of a page's host page are the page's bytes. *)
LEMMA BytesRefine ==
    ASSUME NEW p, p \in DOMAIN mapping, NEW off, NEW n
    PROVE  Bytes(mapping[p], off, n) = Flat!Bytes(FlatMem[p], off, n)
  BY DEF Bytes, Flat!Bytes, FlatMem

(* Handing out one more pointer makes one more page reachable. *)
LEMMA PagesOfAdd ==
    ASSUME NEW ptrs, NEW p, NEW h
    PROVE  PagesOf(ptrs \cup {<<p, h>>}) = PagesOf(ptrs) \cup {p}
  <1> DEFINE all == ptrs \cup {<<p, h>>}
  <1>1. \A x : x \in PagesOf(all) <=> \E q \in all : x = q[1]
    BY DEF PagesOf
  <1>2. \A x : x \in PagesOf(ptrs) <=> \E q \in ptrs : x = q[1]
    BY DEF PagesOf
  <1>3. <<p, h>>[1] = p
    OBVIOUS
  <1>4. \A x : (\E q \in all : x = q[1]) <=> (\E q \in ptrs : x = q[1]) \/ x = p
    BY <1>3
  <1> QED BY <1>1, <1>2, <1>4

(* Every step is a step of the flat memory or invisible to it. *)
LEMMA NextRefines == IInv /\ [Next]_vars => [Flat!Next]_(Flat!vars)
  <1> SUFFICES ASSUME IInv, [Next]_vars PROVE [Flat!Next]_(Flat!vars)
    OBVIOUS
  <1>0. Offsets = Flat!Offsets
    BY DEF Offsets, Flat!Offsets
  <1>d. DOMAIN FlatMem = DOMAIN mapping
    BY DEF FlatMem
  <1>1. ASSUME NEW p \in Pages, addRAMPage(p) PROVE Flat!Next
    BY <1>1, AddPageRefines DEF Flat!Next
  <1>2. ASSUME NEW p \in Pages, addRAMPageThrows(p) PROVE Flat!Next
    BY <1>2, ThrowRefines DEF Flat!Next
  <1>3. ASSUME NEW off \in Offsets, NEW n \in Sizes, NEW p \in Pages, read(p, off, n)
        PROVE  Flat!Next
    <2>1. UNCHANGED <<host, mmaps, currPpn, mapping, writePtrs>>
      BY <1>3 DEF read
    <2>2. CASE Refused(p, off, n) /\ UNCHANGED readPtrs
      <3>1. Flat!Refuse(p, off, n)
        BY <2>1, <2>2, RefusedRefines
      <3> QED BY <1>0, <3>1 DEF Flat!Next
    <2>3. CASE /\ Granted(p, off, n)
               /\ Returns(<<p, off, n>>, "OK", Bytes(mapping[p], off, n))
               /\ readPtrs' = readPtrs \cup {<<p, mapping[p]>>}
      <3>1. p \in DOMAIN mapping /\ ~Flat!Crosses(off, n)
        BY <2>3 DEF Granted, Crosses, Flat!Crosses
      <3>2. Flat!Returns(<<p, off, n>>, "OK", Flat!Bytes(FlatMem[p], off, n))
        BY <2>3, <3>1, BytesRefine DEF Returns, Flat!Returns
      <3>3. PagesOf(readPtrs)' = PagesOf(readPtrs) \cup {p}
        BY <2>3, PagesOfAdd
      <3>4. FlatMem' = FlatMem /\ PagesOf(writePtrs)' = PagesOf(writePtrs)
        BY <2>1 DEF FlatMem, PagesOf
      <3>5. Flat!Read(p, off, n)
        BY <1>d, <3>1, <3>2, <3>3, <3>4 DEF Flat!Read
      <3> QED BY <1>0, <3>5 DEF Flat!Next
    <2> QED BY <1>3, <2>2, <2>3 DEF read
  <1>4. ASSUME NEW off \in Offsets, NEW n \in Sizes, NEW v \in [1 .. n -> Byte],
               NEW p \in Pages, write(p, off, v)
        PROVE  Flat!Next
    <2>1. UNCHANGED <<mmaps, currPpn, mapping, readPtrs>>
      BY <1>4 DEF write
    <2>0. Len(v) = n
      BY ConstantsAssumption
    <2>2. CASE Refused(p, off, Len(v)) /\ UNCHANGED <<host, writePtrs>>
      <3>1. Flat!Refuse(p, off, n)
        BY <2>0, <2>1, <2>2, RefusedRefines
      <3> QED BY <1>0, <3>1 DEF Flat!Next
    <2>3. CASE /\ Granted(p, off, Len(v))
               /\ StoreBytes(mapping[p], off, v)
               /\ Returns(<<p, off, Len(v)>>, "OK", v)
               /\ writePtrs' = writePtrs \cup {<<p, mapping[p]>>}
      <3>1. p \in DOMAIN mapping /\ ~Flat!Crosses(off, Len(v))
        BY <2>3 DEF Granted, Crosses, Flat!Crosses
      <3>2. FlatMem' = [FlatMem EXCEPT ![p] = Flat!Patched(FlatMem[p], off, v)]
        BY <2>1, <2>3, <3>1, StoreRefines
      <3>3. PagesOf(writePtrs)' = PagesOf(writePtrs) \cup {p}
        BY <2>3, PagesOfAdd
      <3>4. PagesOf(readPtrs)' = PagesOf(readPtrs)
        BY <2>1 DEF PagesOf
      <3>5. Flat!Write(p, off, v)
        BY <1>d, <2>3, <3>1, <3>2, <3>3, <3>4 DEF Flat!Write, Returns, Flat!Returns
      <3> QED BY <1>0, <3>5 DEF Flat!Next
    <2> QED BY <1>4, <2>2, <2>3 DEF write
  <1>5. ASSUME NEW off \in Offsets, NEW n \in Sizes, NEW ptr \in readPtrs,
               HostLoad(ptr, off, n)
        PROVE  Flat!Next
    <2> DEFINE p == ptr[1]
    <2>1. p \in DOMAIN mapping /\ mapping[p] = ptr[2] /\ p \in Pages
      BY DEF IInv, HandedOutCurrent, TypeOK
    <2>2. p \in PagesOf(readPtrs)
      BY DEF PagesOf
    <2>3. ~Flat!Crosses(off, n)
      BY <1>5 DEF HostLoad, Crosses, Flat!Crosses
    <2> HIDE DEF p
    <2>4. Flat!Returns(<<p, off, n>>, "OK", Flat!Bytes(FlatMem[p], off, n))
      BY <1>5, <2>1, BytesRefine DEF HostLoad, Returns, Flat!Returns, p
    <2>5. /\ FlatMem' = FlatMem /\ PagesOf(readPtrs)' = PagesOf(readPtrs)
          /\ PagesOf(writePtrs)' = PagesOf(writePtrs)
      BY <1>5 DEF HostLoad, FlatMem, PagesOf
    <2>6. Flat!HostLoad(p, off, n)
      BY <2>2, <2>3, <2>4, <2>5 DEF Flat!HostLoad
    <2> QED BY <1>0, <2>1, <2>6 DEF Flat!Next
  <1>6. ASSUME NEW off \in Offsets, NEW n \in Sizes, NEW v \in [1 .. n -> Byte],
               NEW ptr \in writePtrs, HostStore(ptr, off, v)
        PROVE  Flat!Next
    <2> DEFINE p == ptr[1]
    <2>1. p \in DOMAIN mapping /\ mapping[p] = ptr[2] /\ p \in Pages
      BY DEF IInv, HandedOutCurrent, TypeOK
    <2>2. p \in PagesOf(writePtrs)
      BY DEF PagesOf
    <2>3. ~Flat!Crosses(off, Len(v)) /\ UNCHANGED <<mapping, readPtrs, writePtrs>>
      BY <1>6 DEF HostStore, Crosses, Flat!Crosses
    <2> HIDE DEF p
    <2>4. StoreBytes(mapping[p], off, v) /\ Flat!Returns(<<p, off, Len(v)>>, "OK", v)
      BY <1>6, <2>1 DEF HostStore, Returns, Flat!Returns, p
    <2>5. FlatMem' = [FlatMem EXCEPT ![p] = Flat!Patched(FlatMem[p], off, v)]
      BY <2>1, <2>3, <2>4, StoreRefines
    <2>6. /\ PagesOf(readPtrs)' = PagesOf(readPtrs)
          /\ PagesOf(writePtrs)' = PagesOf(writePtrs)
      BY <2>3 DEF PagesOf
    <2>7. Flat!HostStore(p, off, v)
      BY <1>d, <2>2, <2>3, <2>4, <2>5, <2>6 DEF Flat!HostStore
    <2> QED BY <1>0, <2>1, <2>7 DEF Flat!Next
  <1>7. CASE UNCHANGED vars
    BY <1>7 DEF vars, Flat!vars, FlatMem, PagesOf
  <1> QED BY <1>1, <1>2, <1>3, <1>4, <1>5, <1>6, <1>7 DEF Next

(* PhysMemory implements the flat byte memory: regions, duplicates, moves  *)
(* and kept host pointers are invisible to its callers.                    *)
THEOREM PhysMemoryIsFlat == Spec => FlatSpec
  BY InitRefines, NextRefines, SpecIInv, PTL DEF Spec, FlatSpec, Flat!Spec

=============================================================================
