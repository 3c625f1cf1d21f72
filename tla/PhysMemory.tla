----------------------------- MODULE PhysMemory -----------------------------
(***************************************************************************)
(* memory/include/sim/memory/phys_memory.hpp: the mmap wrapper, the host   *)
(* page allocator, the RAM page table and PhysMemory::read/write, together *)
(* with the callers that keep the host pointers they were given (the TLBs) *)
(* and use them long after.                                                *)
(*                                                                         *)
(* An address is a pair <<page, offset>>.  A host page is a pair           *)
(* <<ptr, k>>: page k of the region that mmap returned at ptr.             *)
(***************************************************************************)
EXTENDS Integers, Sequences, Functions

CONSTANTS Pages,         \* guest page numbers
          PAGE_SIZE,     \* bytes in a page
          Sizes,         \* sizeof(UInt) of the accesses
          Byte,          \* values of a byte
          ZeroByte,      \* content of anonymous host memory
          PPN_16MB,      \* pages of the first region
          ALLOC_FACTOR,  \* growth of each next region
          MaxMMaps       \* bound: regions the host can provide

ASSUME ConstantsAssumption ==
    /\ PAGE_SIZE \in Nat \ {0}
    /\ PPN_16MB \in Nat \ {0}
    /\ ALLOC_FACTOR \in Nat \ {0}
    /\ MaxMMaps \in Nat \ {0}
    /\ Sizes \subseteq Nat \ {0}
    /\ ZeroByte \in Byte

VARIABLES host,       \* OS view: mapped host pages -> content
          mmaps,      \* PageAllocator::m_mmaps
          currPpn,    \* PageAllocator::m_curr_ppn
          mapping,    \* RAM::m_mapping: guest page -> host page
          readPtrs,   \* <<page, host page>> of the ConstHostPtrs handed out
          writePtrs,  \* <<page, host page>> of the HostPtrs handed out
          res         \* the last access: where, its status and the bytes it moved

vars == <<host, mmaps, currPpn, mapping, readPtrs, writePtrs, res>>

Offsets == 0 .. PAGE_SIZE - 1

ZeroPage == [o \in Offsets |-> ZeroByte]

-----------------------------------------------------------------------------
(* MMap *)

nullptr == 0

MMapType == [ppn : Nat, ptr : Nat]

MMap(ppn, ptr) == [ppn |-> ppn, ptr |-> ptr]

(* The move constructor swaps with a null object. *)
MovedTo(m) == m
MovedFromCopied(m) == m   \* seeded fault: the move constructor copies
MovedFrom(m) == MMap(0, nullptr)

Region(m) == {<<m.ptr, k>> : k \in 0 .. m.ppn - 1}

(* The host pages the destructor unmaps. *)
Unmapped(m) == IF m.ptr # nullptr THEN Region(m) ELSE {}

-----------------------------------------------------------------------------
(* PageAllocator *)

Back == mmaps[Len(mmaps)]

RegionFull == currPpn = Back.ppn

(* m_mmaps.emplace_back(MMap{new_ppn}): the temporary is moved into the    *)
(* vector; a vector that reallocates moves its other elements too and      *)
(* destroys the objects they were moved from.                              *)
EmplaceBack(new, reallocates) ==
    LET old  == IF reallocates THEN Range(mmaps) ELSE {}
        gone == UNION {Unmapped(MovedFrom(m)) : m \in old \cup {new}}
    IN  /\ mmaps' = Append([i \in DOMAIN mmaps |-> MovedTo(mmaps[i])],
                           MovedTo(new))
        /\ host' = [h \in (DOMAIN host \cup Region(new)) \ gone |->
                       IF h \in Region(new) THEN ZeroPage ELSE host[h]]

(* The page allocPage() returns: the OS places a new region where no other *)
(* one ever was.                                                           *)
AllocatedPageBefore ==   \* seeded fault: the cursor is decremented first
    IF RegionFull THEN <<Len(mmaps) + 1, 0>> ELSE <<Back.ptr, currPpn - 1>>
AllocatedPage ==
    IF RegionFull THEN <<Len(mmaps) + 1, 0>> ELSE <<Back.ptr, currPpn>>

(* What allocPage() does to the allocator. *)
allocPageReused ==     \* seeded fault: m_curr_ppn is not advanced when growing
    IF RegionFull
    THEN /\ Len(mmaps) < MaxMMaps
         /\ \E reallocates \in BOOLEAN :
                EmplaceBack(MMap(Back.ppn * ALLOC_FACTOR, Len(mmaps) + 1),
                            reallocates)
         /\ currPpn' = 0
    ELSE /\ currPpn' = currPpn + 1
         /\ UNCHANGED <<mmaps, host>>
allocPage ==
    IF RegionFull
    THEN /\ Len(mmaps) < MaxMMaps
         /\ \E reallocates \in BOOLEAN :
                EmplaceBack(MMap(Back.ppn * ALLOC_FACTOR, Len(mmaps) + 1),
                            reallocates)
         /\ currPpn' = 1
    ELSE /\ currPpn' = currPpn + 1
         /\ UNCHANGED <<mmaps, host>>

-----------------------------------------------------------------------------
(* RAM and PhysMemory *)

Returns(at, status, v) == res' = [at |-> at, status |-> status, value |-> v]

Init ==
    /\ mmaps = <<MMap(PPN_16MB, 1)>>
    /\ host = [h \in Region(MMap(PPN_16MB, 1)) |-> ZeroPage]
    /\ currPpn = 0
    /\ mapping = [p \in {} |-> <<1, 0>>]
    /\ readPtrs = {}
    /\ writePtrs = {}
    /\ res = [at |-> <<>>, status |-> "none", value |-> <<>>]

(* try_emplace(page_pa, allocPage()): a host page is taken even when the   *)
(* page is already there, and the first mapping stays.                     *)
TryEmplaceAssigns(p, hostPage) ==    \* seeded fault: insert_or_assign
    /\ mapping' = [q \in DOMAIN mapping \cup {p} |->
                      IF q = p THEN hostPage ELSE mapping[q]]
    /\ Returns(<<p>>, IF p \in DOMAIN mapping THEN "false" ELSE "true", <<>>)
TryEmplace(p, hostPage) ==
    IF p \in DOMAIN mapping
    THEN UNCHANGED mapping /\ Returns(<<p>>, "false", <<>>)
    ELSE /\ mapping' = [q \in DOMAIN mapping \cup {p} |->
                           IF q = p THEN hostPage ELSE mapping[q]]
         /\ Returns(<<p>>, "true", <<>>)

addRAMPage(p) ==
    /\ allocPage
    /\ TryEmplace(p, AllocatedPage)
    /\ UNCHANGED <<readPtrs, writePtrs>>

(* std::bad_alloc out of addRAMPage: mmap or the vector fail and allocPage *)
(* has no effect, or the hash table's node fails and the page just taken   *)
(* is lost.                                                                *)
addRAMPageThrows(p) ==
    /\ \/ RegionFull /\ UNCHANGED <<host, mmaps, currPpn>>
       \/ p \notin DOMAIN mapping /\ allocPage
    /\ Returns(<<p>>, "bad_alloc", <<>>)
    /\ UNCHANGED <<mapping, readPtrs, writePtrs>>

CrossesAtEnd(off, n) == off + n >= PAGE_SIZE   \* seeded fault: off by one
Crosses(off, n) == off + n > PAGE_SIZE

Refused(p, off, n) ==
    \/ /\ Crosses(off, n)
       /\ Returns(<<p, off, n>>, "PHYS_MEM__PAGE_ALIGN_ERROR", <<>>)
    \/ /\ ~Crosses(off, n) /\ p \notin DOMAIN mapping
       /\ Returns(<<p, off, n>>, "PHYS_MEM__ACCESS_FAULT", <<>>)

Granted(p, off, n) == ~Crosses(off, n) /\ p \in DOMAIN mapping

Bytes(h, off, n) == [j \in 1 .. n |-> host[h][off + j - 1]]

StoreBytes(h, off, v) ==
    host' = [host EXCEPT ![h] =
        [o \in Offsets |->
            IF o \in off .. off + Len(v) - 1 THEN v[o - off + 1] ELSE @[o]]]

read(p, off, n) ==
    /\ \/ Refused(p, off, n) /\ UNCHANGED readPtrs
       \/ /\ Granted(p, off, n)
          /\ Returns(<<p, off, n>>, "OK", Bytes(mapping[p], off, n))
          /\ readPtrs' = readPtrs \cup {<<p, mapping[p]>>}
    /\ UNCHANGED <<host, mmaps, currPpn, mapping, writePtrs>>

write(p, off, v) ==
    /\ \/ Refused(p, off, Len(v)) /\ UNCHANGED <<host, writePtrs>>
       \/ /\ Granted(p, off, Len(v))
          /\ StoreBytes(mapping[p], off, v)
          /\ Returns(<<p, off, Len(v)>>, "OK", v)
          /\ writePtrs' = writePtrs \cup {<<p, mapping[p]>>}
    /\ UNCHANGED <<mmaps, currPpn, mapping, readPtrs>>

(* A caller that kept the pointer of an earlier read or write uses it; the *)
(* simulator's own check keeps the access inside the page.                 *)
HostLoad(ptr, off, n) ==
    /\ ~Crosses(off, n)
    /\ Returns(<<ptr[1], off, n>>, "OK", Bytes(ptr[2], off, n))
    /\ UNCHANGED <<host, mmaps, currPpn, mapping, readPtrs, writePtrs>>

HostStore(ptr, off, v) ==
    /\ ~Crosses(off, Len(v))
    /\ StoreBytes(ptr[2], off, v)
    /\ Returns(<<ptr[1], off, Len(v)>>, "OK", v)
    /\ UNCHANGED <<mmaps, currPpn, mapping, readPtrs, writePtrs>>

Next ==
    \/ \E p \in Pages : addRAMPage(p) \/ addRAMPageThrows(p)
    \/ \E off \in Offsets, n \in Sizes :
        \/ \E p \in Pages : read(p, off, n)
        \/ \E ptr \in readPtrs : HostLoad(ptr, off, n)
        \/ \E v \in [1 .. n -> Byte] :
            \/ \E p \in Pages : write(p, off, v)
            \/ \E ptr \in writePtrs : HostStore(ptr, off, v)

Spec == Init /\ [][Next]_vars

-----------------------------------------------------------------------------
(* Properties *)

HostPages == Nat \X Nat

(* Every variable has its type; pointers handed out and mapped pages may   *)
(* be any host page at all here, live or not.                              *)
TypeOK ==
    /\ mmaps \in Seq(MMapType) /\ Len(mmaps) > 0
    /\ DOMAIN host \subseteq HostPages
    /\ \A h \in DOMAIN host : host[h] \in [Offsets -> Byte]
    /\ currPpn \in Nat
    /\ DOMAIN mapping \subseteq Pages
    /\ \A p \in DOMAIN mapping : mapping[p] \in HostPages
    /\ readPtrs \subseteq Pages \X HostPages
    /\ writePtrs \subseteq Pages \X HostPages

(* Two guest pages never share a host page, over any number of additions,  *)
(* duplicates, region growths and failed additions.                        *)
HostPagesDistinct == IsInjective(mapping)

(* Every host page that RAM maps or that a caller kept a pointer to is     *)
(* still mapped by the OS: growing m_mmaps moves the MMap objects without  *)
(* unmapping what they own.                                                *)
NoDanglingHostPage ==
    /\ Range(mapping) \subseteq DOMAIN host
    /\ \A ptr \in readPtrs \cup writePtrs : ptr[2] \in DOMAIN host

(* A host pointer that was handed out stays the page's host page for ever, *)
(* which is what lets the TLBs use it without asking again.                *)
HandedOutCurrent ==
    \A ptr \in readPtrs \cup writePtrs :
        ptr[1] \in DOMAIN mapping /\ mapping[ptr[1]] = ptr[2]

(* The guest memory that the detailed state stands for. *)
FlatMem == [p \in DOMAIN mapping |-> host[mapping[p]]]
PagesOf(ptrs) == {ptr[1] : ptr \in ptrs}

Flat == INSTANCE FlatMemory
            WITH mem      <- FlatMem,
                 readable <- PagesOf(readPtrs),
                 writable <- PagesOf(writePtrs)

(* PhysMemory is a flat memory: every read and every access through a kept *)
(* pointer sees the last value stored at its guest address.                *)
FlatSpec == Flat!Spec
=============================================================================
