------------------------ MODULE VirtualMemoryProofs -------------------------
(***************************************************************************)
(* Mapper, MMU and guest stores over any tables, addresses and pages: the  *)
(* tables stay a tree that the guest cannot reach, and the whole is the    *)
(* address space of AddressSpace.                                          *)
(***************************************************************************)
EXTENDS VirtualMemory, SimpleMemoryMapperProofs

(* main() set satp and mstatus, and nothing changes them. *)
CsrsFixed ==
    /\ satp = [mode |-> "PAGED", ppn |-> TABLE_BEGIN]
    /\ mstatus = [mxr |-> FALSE, sum |-> FALSE]

(* A walk stands at the table that its address leads to, and walks and     *)
(* calls of map() exclude each other: both run in one host thread.         *)
WalkOK ==
    walk.pc = "walk" =>
        /\ ~Mapping
        /\ walk.priv = "USER"
        /\ walk.table \in DOMAIN path
        /\ path[walk.table] = Above(walk.va, walk.i)
        /\ res.status = "pending"

(* The inductive invariant. *)
IInv ==
    /\ mem \in [TableRegion \cup DataPages -> [Slots -> PTEs]]
    /\ MmuTypeOK
    /\ MapperInv
    /\ CsrsFixed
    /\ WalkOK
    /\ TablesProtected
    /\ WalksAreClean

-----------------------------------------------------------------------------
(* The initial state. *)
LEMMA InitIInv == Init => IInv /\ Space = [v \in {} |-> 0]
  <1> SUFFICES ASSUME Init PROVE IInv /\ Space = [v \in {} |-> 0]
    OBVIOUS
  <1> USE PageTablesAssumption, MapperAssumption
  <1>1. ZeroPTE \in PTEs
    <2>1. 0 % PPN_SIZE = 0
      OBVIOUS
    <2> QED BY <2>1 DEF ZeroPTE, createPTE, PTEs
  <1>2. mem \in [TableRegion \cup DataPages -> [Slots -> PTEs]]
    BY <1>1 DEF Init, EmptyTable
  <1>3. MemOK /\ \A t \in TableRegion : mem[t] = EmptyTable
    BY <1>2 DEF Init, MemOK
  <1>4. MapperInv /\ Space = [v \in {} |-> 0]
    BY <1>3, MapperInitInv DEF Init
  <1>5. MmuTypeOK /\ TablesProtected /\ WalksAreClean /\ WalkOK
    BY SlotZero DEF Init, MmuInit, IdleWalk, MmuTypeOK, Levels, AccessTypes, VirtPages,
                    TablesProtected, WalksAreClean, WalkOK
  <1> QED BY <1>2, <1>4, <1>5 DEF IInv, Init, CsrsFixed

(* What an iteration of the walk reads: a table of the mapper, whose valid *)
(* slots are leaves at level 0 only.                                       *)
LEMMA WalkReads ==
    ASSUME IInv, walk.pc = "walk"
    PROVE  /\ ~Mapping /\ PteRead
           /\ walk.va \in VirtPages /\ walk.i \in 0 .. LEVELS - 1
           /\ walk.access \in AccessTypes /\ walk.priv = "USER"
           /\ pte \in PTEs
           /\ pte = mem[walk.table][walk.va[walk.i]]
           /\ V(pte) => pte.rsv = FALSE
           /\ V(pte) /\ walk.i # 0 =>
                /\ pte.flags = {"V"}
                /\ pte.ppn \in DOMAIN path
                /\ path[pte.ppn] = Above(walk.va, walk.i - 1)
           /\ V(pte) /\ walk.i = 0 =>
                /\ {"A", "D"} \subseteq pte.flags
                /\ pte.ppn \notin TableRegion
                /\ Canonical(walk.va) \in DOMAIN Space
                /\ Space[Canonical(walk.va)] = SpaceEntry(pte)
           /\ ~V(pte) => Canonical(walk.va) \notin DOMAIN Space
  <1>1. /\ walk.va \in VirtPages /\ walk.i \in 0 .. LEVELS - 1
        /\ walk.access \in AccessTypes
    BY DEF IInv, MmuTypeOK
  <1>2. /\ ~Mapping /\ walk.priv = "USER" /\ walk.table \in DOMAIN path
        /\ path[walk.table] = Above(walk.va, walk.i)
        /\ MapperInv
    BY DEF IInv, WalkOK
  <1> QED BY <1>1, <1>2, TableWalk

(* One iteration of the walk. *)
LEMMA WalksInv ==
    ASSUME IInv, Walks
    PROVE  IInv'
  <1> USE PageTablesAssumption
  <1>1. walk.pc = "walk" /\ UNCHANGED <<mem, satp, mstatus, currTable, call, mapRes, path>>
    BY DEF Walks, WalkStep, TableAccessFault, InvalidPte, NoLeaf, Descend, LeafRefused,
           LeafFound, PteRead, mapperVars
  <1>2. MemOK' /\ MapperTypeOK' /\ CallOK'
    BY <1>1 DEF IInv, MapperInv, MemOK, MapperTypeOK, CallOK, Mapping
  <1>3. MapperInv'
    BY <1>1, <1>2, TablesKept DEF IInv, MapperInv
  <1>4. (mem \in [TableRegion \cup DataPages -> [Slots -> PTEs]])' /\ CsrsFixed'
    BY <1>1 DEF IInv, CsrsFixed
  <1>5. walk \in [pc : {"idle", "walk"}, priv : Levels, access : AccessTypes,
                  va : VirtPages, i : 0 .. LEVELS - 1, table : 0 .. PPN_SIZE - 1]
    BY DEF IInv, MmuTypeOK
  <1>6. ASSUME NEW status, NEW page \in Nat, Ends(status, page),
               status = "OK" => page \notin TableRegion,
               status \notin {"PHYS_MEM__ACCESS_FAULT", "abort"}
        PROVE  IInv'
    <2>1. walk' = [walk EXCEPT !.pc = "idle"] /\ res' = [status |-> status, page |-> page]
      BY <1>6 DEF Ends, ResultIs
    <2>2. MmuTypeOK'
      BY <1>5, <2>1 DEF MmuTypeOK
    <2>3. WalkOK' /\ TablesProtected' /\ WalksAreClean'
      BY <1>5, <1>6, <2>1 DEF WalkOK, TablesProtected, WalksAreClean
    <2> QED BY <1>3, <1>4, <2>2, <2>3 DEF IInv
  <1>7. CASE TableAccessFault
    BY <1>1, <1>7, WalkReads DEF TableAccessFault, PteRead
  <1>8. CASE InvalidPte \/ NoLeaf \/ LeafRefused
    <2>1. Ends("MMU64__PAGE_FAULT", 0)
      BY <1>8 DEF InvalidPte, NoLeaf, LeafRefused, PageFault
    <2> QED BY <1>6, <2>1
  <1>9. CASE LeafFound
    <2>1. ~BadPte /\ Leaf
      BY <1>9 DEF LeafFound
    <2>2. V(pte) /\ walk.i = 0
      <3>1. V(pte)
        BY <2>1 DEF BadPte
      <3>2. walk.i # 0 => pte.flags = {"V"}
        BY <1>1, <3>1, WalkReads
      <3> QED BY <2>1, <3>1, <3>2 DEF Leaf
    <2>3. /\ {"A", "D"} \subseteq pte.flags /\ pte.ppn \notin TableRegion
          /\ pte.ppn \in Nat
      BY <1>1, <2>2, WalkReads DEF PTEs
    <2>4. Ends("OK", pte.ppn)
      BY <1>9, <2>2, <2>3 DEF LeafFound, calcPhysPage
    <2> QED BY <1>6, <2>3, <2>4
  <1>10. CASE Descend
    <2>1. /\ V(pte) /\ walk.i # 0 /\ res' = res
          /\ walk' = [walk EXCEPT !.i = walk.i - 1, !.table = pte.ppn]
      BY <1>10 DEF Descend, BadPte
    <2>2. /\ ~Mapping /\ walk.i - 1 \in 0 .. LEVELS - 1
          /\ pte.ppn \in 0 .. PPN_SIZE - 1
          /\ pte.ppn \in DOMAIN path /\ path[pte.ppn] = Above(walk.va, walk.i - 1)
      BY <1>1, <2>1, WalkReads DEF PTEs
    <2>3. MmuTypeOK'
      <3>1. walk' \in [pc : {"idle", "walk"}, priv : Levels, access : AccessTypes,
                  va : VirtPages, i : 0 .. LEVELS - 1, table : 0 .. PPN_SIZE - 1]
        BY <1>5, <2>1, <2>2
      <3> QED BY <2>1, <3>1 DEF IInv, MmuTypeOK
    <2>4. /\ walk'.pc = walk.pc /\ walk'.priv = walk.priv /\ walk'.va = walk.va
          /\ walk'.i = walk.i - 1 /\ walk'.table = pte.ppn
      BY <1>5, <2>1
    <2>5. WalkOK'
      BY <1>1, <2>1, <2>2, <2>4 DEF IInv, WalkOK, Mapping
    <2>6. TablesProtected' /\ WalksAreClean'
      BY <2>1 DEF IInv, TablesProtected, WalksAreClean
    <2> QED BY <1>3, <1>4, <2>3, <2>5, <2>6 DEF IInv
  <1> QED BY <1>7, <1>8, <1>9, <1>10 DEF Walks, WalkStep

(* A step that leaves the MMU alone keeps what is said of it. *)
LEMMA MmuKept ==
    ASSUME IInv, UNCHANGED <<satp, mstatus, walk, res>>, walk.pc = "idle"
    PROVE  MmuTypeOK' /\ CsrsFixed' /\ WalkOK' /\ TablesProtected' /\ WalksAreClean'
  BY DEF IInv, MmuTypeOK, CsrsFixed, WalkOK, TablesProtected, WalksAreClean

(* A store through a translation does not reach the tables. *)
LEMMA GuestStoreInv ==
    ASSUME IInv, NEW s \in Slots, NEW word \in GuestWords, GuestStore(s, word)
    PROVE  IInv' /\ Space' = Space
  <1> USE PageTablesAssumption, MapperAssumption, VirtualMemoryAssumption
  <1>1. /\ walk.pc = "idle" /\ res.status = "OK" /\ res.page \in DOMAIN mem
        /\ mem' = [mem EXCEPT ![res.page] = [mem[res.page] EXCEPT ![s] = word]]
        /\ UNCHANGED <<satp, mstatus, walk, res, currTable, call, mapRes, path>>
    BY DEF GuestStore, mapperVars
  <1>2. res.page \notin TableRegion
    BY <1>1 DEF IInv, TablesProtected
  <1>3. mem' \in [TableRegion \cup DataPages -> [Slots -> PTEs]]
    <2>1. mem[res.page] \in [Slots -> PTEs]
      BY <1>1 DEF IInv
    <2>2. [mem[res.page] EXCEPT ![s] = word] \in [Slots -> PTEs]
      BY <2>1
    <2> QED BY <1>1, <2>2 DEF IInv
  <1>4. \A t \in TableRegion : mem'[t] = mem[t]
    BY <1>1, <1>2 DEF IInv
  <1>5. MemOK' /\ MapperTypeOK' /\ CallOK'
    BY <1>1, <1>3 DEF IInv, MapperInv, MemOK, MapperTypeOK, CallOK, Mapping
  <1>6. MapperInv' /\ Space' = Space
    BY <1>1, <1>4, <1>5, TablesKept DEF IInv, MapperInv
  <1> QED BY <1>1, <1>3, <1>6, MmuKept DEF IInv

(* Every step keeps the invariant. *)
LEMMA NextIInv == IInv /\ [Next]_vars => IInv'
  <1> SUFFICES ASSUME IInv, [Next]_vars PROVE IInv'
    OBVIOUS
  <1> USE PageTablesAssumption, MapperAssumption, VirtualMemoryAssumption
  <1>1. ASSUME NEW va \in VAs, NEW access \in AccessTypes, translateVa(access, va)
        PROVE  IInv'
    <2>1. /\ ~Mapping /\ UNCHANGED <<mem, satp, mstatus, currTable, call, mapRes, path>>
          /\ res' = [status |-> "pending", page |-> 0]
          /\ walk' = [pc |-> "walk", priv |-> "USER", access |-> access, va |-> va,
                      i |-> LEVELS - 1, table |-> TABLE_BEGIN]
      BY <1>1 DEF translateVa, translate, ResultIs, RootLevel, IInv, CsrsFixed, mapperVars
    <2>2. MemOK' /\ MapperTypeOK' /\ CallOK'
      BY <2>1 DEF IInv, MapperInv, MemOK, MapperTypeOK, CallOK, Mapping
    <2>3. MapperInv'
      BY <2>1, <2>2, TablesKept DEF IInv, MapperInv
    <2>4. TABLE_BEGIN \in DOMAIN path /\ path[TABLE_BEGIN] = Above(va, LEVELS - 1)
      BY RootPath DEF IInv
    <2>5. MmuTypeOK'
      BY <2>1 DEF MmuTypeOK, Levels
    <2>6. CsrsFixed' /\ WalkOK' /\ TablesProtected' /\ WalksAreClean'
      BY <2>1, <2>4 DEF IInv, CsrsFixed, WalkOK, TablesProtected, WalksAreClean, Mapping
    <2> QED BY <2>1, <2>3, <2>5, <2>6 DEF IInv
  <1>2. ASSUME NEW va \in VAs, NEW flags \in FlagSets, NEW ppn \in MapPPNs,
               HostMaps(flags, va, ppn)
        PROVE  IInv'
    <2>1. /\ walk.pc = "idle" /\ map(flags, va, ppn)
          /\ UNCHANGED <<mem, satp, mstatus, walk, res>>
      BY <1>2 DEF HostMaps, mmuVars, map
    <2>2. MapperInv'
      BY <2>1, MapInv DEF IInv
    <2> QED BY <2>1, <2>2, MmuKept DEF IInv
  <1>3. CASE Walks
    BY <1>3, WalksInv
  <1>4. CASE Maps
    <2>1. MapStep /\ UNCHANGED <<satp, mstatus, walk, res>>
      BY <1>4 DEF Maps, mmuVars
    <2>2. walk.pc = "idle"
      BY <2>1 DEF IInv, WalkOK, MmuTypeOK, MapStep, MapDescend, MapAlreadyMapped,
                  MapNewTable, MapRegionEnd, MapLeaf
    <2>3. MapperInv' /\ DOMAIN mem' = DOMAIN mem
      BY <2>1, MapStepInv, MapStepElsewhere DEF IInv
    <2>4. (mem \in [TableRegion \cup DataPages -> [Slots -> PTEs]])'
      BY <2>3 DEF IInv, MapperInv, MemOK
    <2> QED BY <2>1, <2>2, <2>3, <2>4, MmuKept DEF IInv
  <1>5. ASSUME NEW s \in Slots, NEW word \in GuestWords, GuestStore(s, word)
        PROVE  IInv'
    BY <1>5, GuestStoreInv
  <1>6. CASE UNCHANGED vars
    <2>1. MemOK' /\ MapperTypeOK' /\ CallOK'
      BY <1>6 DEF IInv, MapperInv, vars, MemOK, MapperTypeOK, CallOK, Mapping
    <2>2. MapperInv'
      BY <1>6, <2>1, TablesKept DEF IInv, MapperInv, vars
    <2> QED BY <1>6, <2>2 DEF IInv, vars, MmuTypeOK, CsrsFixed, WalkOK, Mapping,
                              TablesProtected, WalksAreClean
  <1> QED BY <1>1, <1>2, <1>3, <1>4, <1>5, <1>6 DEF Next

(* The invariant holds in every state. *)
LEMMA SpecIInv == Spec => []IInv
  BY InitIInv, NextIInv, PTL DEF Spec

(* Every variable keeps its type, whatever is mapped, translated and       *)
(* stored: in particular the level counters of map() and translate() never *)
(* run below 0 and their tables never leave the table region.              *)
THEOREM TypeCorrect == Spec => []TypeOK
  <1>1. IInv => TypeOK
    BY DEF IInv, TypeOK, MapperInv
  <1> QED BY <1>1, SpecIInv, PTL

(* map() keeps the tables a tree, also when it stops half way for want of  *)
(* room and when it is called again.                                       *)
THEOREM TablesAlwaysTree == Spec => []TablesFormTree
  <1>1. IInv => TablesFormTree
    BY DEF IInv, MapperInv
  <1> QED BY <1>1, SpecIInv, PTL

(* No translation gives the guest a page of the table region.  The tree,   *)
(* and that leaves hold no page of the region, are what it rests on.       *)
THEOREM TablesAlwaysProtected == Spec => []TablesProtected
  <1>1. IInv => TablesProtected
    BY DEF IInv
  <1> QED BY <1>1, SpecIInv, PTL

(* Walks over the mapper's tables never fault on a table and never meet    *)
(* the assertion on the A and D bits, in a debug build either.             *)
THEOREM WalksAlwaysClean == Spec => []WalksAreClean
  <1>1. IInv => WalksAreClean
    BY DEF IInv
  <1> QED BY <1>1, SpecIInv, PTL

-----------------------------------------------------------------------------
(* The refinement of AddressSpace. *)

(* What AddressSpace defines, spelled out. *)
LEMMA AbstractDefs ==
    /\ \A va : Abstract!Canonical(va) = Canonical(va)
    /\ Abstract!NoCall = [op |-> "none"]
  BY DEF Abstract!Canonical, Canonical, Abstract!NoCall

(* A walk ends as the address space says. *)
LEMMA WalkEndRefines ==
    ASSUME IInv, Walks, ~Descend
    PROVE  Abstract!EndTranslate
  <1>1. walk.pc = "walk" /\ UNCHANGED <<mem, satp, mstatus, currTable, call, mapRes, path>>
    BY DEF Walks, WalkStep, TableAccessFault, InvalidPte, NoLeaf, Descend, LeafRefused,
           LeafFound, PteRead, mapperVars
  <1> DEFINE va == Canonical(walk.va)
             fault == [status |-> "MMU64__PAGE_FAULT", page |-> 0]
             usable == /\ {"U", Abstract!Right[walk.access]} \subseteq pte.flags
                       /\ "W" \in pte.flags => "R" \in pte.flags
  <1>2. Asked = [op |-> "translate", va |-> va, access |-> walk.access] /\ ~Mapping
    BY <1>1, WalkReads DEF Asked
  <1>3. Space' = Space
    <2>1. MemOK'
      BY <1>1 DEF IInv, MapperInv, MemOK
    <2> QED BY <1>1, <2>1, TablesKept DEF IInv
  <1>4. Abstract!Right[walk.access] = CASE walk.access = "READ" -> "R"
                                        [] walk.access = "WRITE" -> "W"
                                        [] walk.access = "FETCH" -> "X"
    BY <1>1, WalkReads DEF Abstract!Right, AccessTypes
  <1>5. walk.access \in {"READ", "WRITE", "FETCH"}
    BY <1>1, WalkReads DEF AccessTypes
  <1>6. V(pte) /\ walk.i # 0 => ~BadPte /\ ~Leaf
    <2>1. V(pte) /\ walk.i # 0 => pte.flags = {"V"} /\ pte.rsv = FALSE
      BY <1>1, WalkReads
    <2> QED BY <2>1 DEF BadPte, Leaf
  <1>7. ASSUME V(pte), walk.i = 0
        PROVE  /\ va \in DOMAIN Space /\ Space[va] = SpaceEntry(pte)
               /\ usable <=> Abstract!Usable(Space[va].flags, walk.access)
               /\ pte.rsv = FALSE /\ {"A", "D"} \subseteq pte.flags
    <2>1. /\ va \in DOMAIN Space /\ Space[va] = SpaceEntry(pte)
          /\ pte.rsv = FALSE /\ {"A", "D"} \subseteq pte.flags
      BY <1>1, <1>7, WalkReads
    <2>2. Space[va].flags = pte.flags
      BY <2>1 DEF SpaceEntry
    <2> QED BY <2>1, <2>2 DEF Abstract!Usable
  <1>8. ~V(pte) => va \notin DOMAIN Space
    BY <1>1, WalkReads
  <1>9. Allowed <=> /\ "U" \in pte.flags
                    /\ Abstract!Right[walk.access] \in pte.flags
    BY <1>1, <1>4, <1>5, WalkReads DEF Allowed, checkLeafFlags, IInv, CsrsFixed
  <1>10. /\ walk' = [walk EXCEPT !.pc = "idle"]
         /\ res' = IF va \in DOMAIN Space /\ Abstract!Usable(Space[va].flags, walk.access)
                   THEN [status |-> "OK", page |-> Space[va].ppn]
                   ELSE fault
    <2>1. CASE TableAccessFault
      BY <1>1, <2>1, WalkReads DEF TableAccessFault, PteRead
    <2>2. CASE InvalidPte
      <3>1. res' = fault /\ walk' = [walk EXCEPT !.pc = "idle"] /\ BadPte
        BY <2>2 DEF InvalidPte, PageFault, Ends, ResultIs
      <3>2. V(pte) => walk.i = 0 /\ ~usable
        BY <1>6, <1>7, <3>1 DEF BadPte
      <3> QED BY <1>7, <1>8, <3>1, <3>2
    <2>3. CASE NoLeaf
      <3>1. /\ res' = fault /\ walk' = [walk EXCEPT !.pc = "idle"]
            /\ ~BadPte /\ ~Leaf /\ walk.i = 0
        BY <2>3 DEF NoLeaf, PageFault, Ends, ResultIs
      <3>2. V(pte) /\ ~usable
        BY <1>4, <1>5, <3>1 DEF BadPte, Leaf
      <3> QED BY <1>7, <3>1, <3>2
    <2>4. CASE LeafRefused
      <3>1. /\ res' = fault /\ walk' = [walk EXCEPT !.pc = "idle"]
            /\ ~BadPte /\ Leaf /\ (~Allowed \/ Misaligned)
        BY <2>4 DEF LeafRefused, PageFault, Ends, ResultIs
      <3>2. V(pte) /\ walk.i = 0
        BY <1>6, <3>1 DEF BadPte
      <3>3. ~Allowed
        BY <3>1, <3>2 DEF Misaligned
      <3> QED BY <1>7, <1>9, <3>1, <3>2, <3>3
    <2>5. CASE LeafFound
      <3>1. ~BadPte /\ Leaf /\ Allowed
        BY <2>5 DEF LeafFound
      <3>2. V(pte) /\ walk.i = 0
        BY <1>6, <3>1 DEF BadPte
      <3>3. Ends("OK", pte.ppn)
        BY <1>7, <2>5, <3>2 DEF LeafFound, calcPhysPage
      <3>4. usable
        BY <1>9, <3>1 DEF BadPte
      <3>5. Space[va].ppn = pte.ppn
        BY <1>7, <3>2 DEF SpaceEntry
      <3> QED BY <1>7, <3>2, <3>3, <3>4, <3>5 DEF Ends, ResultIs
    <2> QED BY <2>1, <2>2, <2>3, <2>4, <2>5 DEF Walks, WalkStep
  <1>11. Asked' = [op |-> "none"]
    <2>1. walk'.pc = "idle"
      BY <1>10 DEF IInv, MmuTypeOK
    <2> QED BY <1>1, <1>2, <2>1 DEF Asked, Mapping
  <1>12. /\ Asked.op = "translate" /\ Asked.va = va /\ Asked.access = walk.access
    BY <1>2
  <1> QED BY <1>1, <1>3, <1>10, <1>11, <1>12, AbstractDefs DEF Abstract!EndTranslate

(* map() ends as the address space allows, or goes on unseen. *)
LEMMA MapsRefines ==
    ASSUME IInv, Maps
    PROVE  Abstract!EndMap \/ UNCHANGED Abstract!vars
  <1>1. /\ MapStep /\ Mapping /\ MapperInv
        /\ UNCHANGED <<satp, mstatus, walk, res>>
    BY DEF Maps, mmuVars, IInv, MapStep, MapDescend, MapAlreadyMapped, MapNewTable,
           MapRegionEnd, MapLeaf
  <1>2. walk.pc # "walk"
    BY <1>1 DEF IInv, WalkOK
  <1> DEFINE va == Canonical(call.vpn)
  <1>3. Asked = [op |-> "map", va |-> va, ppn |-> call.ppn, flags |-> call.flags]
    BY <1>1, <1>2 DEF Asked
  <1>4. /\ Asked.op = "map" /\ Asked.va = va
        /\ Asked.ppn = call.ppn /\ Asked.flags = call.flags
    BY <1>3
  <1>5. call \in [pc : {"idle", "map"}, vpn : VirtPages, ppn : Nat,
                  flags : SUBSET PTEFlags, i : 0 .. LEVELS - 1, table : TableRegion]
    BY <1>1 DEF MapperInv, MapperTypeOK
  <1>6. ASSUME call' = IdleCall PROVE Asked' = Abstract!NoCall
    BY <1>1, <1>2, <1>6 DEF Asked, Mapping, IdleCall, Abstract!NoCall
  <1>7. CASE MapDescend \/ MapNewTable
    <2>1. Space' = Space
      BY <1>1, <1>7, MapDescendInv, MapNewTableInv
    <2>2. /\ call'.pc = call.pc /\ call'.vpn = call.vpn
          /\ call'.ppn = call.ppn /\ call'.flags = call.flags
      BY <1>5, <1>7 DEF MapDescend, MapNewTable
    <2>3. Asked' = Asked
      BY <1>1, <1>2, <1>3, <2>2 DEF Asked, Mapping, Canonical
    <2>4. mapRes' = mapRes
      BY <1>7 DEF MapDescend, MapNewTable
    <2> QED BY <1>1, <2>1, <2>3, <2>4 DEF Abstract!vars
  <1>8. CASE MapAlreadyMapped
    <2>1. Space' = Space
      BY <1>1, <1>8, MapErrorInv
    <2>2. va \in DOMAIN Space
      BY <1>1, <1>8, CallAt, WalkAt DEF MapAlreadyMapped
    <2>3. mapRes' = "MAPPER__ALREADY_MAPPED" /\ call' = IdleCall
      BY <1>8 DEF MapAlreadyMapped, Returned
    <2> QED BY <1>1, <1>4, <1>6, <2>1, <2>2, <2>3 DEF Abstract!EndMap
  <1>9. CASE MapRegionEnd
    <2>1. Space' = Space
      BY <1>1, <1>9, MapErrorInv
    <2>2. va \notin DOMAIN Space
      BY <1>1, <1>9, CallAt, WalkAt DEF MapRegionEnd
    <2>3. mapRes' = "MAPPER__TABLE_REGION_END" /\ call' = IdleCall
      BY <1>9 DEF MapRegionEnd, Returned
    <2> QED BY <1>1, <1>4, <1>6, <2>1, <2>2, <2>3 DEF Abstract!EndMap
  <1>10. CASE MapLeaf
    <2>1. /\ va \notin DOMAIN Space
          /\ Space' = [v \in DOMAIN Space \cup {va} |->
                           IF v = va THEN [ppn |-> call.ppn, flags |-> call.flags]
                           ELSE Space[v]]
      BY <1>1, <1>10, MapLeafInv
    <2>2. mapRes' = "OK" /\ call' = IdleCall
      BY <1>10 DEF MapLeaf, Returned
    <2> QED BY <1>1, <1>4, <1>6, <2>1, <2>2 DEF Abstract!EndMap
  <1> QED BY <1>1, <1>7, <1>8, <1>9, <1>10 DEF MapStep

(* Every step is a step of the address space or invisible to it. *)
LEMMA NextRefines == IInv /\ [Next]_vars => [Abstract!Next]_(Abstract!vars)
  <1> SUFFICES ASSUME IInv, [Next]_vars PROVE [Abstract!Next]_(Abstract!vars)
    OBVIOUS
  <1> USE PageTablesAssumption, MapperAssumption, VirtualMemoryAssumption
  <1>1. ASSUME NEW va \in VAs, NEW access \in AccessTypes, translateVa(access, va)
        PROVE  Abstract!CallTranslate(access, va)
    <2>1. /\ ~Mapping /\ UNCHANGED <<mem, satp, mstatus, currTable, call, mapRes, path>>
          /\ walk.pc = "idle"
          /\ res' = [status |-> "pending", page |-> 0]
          /\ walk' = [pc |-> "walk", priv |-> "USER", access |-> access, va |-> va,
                      i |-> LEVELS - 1, table |-> TABLE_BEGIN]
      BY <1>1 DEF translateVa, translate, ResultIs, RootLevel, IInv, CsrsFixed, mapperVars
    <2>2. Space' = Space
      <3>1. MemOK'
        BY <2>1 DEF IInv, MapperInv, MemOK
      <3> QED BY <2>1, <3>1, TablesKept DEF IInv
    <2>3. Asked = Abstract!NoCall
      BY <2>1 DEF Asked, Abstract!NoCall
    <2>4. Asked' = [op |-> "translate", va |-> Canonical(va), access |-> access]
      BY <2>1 DEF Asked, Mapping, Canonical
    <2> QED BY <2>1, <2>2, <2>3, <2>4, AbstractDefs DEF Abstract!CallTranslate
  <1>2. ASSUME NEW va \in VAs, NEW flags \in FlagSets, NEW ppn \in MapPPNs,
               HostMaps(flags, va, ppn)
        PROVE  Abstract!CallMap(flags, va, ppn)
    <2>1. /\ walk.pc = "idle" /\ call.pc = "idle" /\ map(flags, va, ppn)
          /\ UNCHANGED <<satp, mstatus, walk, res>>
      BY <1>2 DEF HostMaps, mmuVars, map
    <2>2. Space' = Space
      BY <2>1, MapInv DEF IInv
    <2>3. Asked = Abstract!NoCall
      BY <2>1 DEF Asked, Mapping, Abstract!NoCall
    <2>4. ppn \in TableRegion <=> InTableRegion(ppn)
      BY DEF InTableRegion, TableRegion
    <2>5. CASE InTableRegion(ppn)
      <3>1. mapRes' = "MAPPER__TABLE_REGION_PAGE_MAPPED" /\ call' = call
        BY <2>1, <2>5 DEF map
      <3>2. Asked' = Asked
        BY <2>1, <3>1 DEF Asked, Mapping
      <3> QED BY <2>1, <2>2, <2>3, <2>4, <2>5, <3>1, <3>2 DEF Abstract!CallMap
    <2>6. CASE ~InTableRegion(ppn)
      <3>1. /\ mapRes' = "pending"
            /\ call' = [pc |-> "map", vpn |-> va, ppn |-> ppn,
                        flags |-> flags \cup DEFAULT_FLAGS,
                        i |-> LEVELS - 1, table |-> TABLE_BEGIN]
        BY <2>1, <2>6 DEF map
      <3>2. Asked' = [op |-> "map", va |-> Canonical(va), ppn |-> ppn,
                      flags |-> flags \cup {"V", "A", "D"}]
        BY <2>1, <3>1 DEF Asked, Mapping, Canonical, DEFAULT_FLAGS
      <3> QED BY <2>1, <2>2, <2>3, <2>4, <2>6, <3>1, <3>2, AbstractDefs
              DEF Abstract!CallMap
    <2> QED BY <2>5, <2>6
  <1>3. CASE Walks
    <2>1. CASE ~Descend
      BY <1>3, <2>1, WalkEndRefines DEF Abstract!Next
    <2>2. CASE Descend
      <3>1. /\ UNCHANGED <<mem, satp, mstatus, currTable, call, mapRes, path, res>>
            /\ walk.pc = "walk" /\ walk' = [walk EXCEPT !.i = walk.i - 1, !.table = pte.ppn]
        BY <1>3, <2>2 DEF Walks, Descend, PteRead, mapperVars
      <3>2. walk'.pc = walk.pc /\ walk'.va = walk.va /\ walk'.access = walk.access
        BY <3>1 DEF IInv, MmuTypeOK
      <3>3. Asked' = Asked
        BY <3>1, <3>2 DEF Asked, Mapping, Canonical
      <3>4. Space' = Space
        <4>1. MemOK'
          BY <3>1 DEF IInv, MapperInv, MemOK
        <4> QED BY <3>1, <4>1, TablesKept DEF IInv
      <3> QED BY <3>1, <3>3, <3>4 DEF Abstract!vars
    <2> QED BY <2>1, <2>2
  <1>4. CASE Maps
    BY <1>4, MapsRefines DEF Abstract!Next
  <1>5. ASSUME NEW s \in Slots, NEW word \in GuestWords, GuestStore(s, word)
        PROVE  UNCHANGED Abstract!vars
    <2>1. Space' = Space
      BY <1>5, GuestStoreInv
    <2> QED BY <1>5, <2>1 DEF GuestStore, mapperVars, Abstract!vars, Asked, Mapping
  <1>6. CASE UNCHANGED vars
    <2>1. MemOK'
      BY <1>6 DEF IInv, MapperInv, MemOK, vars
    <2>2. Space' = Space
      BY <1>6, <2>1, TablesKept DEF IInv, vars
    <2> QED BY <1>6, <2>2 DEF vars, Abstract!vars, Asked, Mapping
  <1>7. ASSUME NEW va \in VAs, NEW access \in AccessTypes, translateVa(access, va)
        PROVE  Abstract!Next
    BY <1>1, <1>7 DEF Abstract!Next
  <1>8. ASSUME NEW va \in VAs, NEW flags \in FlagSets, NEW ppn \in MapPPNs,
               HostMaps(flags, va, ppn)
        PROVE  Abstract!Next
    BY <1>2, <1>8 DEF Abstract!Next
  <1> QED BY <1>3, <1>4, <1>5, <1>6, <1>7, <1>8 DEF Next

(* It begins as an empty address space. *)
LEMMA InitRefines == Init => Abstract!Init
  <1> SUFFICES ASSUME Init PROVE Abstract!Init
    OBVIOUS
  <1>1. Space = [v \in {} |-> 0]
    BY InitIInv
  <1>2. Asked = Abstract!NoCall
    BY DEF Init, MmuInit, MapperInit, IdleWalk, IdleCall, Asked, Mapping, Abstract!NoCall
  <1> QED BY <1>1, <1>2 DEF Init, MmuInit, MapperInit, Abstract!Init

(* Mapper, page tables, walk and guest stores implement the address space: *)
(* a map() call adds its one translation or none, translations obey it     *)
(* exactly, and no store of the guest changes it.                          *)
THEOREM IsAlwaysAddressSpace == Spec => IsAddressSpace
  BY InitRefines, NextRefines, SpecIInv, PTL DEF Spec, IsAddressSpace, Abstract!Spec
=============================================================================
