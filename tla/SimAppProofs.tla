---------------------------- MODULE SimAppProofs ----------------------------
(***************************************************************************)
(* The loader and main(), for any files, stack, page size and table        *)
(* region, as long as page numbers fit a PTE: frames stay private,         *)
(* m_mapping agrees with the page tables, what a call loaded stays in      *)
(* memory to the byte, and the guest's translations reach it.              *)
(***************************************************************************)
EXTENDS SimApp, SimpleMemoryMapperProofs, ArithmeticProofs, SequenceTheorems

(* The pages handed out so far fit a PTE's page number (2 ^ 44 pages). *)
FramesLeft == nextPpn <= PPN_SIZE

(* What the tables know a virtual page by. *)
Canon(v) == Canonical(VpnFields(v))

LoaderTypes ==
    /\ mem \in [TableRegion -> [Slots -> PTEs]]
    /\ nextPpn \in Nat /\ TABLE_END <= nextPpn
    /\ data \in [TABLE_END .. nextPpn - 1 -> [Offsets -> Nat]]
    /\ DOMAIN mapping \subseteq Nat /\ mapping \in [DOMAIN mapping -> DOMAIN data]
    /\ mapped \subseteq DOMAIN mapping
    /\ ld \in [pc : {"idle", "stack", "segment", "pages", "bytes", "aborted"},
               elf : ElfFiles, seg : Nat \ {0}, at : Nat, asked : BOOLEAN]

(* map() runs for the page that mapPage() was asked for, with the frame    *)
(* taken last.                                                             *)
CallMatches ==
    /\ Mapping => /\ ld.asked /\ mapRes = "pending"
                  /\ call.vpn = VpnFields(ld.at) /\ call.ppn = nextPpn - 1
                  /\ {"U", "R", "W", "X"} \subseteq call.flags
    /\ ld.asked => ld.pc \in {"stack", "pages"} /\ ld.at \in DOMAIN mapping

SpacePrivate ==
    /\ \A u, v \in DOMAIN Space : Space[u].ppn = Space[v].ppn => u = v
    /\ \A v \in DOMAIN Space :
        Space[v].ppn \in DOMAIN data /\ {"U", "R", "W", "X"} \subseteq Space[v].flags
    /\ ld.asked /\ Mapping => \A v \in DOMAIN Space : Space[v].ppn # nextPpn - 1

(* A page that mapPage() was asked for once is mapped, or never will be:   *)
(* no table leads to it and there is room for none.                        *)
Stuck(c) == currTable = TABLE_END /\ \A t \in DOMAIN path : path[t] # Above(c, 0)
Settled(v) == Canon(v) \in DOMAIN Space \/ Stuck(Canon(v))

MappingOK ==
    /\ MappingAgrees
    /\ \A v \in DOMAIN mapping :
        Settled(v) \/ (Mapping /\ v = ld.at /\ mapping[v] = nextPpn - 1)
    /\ ld.asked /\ ~Mapping /\ mapRes = "OK" =>
        /\ Canon(ld.at) \in DOMAIN Space
        /\ mapping[ld.at] = nextPpn - 1 /\ Space[Canon(ld.at)].ppn = nextPpn - 1

(* Pages and bytes are a segment's. *)
SegmentAt == ld.pc \in {"pages", "bytes"} => ld.seg <= Len(Segs) /\ Seg.load

LoaderInv ==
    /\ LoaderTypes /\ MapperInv /\ CallMatches /\ SpacePrivate /\ MappingOK /\ SegmentAt

-----------------------------------------------------------------------------
(* Pages, and what map() does to them. *)

(* VPN fields are slots (getVPN). *)
LEMMA FieldsType ==
    ASSUME NEW v \in Nat
    PROVE  VpnFields(v) \in VirtPages
  <1> SUFFICES ASSUME NEW j \in 0 .. FIELDS - 1
               PROVE  (v \div SuperPage(j)) % VPN_SIZE \in Slots
    BY DEF VpnFields, VirtPages
  <1>1. VPN_BIT_STEP * j \in Nat
    BY PageTablesAssumption
  <1>2. PICK n \in Nat : n = SuperPage(j) /\ n > 0
    BY <1>1, PowerType DEF SuperPage
  <1>3. v \div n \in Int
    BY <1>2, DivMod
  <1>4. (v \div n) % VPN_SIZE \in 0 .. VPN_SIZE - 1
    BY <1>3, DivMod, PowerType, PageTablesAssumption DEF VPN_SIZE
  <1> QED BY <1>2, <1>4 DEF Slots

(* Where map() gave up for want of a table, it always will. *)
LEMMA RegionEndStuck ==
    ASSUME MapperInv, MapRegionEnd
    PROVE  Stuck(Canonical(call.vpn))
  <1> USE PageTablesAssumption
  <1> DEFINE va == call.vpn
             l  == call.i
             t  == call.table
  <1>1. Mapping /\ ~V(mapPte) /\ l # 0 /\ currTable = TABLE_END
    BY DEF MapRegionEnd, RegionEnd
  <1>2. /\ va \in VirtPages /\ l \in 0 .. LEVELS - 1 /\ t \in DOMAIN path
        /\ path[t] = Above(va, l) /\ mapPte = mem[t][va[l]]
    BY <1>1, CallAt
  <1> HIDE DEF va, l, t
  <1>3. va[l] \in Slots /\ LevelOf(t) = l
    BY <1>2, WalkAt
  <1>4. Child(t, va[l]) = [j \in l .. LEVELS - 1 |-> va[j]]
    BY <1>2, <1>3, ChildOfAbove DEF MapperInv
  <1>5. ASSUME NEW u \in DOMAIN path, path[u] = Above(Canonical(va), 0) PROVE FALSE
    <2>1. DOMAIN path[u] = 0 + 1 .. LEVELS - 1 /\ \A j \in 1 .. LEVELS - 1 : path[u][j] = va[j]
      BY <1>5 DEF Above, Canonical
    <2>2. LevelOf(u) = 0
      BY <2>1, LevelOfFields DEF LevelOf
    <2>3. l - 1 \in LevelOf(u) .. LEVELS - 1
      BY <1>1, <1>2, <2>2 DEF l
    <2>4. PICK w \in DOMAIN path : path[w] = Above(path[u], l - 1)
      BY <2>3 DEF MapperInv, PrefixClosed
    <2>5. path[w] = Child(t, va[l])
      BY <1>1, <1>2, <1>4, <2>1, <2>4 DEF Above, l
    <2> QED BY <1>1, <1>2, <1>3, <2>5 DEF MapperInv, TablesFormTree, l
  <1> QED BY <1>1, <1>5 DEF Stuck, va

(* No step of map() changes that, and it maps no such page. *)
LEMMA StuckStays ==
    ASSUME MapperInv, MapStep, NEW c, Stuck(c)
    PROVE  Stuck(c)'
  <1>1. ~MapNewTable
    BY DEF MapNewTable, RegionEnd, Stuck
  <1>2. UNCHANGED <<currTable, path>>
    BY <1>1 DEF MapStep, MapDescend, MapAlreadyMapped, MapRegionEnd, MapLeaf
  <1> QED BY <1>2 DEF Stuck, Above

(* A page that gets its leaf was led to by tables. *)
LEMMA LeafNotStuck ==
    ASSUME MapperInv, MapLeaf
    PROVE  ~Stuck(Canonical(call.vpn))
  <1>1. Mapping /\ call.i = 0
    BY DEF MapLeaf
  <1>2. call.table \in DOMAIN path /\ path[call.table] = Above(call.vpn, 0)
    BY <1>1, CallAt
  <1>3. Above(call.vpn, 0) = Above(Canonical(call.vpn), 0)
    BY PageTablesAssumption DEF Above, Canonical
  <1> QED BY <1>2, <1>3 DEF Stuck

(* A page that is mapped already stays so. *)
LEMMA AlreadyMapped ==
    ASSUME MapperInv, MapAlreadyMapped
    PROVE  Canonical(call.vpn) \in DOMAIN Space
  <1>1. Mapping /\ call.i = 0 /\ V(mapPte)
    BY DEF MapAlreadyMapped
  <1> QED BY <1>1, CallAt, WalkAt

(* What an iteration of map() does, for its caller. *)
LEMMA MapStepEffect ==
    ASSUME MapperInv, MapStep
    PROVE  /\ MapperInv' /\ Mapping
           /\ \/ /\ Mapping' /\ Space' = Space /\ mapRes' = mapRes
                 /\ call'.vpn = call.vpn /\ call'.ppn = call.ppn /\ call'.flags = call.flags
              \/ /\ ~Mapping' /\ Space' = Space /\ mapRes' # "OK"
                 /\ Canonical(call.vpn) \in DOMAIN Space \/ Stuck(Canonical(call.vpn))
              \/ /\ ~Mapping' /\ mapRes' = "OK"
                 /\ Canonical(call.vpn) \notin DOMAIN Space /\ ~Stuck(Canonical(call.vpn))
                 /\ Space' = [v \in DOMAIN Space \cup {Canonical(call.vpn)} |->
                                 IF v = Canonical(call.vpn)
                                 THEN [ppn |-> call.ppn, flags |-> call.flags]
                                 ELSE Space[v]]
  <1>1. MapperInv'
    BY MapStepInv
  <1>2. Mapping
    BY DEF MapStep, MapDescend, MapAlreadyMapped, MapNewTable, MapRegionEnd, MapLeaf
  <1>3. call \in [pc : {"idle", "map"}, vpn : VirtPages, ppn : Nat,
                 flags : SUBSET PTEFlags, i : 0 .. LEVELS - 1, table : TableRegion]
    BY DEF MapperInv, MapperTypeOK
  <1>4. CASE MapDescend \/ MapNewTable
    <2>1. Space' = Space
      BY <1>4, MapDescendInv, MapNewTableInv
    <2>2. /\ mapRes' = mapRes /\ call'.vpn = call.vpn /\ call'.ppn = call.ppn
          /\ call'.flags = call.flags /\ Mapping'
      BY <1>2, <1>3, <1>4 DEF MapDescend, MapNewTable, Mapping
    <2> QED BY <1>1, <1>2, <2>1, <2>2
  <1>5. CASE MapAlreadyMapped \/ MapRegionEnd
    <2>1. Space' = Space
      BY <1>5, MapErrorInv
    <2>2. ~Mapping' /\ mapRes' # "OK"
      BY <1>5 DEF MapAlreadyMapped, MapRegionEnd, Returned, IdleCall, Mapping
    <2> QED BY <1>1, <1>2, <1>5, <2>1, <2>2, AlreadyMapped, RegionEndStuck
  <1>6. CASE MapLeaf
    <2>1. ~Mapping' /\ mapRes' = "OK"
      BY <1>6 DEF MapLeaf, Returned, IdleCall, Mapping
    <2> QED BY <1>1, <1>2, <1>6, <2>1, MapLeafInv, LeafNotStuck
  <1> QED BY <1>4, <1>5, <1>6 DEF MapStep

-----------------------------------------------------------------------------
(* The loader's steps. *)
LdTypes == [pc : {"idle", "stack", "segment", "pages", "bytes", "aborted"},
            elf : ElfFiles, seg : Nat \ {0}, at : Nat, asked : BOOLEAN]

(* A step that leaves tables and mapper alone. *)
LEMMA MapperKept ==
    ASSUME MapperInv, UNCHANGED <<mem, mapperVars>>
    PROVE  /\ MapperInv' /\ Space' = Space /\ (Mapping' <=> Mapping)
           /\ \A c : Stuck(c) => Stuck(c)'
  <1>1. UNCHANGED <<mem, currTable, call, mapRes, path>>
    BY DEF mapperVars
  <1>2. MemOK' /\ MapperTypeOK' /\ CallOK'
    BY <1>1 DEF MapperInv, MemOK, MapperTypeOK, CallOK, Mapping
  <1>3. TablesFormTree' /\ PathsOK' /\ PrefixClosed' /\ UnusedEmpty' /\ EntriesOK' /\ Space' = Space
    BY <1>1, <1>2, TablesKept
  <1>4. \A c : Stuck(c) => Stuck(c)'
    BY <1>1 DEF Stuck, Above
  <1> QED BY <1>1, <1>2, <1>3, <1>4 DEF MapperInv, Mapping

(* The loader between two calls of map(): it moves its cursors, copies     *)
(* bytes, takes note of a page that map() has mapped.                      *)
LEMMA QuietInv ==
    ASSUME LoaderInv, ~Mapping, UNCHANGED <<mem, mapperVars, nextPpn, mapping>>,
           data' \in [DOMAIN data -> [Offsets -> Nat]], ld' \in LdTypes, ~ld'.asked,
           SegmentAt',
           mapped' \subseteq DOMAIN mapping,
           \A v \in mapped' \ mapped :
               Canon(v) \in DOMAIN Space /\ Space[Canon(v)].ppn = mapping[v]
    PROVE  LoaderInv'
  <1>1. MapperInv' /\ Space' = Space /\ ~Mapping' /\ (\A c : Stuck(c) => Stuck(c)')
    BY MapperKept DEF LoaderInv
  <1>2. DOMAIN data' = DOMAIN data
    OBVIOUS
  <1>3. LoaderTypes'
    BY <1>2 DEF LoaderInv, LoaderTypes, LdTypes
  <1>4. CallMatches' /\ SpacePrivate'
    BY <1>1, <1>2 DEF LoaderInv, CallMatches, SpacePrivate
  <1>5. MappingAgrees'
    BY <1>1 DEF LoaderInv, MappingOK, MappingAgrees, Canon
  <1>6. MappingOK'
    <2>1. \A v \in DOMAIN mapping : Settled(v)
      BY DEF LoaderInv, MappingOK
    <2>2. \A v \in DOMAIN mapping : Settled(v)'
      BY <1>1, <2>1 DEF Settled
    <2> QED BY <1>1, <1>5, <2>2 DEF MappingOK
  <1> QED BY <1>1, <1>3, <1>4, <1>6 DEF LoaderInv

(* mapPage(): a frame is taken, noted, and map() called for it. *)
LEMMA MapPageInv ==
    ASSUME LoaderInv, ld.pc \in {"stack", "pages"}, mapPage(ld.at), nextPpn + 1 <= PPN_SIZE
    PROVE  LoaderInv'
  <1> USE PageTablesAssumption, MapperAssumption
  <1>1. /\ ~ld.asked /\ ld' = [ld EXCEPT !.asked = TRUE] /\ nextPpn' = nextPpn + 1
        /\ data' = [p \in DOMAIN data \cup {nextPpn} |->
                       IF p \in DOMAIN data THEN data[p] ELSE ZeroPage]
        /\ mapping' = [v \in DOMAIN mapping \cup {ld.at} |->
                          IF v \in DOMAIN mapping THEN mapping[v] ELSE nextPpn]
        /\ map({"U", "R", "W", "X"}, VpnFields(ld.at), nextPpn)
        /\ UNCHANGED mapped
    BY DEF mapPage, FrameAfter, Insert
  <1>2. LoaderTypes /\ MapperInv /\ SpacePrivate /\ MappingOK /\ ~Mapping
    BY <1>1 DEF LoaderInv, CallMatches
  <1>3. ld \in LdTypes /\ nextPpn \in Nat /\ TABLE_END <= nextPpn
    BY <1>2 DEF LoaderTypes, LdTypes
  <1>4. ld.at \in Nat /\ VpnFields(ld.at) \in VirtPages
    BY <1>3, FieldsType DEF LdTypes
  <1>5. MapperInv' /\ Space' = Space
    <2>1. {"U", "R", "W", "X"} \in SUBSET PTEFlags
      BY DEF PTEFlags
    <2>2. nextPpn \in 0 .. PPN_SIZE - 1
      BY <1>3
    <2> QED BY <1>1, <1>2, <1>4, <2>1, <2>2, MapInv
  <1>6. /\ mapRes' = "pending" /\ UNCHANGED <<mem, currTable, path>>
        /\ call' = [pc |-> "map", vpn |-> VpnFields(ld.at), ppn |-> nextPpn,
                    flags |-> {"U", "R", "W", "X"} \cup DEFAULT_FLAGS,
                    i |-> LEVELS - 1, table |-> TABLE_BEGIN]
    BY <1>1, <1>3 DEF map, InTableRegion
  <1>7. DOMAIN data = TABLE_END .. nextPpn - 1 /\ DOMAIN data' = TABLE_END .. nextPpn' - 1
    <2>1. DOMAIN data = TABLE_END .. nextPpn - 1
      BY <1>2 DEF LoaderTypes
    <2>2. DOMAIN data' = (TABLE_END .. nextPpn - 1) \cup {nextPpn}
      BY <1>1, <2>1
    <2>3. PICK n \in Nat : n = nextPpn /\ TABLE_END <= n
      BY <1>3
    <2>4. (TABLE_END .. n - 1) \cup {n} = TABLE_END .. n
      BY <2>3
    <2>5. nextPpn' - 1 = n
      BY <1>1, <2>3
    <2>6. DOMAIN data' = TABLE_END .. n
      BY <2>2, <2>3, <2>4
    <2> QED BY <2>1, <2>5, <2>6
  <1>8. LoaderTypes'
    <2>1. ZeroPage \in [Offsets -> Nat]
      BY DEF ZeroPage
    <2>2. \A p \in DOMAIN data' : data'[p] \in [Offsets -> Nat]
      BY <1>1, <1>2, <2>1 DEF LoaderTypes
    <2>3. data' \in [TABLE_END .. nextPpn' - 1 -> [Offsets -> Nat]]
      BY <1>1, <1>7, <2>2
    <2>4. nextPpn \in DOMAIN data' /\ DOMAIN data \subseteq DOMAIN data'
      BY <1>1
    <2>5. DOMAIN mapping' \subseteq Nat /\ mapping' \in [DOMAIN mapping' -> DOMAIN data']
      BY <1>1, <1>2, <1>4, <2>4 DEF LoaderTypes
    <2>6. ld' \in LdTypes
      BY <1>1, <1>3 DEF LdTypes
    <2>7. mapped' \subseteq DOMAIN mapping'
      BY <1>1, <1>2 DEF LoaderTypes
    <2>8. mem' \in [TableRegion -> [Slots -> PTEs]]
      BY <1>2, <1>6 DEF LoaderTypes
    <2>9. nextPpn' \in Nat /\ TABLE_END <= nextPpn'
      BY <1>1, <1>3
    <2> QED BY <2>3, <2>5, <2>6, <2>7, <2>8, <2>9 DEF LoaderTypes, LdTypes
  <1>9. Mapping' /\ ld'.asked /\ ld'.at = ld.at /\ ld'.pc = ld.pc /\ nextPpn' - 1 = nextPpn
    BY <1>1, <1>3, <1>6 DEF Mapping, LdTypes
  <1>10. CallMatches'
    BY <1>1, <1>6, <1>9 DEF CallMatches
  <1>11. SpacePrivate'
    <2>1. nextPpn \notin DOMAIN data /\ DOMAIN data \subseteq DOMAIN data'
      BY <1>1, <1>3, <1>7
    <2> QED BY <1>2, <1>5, <1>9, <2>1 DEF SpacePrivate
  <1>12. MappingOK'
    <2>1. \A v \in DOMAIN mapping : Settled(v) /\ mapping'[v] = mapping[v]
      BY <1>1, <1>2 DEF MappingOK
    <2>2. MappingAgrees'
      BY <1>1, <1>2, <1>5, <2>1 DEF MappingOK, MappingAgrees, LoaderTypes
    <2>3. \A v \in DOMAIN mapping : Settled(v)'
      BY <1>5, <1>6, <2>1 DEF Settled, Stuck, Above
    <2>4. ASSUME NEW v \in DOMAIN mapping'
          PROVE  Settled(v)' \/ (Mapping' /\ v = ld'.at /\ mapping'[v] = nextPpn' - 1)
      BY <1>1, <1>9, <2>3
    <2> QED BY <1>9, <2>2, <2>4 DEF MappingOK
  <1>13. SegmentAt'
    BY <1>1, <1>3 DEF LoaderInv, SegmentAt, Segs, Seg, LdTypes
  <1> QED BY <1>5, <1>8, <1>10, <1>11, <1>12, <1>13 DEF LoaderInv

(* map() runs. *)
LEMMA MapRunsInv ==
    ASSUME LoaderInv, MapRuns
    PROVE  LoaderInv'
  <1>1. /\ ld.asked /\ MapStep
        /\ UNCHANGED <<data, nextPpn, mapping, ld, ldRes, calls, mapped, loaded>>
    BY DEF MapRuns, loaderVars
  <1>2. LoaderTypes /\ MapperInv /\ CallMatches /\ SpacePrivate /\ MappingOK /\ SegmentAt'
    BY <1>1 DEF LoaderInv, SegmentAt, Segs, Seg
  <1>3. MapperInv' /\ Mapping
    BY <1>1, <1>2, MapStepEffect
  <1>4. LoaderTypes'
    <2>1. mem' \in [TableRegion -> [Slots -> PTEs]]
      BY <1>1, <1>2, <1>3, MapStepElsewhere DEF LoaderTypes, MapperInv, MemOK
    <2> QED BY <1>1, <1>2, <2>1 DEF LoaderTypes
  <1>5. PICK c : c = Canonical(call.vpn) /\ c = Canon(ld.at)
    BY <1>2, <1>3 DEF CallMatches, Canon
  <1>6. call.ppn = nextPpn - 1 /\ {"U", "R", "W", "X"} \subseteq call.flags
        /\ mapRes = "pending" /\ ld.at \in DOMAIN mapping
    BY <1>1, <1>2, <1>3 DEF CallMatches
  <1>7. \A d : Stuck(d) => Stuck(d)'
    BY <1>1, <1>2, StuckStays
  <1>8. CASE /\ Mapping' /\ Space' = Space /\ mapRes' = mapRes
             /\ call'.vpn = call.vpn /\ call'.ppn = call.ppn /\ call'.flags = call.flags
    <2>1. CallMatches' /\ SpacePrivate'
      BY <1>1, <1>2, <1>3, <1>8 DEF CallMatches, SpacePrivate
    <2>2. MappingAgrees'
      BY <1>1, <1>2, <1>8 DEF MappingOK, MappingAgrees
    <2>3. \A v : Settled(v) => Settled(v)'
      BY <1>7, <1>8 DEF Settled
    <2>4. MappingOK'
      BY <1>1, <1>2, <1>8, <2>2, <2>3 DEF MappingOK
    <2> QED BY <1>2, <1>3, <1>4, <2>1, <2>4 DEF LoaderInv
  <1>9. CASE /\ ~Mapping' /\ Space' = Space /\ mapRes' # "OK"
             /\ c \in DOMAIN Space \/ Stuck(c)
    <2>1. CallMatches' /\ SpacePrivate'
      BY <1>1, <1>2, <1>9 DEF CallMatches, SpacePrivate
    <2>2. MappingAgrees'
      BY <1>1, <1>2, <1>9 DEF MappingOK, MappingAgrees
    <2>3. \A v : Settled(v) => Settled(v)'
      BY <1>7, <1>9 DEF Settled
    <2>4. Settled(ld.at)
      BY <1>5, <1>9 DEF Settled
    <2>5. \A v \in DOMAIN mapping : Settled(v)
      BY <1>2, <2>4 DEF MappingOK
    <2>6. MappingOK'
      BY <1>1, <1>9, <2>2, <2>3, <2>5 DEF MappingOK
    <2> QED BY <1>2, <1>3, <1>4, <2>1, <2>6 DEF LoaderInv
  <1>10. CASE /\ ~Mapping' /\ mapRes' = "OK" /\ c \notin DOMAIN Space /\ ~Stuck(c)
              /\ Space' = [v \in DOMAIN Space \cup {c} |->
                              IF v = c THEN [ppn |-> call.ppn, flags |-> call.flags]
                              ELSE Space[v]]
    <2>1. /\ DOMAIN Space' = DOMAIN Space \cup {c}
          /\ Space'[c].ppn = nextPpn - 1 /\ {"U", "R", "W", "X"} \subseteq Space'[c].flags
          /\ \A v \in DOMAIN Space : Space'[v] = Space[v]
      BY <1>6, <1>10
    <2>2. mapping[ld.at] = nextPpn - 1
      BY <1>2, <1>5, <1>6, <1>10 DEF MappingOK, Settled
    <2>3. nextPpn - 1 \in DOMAIN data
      BY <1>2, <1>6, <2>2 DEF LoaderTypes
    <2>4. CallMatches'
      BY <1>1, <1>2, <1>10 DEF CallMatches
    <2>5. SpacePrivate'
      <3>1. \A v \in DOMAIN Space : Space[v].ppn # nextPpn - 1
        BY <1>1, <1>2, <1>3 DEF SpacePrivate
      <3> QED BY <1>1, <1>2, <1>10, <2>1, <2>3, <3>1 DEF SpacePrivate
    <2>6. MappingAgrees'
      BY <1>1, <1>2, <2>1 DEF MappingOK, MappingAgrees
    <2>7. \A v : Settled(v) => Settled(v)'
      BY <1>7, <2>1 DEF Settled
    <2>8. Settled(ld.at)'
      BY <1>1, <1>5, <2>1 DEF Settled
    <2>9. MappingOK'
      <3>1. \A v \in DOMAIN mapping : Settled(v)'
        BY <1>1, <1>2, <2>7, <2>8 DEF MappingOK
      <3>2. Canon(ld.at)' = c
        BY <1>1, <1>5
      <3> QED BY <1>1, <1>10, <2>1, <2>2, <2>6, <3>1, <3>2 DEF MappingOK
    <2> QED BY <1>2, <1>3, <1>4, <2>4, <2>5, <2>9 DEF LoaderInv
  <1> QED BY <1>1, <1>2, <1>5, <1>8, <1>9, <1>10, MapStepEffect

(* What libelf hands over is typed, and so is the segment at hand. *)
LEMMA SegTypes ==
    ASSUME LoaderInv
    PROVE  /\ Idle \in LdTypes /\ ld \in LdTypes /\ Segs \in Seq(ProgramHeaders)
           /\ Len(Segs) \in Nat
           /\ \A i \in 1 .. Len(Segs) : Segs[i] \in ProgramHeaders
           /\ ld.seg <= Len(Segs) => Seg \in ProgramHeaders
  <1>1. <<>> \in Seq(ProgramHeaders)
    OBVIOUS
  <1>2. Idle \in LdTypes
    BY <1>1 DEF Idle, NoFile, LdTypes, ElfFiles
  <1>3. ld \in LdTypes
    BY DEF LoaderInv, LoaderTypes, LdTypes
  <1>4. Segs \in Seq(ProgramHeaders)
    BY <1>1, <1>3 DEF Segs, LdTypes, ElfFiles
  <1>5. Len(Segs) \in Nat /\ \A i \in 1 .. Len(Segs) : Segs[i] \in ProgramHeaders
    BY <1>4
  <1>6. ld.seg \in Nat \ {0}
    BY <1>3 DEF LdTypes
  <1> QED BY <1>2, <1>3, <1>4, <1>5, <1>6 DEF Seg

(* The loader is not in a call of map(). *)
LEMMA NotMapping ==
    ASSUME LoaderInv, ~ld.asked \/ ld.pc \notin {"stack", "pages"}
    PROVE  ~Mapping /\ ~ld.asked
  BY DEF LoaderInv, CallMatches

(* A call of the loader begins. *)
LEMMA LoaderCallInv ==
    ASSUME LoaderInv, mapStack \/ \E elf \in ElfFiles : loadElf(elf)
    PROVE  LoaderInv' /\ UNCHANGED nextPpn
  <1>1. /\ ld.pc = "idle"
        /\ UNCHANGED <<mem, mapperVars, data, nextPpn, mapping, ldRes, mapped, loaded>>
    BY DEF mapStack, loadElf
  <1>2. STACK_BASE - STACK_SIZE \in Nat
    BY LoaderAssumption
  <1>3. ld' \in LdTypes /\ ~ld'.asked /\ ld'.pc \in {"stack", "segment", "aborted"}
    <2>1. CASE mapStack
      BY <1>2, <2>1, SegTypes DEF mapStack, LdTypes, Idle
    <2>2. CASE \E elf \in ElfFiles : loadElf(elf)
      BY <2>2, SegTypes DEF loadElf, Abort, LdTypes, Idle
    <2> QED BY <2>1, <2>2
  <1>4. SegmentAt'
    BY <1>3 DEF SegmentAt
  <1>5. data' \in [DOMAIN data -> [Offsets -> Nat]] /\ mapped' \subseteq DOMAIN mapping
    BY <1>1 DEF LoaderInv, LoaderTypes
  <1> QED BY <1>1, <1>3, <1>4, <1>5, NotMapping, QuietInv

(* Steps that move cursors, and nothing in memory. *)
LEMMA CursorInv ==
    ASSUME LoaderInv, StackDone \/ NextSegment \/ PagesDone \/ SegmentDone
    PROVE  LoaderInv' /\ UNCHANGED nextPpn
  <1>1. UNCHANGED <<mem, mapperVars, data, nextPpn, mapping, mapped>>
    BY DEF StackDone, NextSegment, PagesDone, SegmentDone
  <1>2. ~Mapping /\ ~ld.asked
    BY NotMapping DEF StackDone, NextSegment, PagesDone, SegmentDone
  <1>3. ld' \in LdTypes /\ ~ld'.asked /\ SegmentAt'
    <2>1. CASE ld' = Idle
      BY <2>1, SegTypes DEF Idle, SegmentAt
    <2>2. CASE PagesDone
      <3>1. ld' \in LdTypes /\ ld'.elf = ld.elf /\ ld'.seg = ld.seg /\ ~ld'.asked
        BY <1>2, <2>2, SegTypes DEF PagesDone, LdTypes
      <3> QED BY <2>2, <3>1 DEF PagesDone, LoaderInv, SegmentAt, Segs, Seg
    <2>3. CASE SegmentDone
      <3>1. ld' \in LdTypes /\ ld'.pc = "segment" /\ ~ld'.asked
        <4>1. ld \in LdTypes /\ ld.seg + 1 \in Nat \ {0}
          BY SegTypes DEF LdTypes
        <4> QED BY <1>2, <2>3, <4>1 DEF SegmentDone, LdTypes
      <3> QED BY <3>1 DEF SegmentAt
    <2>4. CASE NextSegment /\ ld.seg <= Len(Segs) /\ ~Seg.load /\ ld' = [ld EXCEPT !.seg = @ + 1]
      <3>1. ld' \in LdTypes /\ ld'.pc = "segment" /\ ~ld'.asked
        <4>1. ld \in LdTypes /\ ld.seg + 1 \in Nat \ {0} /\ ld.pc = "segment"
          BY <2>4, SegTypes DEF NextSegment, LdTypes
        <4> QED BY <1>2, <2>4, <4>1 DEF LdTypes
      <3> QED BY <3>1 DEF SegmentAt
    <2>5. CASE /\ NextSegment /\ ld.seg <= Len(Segs) /\ Seg.load
               /\ ld' = [ld EXCEPT !.pc = "pages", !.at = Seg.vaddr \div PAGE_SIZE]
      <3>1. Seg.vaddr \in Nat
        BY <2>5, SegTypes DEF ProgramHeaders
      <3>2. PICK n \in Nat : n = Seg.vaddr \div PAGE_SIZE
        BY <3>1, DivBound, LoaderAssumption
      <3>3. ld' = [ld EXCEPT !.pc = "pages", !.at = n]
        BY <2>5, <3>2
      <3>4. ld' \in LdTypes /\ ~ld'.asked /\ ld'.elf = ld.elf /\ ld'.seg = ld.seg
        BY <1>2, <3>3, SegTypes DEF LdTypes
      <3> QED BY <2>5, <3>4 DEF SegmentAt, Segs, Seg
    <2> QED BY <2>1, <2>2, <2>3, <2>4, <2>5 DEF StackDone, NextSegment, Return
  <1>4. data' \in [DOMAIN data -> [Offsets -> Nat]] /\ mapped' \subseteq DOMAIN mapping
    BY <1>1 DEF LoaderInv, LoaderTypes
  <1> QED BY <1>1, <1>2, <1>3, <1>4, QuietInv

(* mapPage() has returned. *)
LEMMA PageMappedInv ==
    ASSUME LoaderInv, PageMapped
    PROVE  LoaderInv' /\ UNCHANGED nextPpn
  <1>1. ld.asked /\ ~Mapping /\ UNCHANGED <<mem, mapperVars, data, nextPpn, mapping>>
    BY DEF PageMapped
  <1>2. data' \in [DOMAIN data -> [Offsets -> Nat]] /\ mapped \subseteq DOMAIN mapping
    BY <1>1 DEF LoaderInv, LoaderTypes
  <1>3. CASE mapRes = "OK"
    <2>1. ld' = [ld EXCEPT !.at = @ + 1, !.asked = FALSE] /\ mapped' = mapped \cup {ld.at}
      BY <1>3 DEF PageMapped
    <2>2. ld' \in LdTypes /\ ~ld'.asked /\ ld'.elf = ld.elf /\ ld'.seg = ld.seg /\ ld'.pc = ld.pc
      <3>1. ld \in LdTypes /\ ld.at + 1 \in Nat
        BY SegTypes DEF LdTypes
      <3> QED BY <2>1, <3>1 DEF LdTypes
    <2>3. SegmentAt'
      BY <2>2 DEF LoaderInv, SegmentAt, Segs, Seg
    <2>4. /\ ld.at \in DOMAIN mapping
          /\ Canon(ld.at) \in DOMAIN Space /\ Space[Canon(ld.at)].ppn = mapping[ld.at]
      BY <1>1, <1>3 DEF LoaderInv, CallMatches, MappingOK
    <2> QED BY <1>1, <1>2, <2>1, <2>2, <2>3, <2>4, QuietInv
  <1>4. CASE mapRes # "OK"
    <2>1. ld' = Idle /\ mapped' = mapped
      BY <1>4 DEF PageMapped, Return
    <2>2. ld' \in LdTypes /\ ~ld'.asked /\ SegmentAt'
      BY <2>1, SegTypes DEF Idle, SegmentAt
    <2> QED BY <1>1, <1>2, <2>1, <2>2, QuietInv
  <1> QED BY <1>3, <1>4

(* The page of a copy, where in it the copy begins, and its length. *)
CopyAt(va, vpn, off, n) ==
    /\ va = Seg.vaddr + ld.at /\ va = PAGE_SIZE * vpn + off
    /\ vpn = va \div PAGE_SIZE /\ off = va % PAGE_SIZE
    /\ off \in Offsets /\ n > 0
    /\ n = CpySize /\ n <= PAGE_SIZE - off /\ n <= Seg.filesz - ld.at
    /\ n = PAGE_SIZE - off \/ n = Seg.filesz - ld.at
    /\ \/ vpn \notin DOMAIN mapping /\ Abort /\ UNCHANGED data
       \/ /\ vpn \in DOMAIN mapping
          /\ data' = [data EXCEPT ![mapping[vpn]] =
                 [o \in Offsets |->
                     IF o \in off .. off + n - 1
                     THEN FileByte(Seg.offset + ld.at + o - off)
                     ELSE IF o < INT_SIZE THEN 0 ELSE data[mapping[vpn]][o]]]
          /\ ld' = [ld EXCEPT !.at = @ + n]

(* Every step of the copy loop is one. *)
LEMMA CopyPlace ==
    ASSUME LoaderInv, CopyPage
    PROVE  \E va, vpn, off, n \in Nat : CopyAt(va, vpn, off, n)
  <1>1. /\ ld.pc = "bytes" /\ ld.at < Seg.filesz
        /\ IF (Seg.vaddr + ld.at) \div PAGE_SIZE \notin DOMAIN mapping
           THEN Abort /\ UNCHANGED data
           ELSE /\ data' = [data EXCEPT ![mapping[(Seg.vaddr + ld.at) \div PAGE_SIZE]] =
                      [o \in Offsets |->
                          IF o \in (Seg.vaddr + ld.at) % PAGE_SIZE ..
                                     ((Seg.vaddr + ld.at) % PAGE_SIZE) + CpySize - 1
                          THEN FileByte(Seg.offset + ld.at + o
                                           - ((Seg.vaddr + ld.at) % PAGE_SIZE))
                          ELSE IF o < INT_SIZE THEN 0 ELSE @[o]]]
                /\ ld' = [ld EXCEPT !.at = ld.at + CpySize]
    BY DEF CopyPage, OffsetAfter
  <1>2. Seg \in ProgramHeaders /\ ld.at \in Nat
    BY <1>1, SegTypes DEF LoaderInv, SegmentAt, LdTypes
  <1>3. PICK va \in Nat : va = Seg.vaddr + ld.at
    BY <1>2 DEF ProgramHeaders
  <1>4. PICK vpn \in Nat, off \in Offsets :
            vpn = va \div PAGE_SIZE /\ off = va % PAGE_SIZE /\ va = PAGE_SIZE * vpn + off
    <2>1. va \div PAGE_SIZE \in Nat
      BY DivBound, LoaderAssumption
    <2>2. va % PAGE_SIZE \in Offsets /\ va = PAGE_SIZE * (va \div PAGE_SIZE) + (va % PAGE_SIZE)
      BY DivMod, LoaderAssumption DEF Offsets
    <2> QED BY <2>1, <2>2
  <1>5. CpySize = SmallerOf(PAGE_SIZE - off, Seg.filesz - ld.at)
    BY <1>3, <1>4 DEF CpySize
  <1>6. off \in Nat /\ off < PAGE_SIZE
    BY LoaderAssumption DEF Offsets
  <1>7. PICK n \in Nat :
            /\ n = CpySize /\ n > 0 /\ n <= PAGE_SIZE - off /\ n <= Seg.filesz - ld.at
            /\ n = PAGE_SIZE - off \/ n = Seg.filesz - ld.at
    BY <1>1, <1>2, <1>5, <1>6, LoaderAssumption DEF SmallerOf, ProgramHeaders
  <1>8. /\ vpn \notin DOMAIN mapping => Abort /\ UNCHANGED data
        /\ vpn \in DOMAIN mapping =>
            /\ data' = [data EXCEPT ![mapping[vpn]] =
                            [o \in Offsets |->
                                IF o \in off .. off + n - 1
                                THEN FileByte(Seg.offset + ld.at + o - off)
                                ELSE IF o < INT_SIZE THEN 0 ELSE data[mapping[vpn]][o]]]
            /\ ld' = [ld EXCEPT !.at = ld.at + n]
    BY <1>1, <1>3, <1>4, <1>7
  <1>9. CopyAt(va, vpn, off, n)
    BY <1>3, <1>4, <1>7, <1>8 DEF CopyAt
  <1> QED BY <1>6, <1>9

(* A copy into a page of the segment. *)
LEMMA CopyPageInv ==
    ASSUME LoaderInv, CopyPage
    PROVE  LoaderInv' /\ UNCHANGED nextPpn
  <1>1. ld.pc = "bytes" /\ UNCHANGED <<mem, mapperVars, nextPpn, mapping, mapped>>
    BY DEF CopyPage
  <1>2. ~Mapping /\ ~ld.asked
    BY <1>1, NotMapping
  <1>3. Seg \in ProgramHeaders /\ ld \in LdTypes /\ ld.at \in Nat
    BY <1>1, SegTypes DEF LoaderInv, SegmentAt, LdTypes
  <1>4. /\ data \in [DOMAIN data -> [Offsets -> Nat]]
        /\ mapping \in [DOMAIN mapping -> DOMAIN data] /\ mapped \subseteq DOMAIN mapping
    BY DEF LoaderInv, LoaderTypes
  <1>5. PICK va, vpn, off, n \in Nat : CopyAt(va, vpn, off, n)
    BY CopyPlace
  <1>6. CASE Abort /\ UNCHANGED data
    <2>1. ld' \in LdTypes /\ ~ld'.asked /\ SegmentAt'
      BY <1>6, SegTypes DEF Abort, Idle, LdTypes, SegmentAt
    <2> QED BY <1>1, <1>2, <1>4, <1>6, <2>1, QuietInv
  <1>7. CASE /\ vpn \in DOMAIN mapping
             /\ data' = [data EXCEPT ![mapping[vpn]] =
                            [o \in Offsets |->
                                IF o \in off .. off + n - 1
                                THEN FileByte(Seg.offset + ld.at + o - off)
                                ELSE IF o < INT_SIZE THEN 0 ELSE data[mapping[vpn]][o]]]
             /\ ld' = [ld EXCEPT !.at = @ + n]
    <2>1. /\ ld' \in LdTypes /\ ~ld'.asked /\ ld'.elf = ld.elf /\ ld'.seg = ld.seg
          /\ ld'.pc = ld.pc
      BY <1>2, <1>3, <1>7 DEF LdTypes
    <2>2. SegmentAt'
      BY <2>1 DEF LoaderInv, SegmentAt, Segs, Seg
    <2>3. ASSUME NEW o \in Offsets
          PROVE  (IF o \in off .. off + n - 1 THEN FileByte(Seg.offset + ld.at + o - off)
                  ELSE IF o < INT_SIZE THEN 0 ELSE data[mapping[vpn]][o]) \in Nat
      <3>1. o \in Nat /\ data[mapping[vpn]][o] \in Nat /\ Seg.offset \in Nat
        BY <1>3, <1>4, <1>7, LoaderAssumption DEF Offsets, ProgramHeaders
      <3>2. o \in off .. off + n - 1 => FileByte(Seg.offset + ld.at + o - off) \in Nat
        BY <1>3, <3>1 DEF FileByte
      <3> QED BY <3>1, <3>2
    <2>4. data' \in [DOMAIN data -> [Offsets -> Nat]]
      BY <1>4, <1>7, <2>3
    <2> QED BY <1>1, <1>2, <1>4, <2>1, <2>2, <2>4, QuietInv
  <1> QED BY <1>5, <1>6, <1>7 DEF CopyAt

-----------------------------------------------------------------------------
(* Every step of the program. *)

(* The steps of the loader and its callers: a call, a page, a step of      *)
(* map(), its return, a cursor, a copy, or nothing of the loader.          *)
LoaderActs ==
    \/ mapStack \/ \E elf \in Elfs \cup MainElfs : loadElf(elf)
    \/ StackPage \/ SegmentPage \/ MapRuns \/ PageMapped
    \/ StackDone \/ NextSegment \/ PagesDone \/ SegmentDone
    \/ CopyPage
    \/ UNCHANGED <<mem, mapperVars, loaderVars>>

(* Next makes no other. *)
LEMMA NextActs ==
    ASSUME [Next]_vars
    PROVE  LoaderActs
  <1>1. CASE MainStep
    <2>1. CASE MainMapsStack
      BY <2>1 DEF MainMapsStack, LoaderActs
    <2>2. CASE StackStatus \/ MainRuns
      BY <2>2 DEF StackStatus, MainRuns, LoaderActs
    <2>3. CASE \E elf \in MainElfs : MainLoads(elf)
      BY <2>3 DEF MainLoads, LoaderActs
    <2> QED BY <1>1, <2>1, <2>2, <2>3 DEF MainStep
  <1>2. CASE Client
    BY <1>2 DEF Client, LoaderCall, LoaderActs
  <1>3. CASE Loader
    BY <1>3 DEF Loader, LoaderStep, LoaderActs
  <1>4. CASE Guest
    BY <1>4 DEF Guest, GuestTranslates, GuestWalks, LoaderActs
  <1>5. CASE UNCHANGED vars
    BY <1>5 DEF vars, LoaderActs
  <1> QED BY <1>1, <1>2, <1>3, <1>4, <1>5 DEF Next

(* Frames are taken one at a time and never given back. *)
LEMMA FramesGrow ==
    ASSUME LoaderActs
    PROVE  nextPpn' = nextPpn + 1 \/ nextPpn' = nextPpn
  <1>1. CASE StackPage \/ SegmentPage
    BY <1>1 DEF StackPage, SegmentPage, mapPage, FrameAfter
  <1> QED BY <1>1 DEF LoaderActs, mapStack, loadElf, MapRuns, PageMapped, StackDone,
                      NextSegment, PagesDone, SegmentDone, CopyPage, loaderVars

(* Every step of the loader keeps its invariant. *)
LEMMA LoaderActsInv ==
    ASSUME LoaderInv, LoaderActs, FramesLeft'
    PROVE  LoaderInv'
  <1>1. CASE StackPage \/ SegmentPage
    <2>1. ld.pc \in {"stack", "pages"} /\ mapPage(ld.at)
      BY <1>1 DEF StackPage, SegmentPage
    <2>2. nextPpn' = nextPpn + 1
      BY <2>1 DEF mapPage, FrameAfter
    <2> QED BY <2>1, <2>2, MapPageInv DEF FramesLeft
  <1>2. CASE MapRuns
    BY <1>2, MapRunsInv
  <1>3. CASE UNCHANGED <<mem, mapperVars, loaderVars>>
    <2>1. UNCHANGED <<data, nextPpn, mapping, ld, ldRes, calls, mapped, loaded, mapRes, call>>
      BY <1>3 DEF loaderVars, mapperVars
    <2>2. /\ MapperInv' /\ Space' = Space /\ (Mapping' <=> Mapping)
          /\ \A c : Stuck(c) => Stuck(c)'
      BY <1>3, MapperKept DEF LoaderInv
    <2>3. LoaderTypes' /\ CallMatches' /\ SpacePrivate' /\ SegmentAt'
      BY <1>3, <2>1, <2>2 DEF LoaderInv, LoaderTypes, CallMatches, SpacePrivate, SegmentAt, Segs, Seg
    <2>4. MappingAgrees'
      BY <2>1, <2>2 DEF LoaderInv, MappingOK, MappingAgrees
    <2>5. \A v : Settled(v) => Settled(v)'
      BY <2>2 DEF Settled
    <2>6. MappingOK'
      BY <2>1, <2>2, <2>4, <2>5 DEF LoaderInv, MappingOK, Canon
    <2> QED BY <2>2, <2>3, <2>6 DEF LoaderInv
  <1>4. \A elf \in Elfs \cup MainElfs : elf \in ElfFiles
    BY LoaderAssumption, SimAppAssumption
  <1> QED BY <1>1, <1>2, <1>3, <1>4, LoaderCallInv, PageMappedInv, CursorInv, CopyPageInv
          DEF LoaderActs

(* The mapper of a loader that was just made maps nothing. *)
LEMMA InitSpace ==
    ASSUME Init
    PROVE  MapperInv /\ DOMAIN Space = {}
  <1>1. mem = [p \in TableRegion |-> EmptyTable] /\ MapperInit
    BY DEF Init, LoaderInit
  <1>2. EmptyTable \in [Slots -> PTEs]
    BY PageTablesAssumption, SMT DEF EmptyTable, ZeroPTE, createPTE, PTEs, PTEFlags
  <1>3. MemOK
    BY <1>1, <1>2 DEF MemOK
  <1> QED BY <1>1, <1>3, MapperInitInv

(* A loader that was just made has it. *)
LEMMA InitInv ==
    ASSUME Init
    PROVE  nextPpn \in Nat /\ LoaderInv
  <1> USE MapperAssumption
  <1>1. /\ mem = [p \in TableRegion |-> EmptyTable] /\ MapperInit
        /\ data = [p \in {} |-> ZeroPage] /\ nextPpn = TABLE_END
        /\ mapping = [v \in {} |-> 0] /\ ld = Idle /\ mapped = {} /\ loaded = {}
    BY DEF Init, LoaderInit
  <1>2. EmptyTable \in [Slots -> PTEs]
    BY PageTablesAssumption, SMT DEF EmptyTable, ZeroPTE, createPTE, PTEs, PTEFlags
  <1>3. MapperInv /\ DOMAIN Space = {}
    BY InitSpace
  <1>4. ~Mapping
    BY <1>1 DEF MapperInit, IdleCall, Mapping
  <1>5. LoaderTypes
    <2>1. mem \in [TableRegion -> [Slots -> PTEs]]
      BY <1>1, <1>2
    <2>2. <<>> \in Seq(ProgramHeaders)
      OBVIOUS
    <2>3. TABLE_END .. TABLE_END - 1 = {}
      OBVIOUS
    <2> QED BY <1>1, <2>1, <2>2, <2>3 DEF LoaderTypes, Idle, NoFile, ElfFiles
  <1>6. CallMatches /\ SpacePrivate /\ SegmentAt
    BY <1>1, <1>3, <1>4 DEF CallMatches, SpacePrivate, SegmentAt, Idle
  <1>7. MappingOK
    BY <1>1 DEF MappingOK, MappingAgrees, Idle
  <1> QED BY <1>1, <1>3, <1>5, <1>6, <1>7 DEF LoaderInv

(* It holds for as long as page numbers fit a PTE. *)
LEMMA SpecInv == Spec => [](nextPpn \in Nat /\ (FramesLeft => LoaderInv))
  <1> DEFINE I == nextPpn \in Nat /\ (FramesLeft => LoaderInv)
  <1>1. Init => I
    BY InitInv
  <1>2. I /\ [Next]_vars => I'
    <2> SUFFICES ASSUME I, [Next]_vars PROVE I'
      OBVIOUS
    <2>1. LoaderActs
      BY NextActs
    <2>2. nextPpn' \in Nat /\ nextPpn <= nextPpn'
      BY <2>1, FramesGrow
    <2>3. FramesLeft' => FramesLeft
      BY <2>2, MapperAssumption, PageTablesAssumption DEF FramesLeft
    <2> QED BY <2>1, <2>2, <2>3, LoaderActsInv
  <1> QED BY <1>1, <1>2, PTL DEF Spec

-----------------------------------------------------------------------------
(* What this says of the loader. *)

(* As long as page numbers fit a PTE, every variable of the loader and the *)
(* mapper has its type, whatever the files and the calls are: mapPage()    *)
(* and the copy only use pages that exist, and map() only tables of its    *)
(* region.                                                                 *)
THEOREM LoaderTypeCorrect == Spec => [](FramesLeft => LoaderTypeOK)
  <1>1. LoaderInv => LoaderTypeOK
    <2> SUFFICES ASSUME LoaderInv PROVE LoaderTypeOK
      OBVIOUS
    <2>1. MapperTypeOK
      BY DEF LoaderInv, MapperInv
    <2> QED BY <2>1 DEF LoaderInv, LoaderTypes, LoaderTypeOK
  <1> QED BY <1>1, SpecInv, PTL

(* As long as page numbers fit a PTE, no page backs two virtual pages,     *)
(* holds page tables or is handed out twice: addRAMPage(), whose status    *)
(* mapPage() passes on, never refuses a page (elf_load.cpp).               *)
THEOREM FramesAlwaysPrivate == Spec => [](FramesLeft => FramesPrivate)
  <1>1. LoaderInv => FramesPrivate
    <2> SUFFICES ASSUME LoaderInv PROVE FramesPrivate
      OBVIOUS
    <2>1. /\ nextPpn \in Nat /\ TABLE_END <= nextPpn
          /\ DOMAIN data = TABLE_END .. nextPpn - 1
      BY DEF LoaderInv, LoaderTypes
    <2>2. (DOMAIN data \cup {nextPpn}) \cap TableRegion = {} /\ nextPpn \notin DOMAIN data
      BY <2>1, MapperAssumption DEF TableRegion
    <2> QED BY <2>2 DEF LoaderInv, SpacePrivate, FramesPrivate
  <1> QED BY <1>1, SpecInv, PTL

(* As long as page numbers fit a PTE, the page m_mapping gives a virtual   *)
(* page is the page the tables give it, after failed calls and with        *)
(* virtual pages that overlap too: the copy and the guest use the same.    *)
THEOREM MappingAlwaysAgrees == Spec => [](FramesLeft => MappingAgrees)
  <1>1. LoaderInv => MappingAgrees
    BY DEF LoaderInv, MappingOK
  <1> QED BY <1>1, SpecInv, PTL

(* main()'s state. *)
AppTypes ==
    app \in [pc : {"start", "stack", "file", "load", "guest", "client", "aborted"},
             sp : Nat, startPc : Nat]

(* Every step keeps main()'s state so. *)
LEMMA AppTypesKept ==
    ASSUME AppTypes, [Next]_vars
    PROVE  AppTypes'
  <1>1. CASE MainMapsStack
    BY <1>1 DEF MainMapsStack, AppTypes
  <1>2. CASE StackStatus
    <2>1. PICK n \in Nat : n = IF ldRes = "OK" THEN STACK_BASE * PAGE_SIZE ELSE 0
      BY LoaderAssumption
    <2>2. app' = [app EXCEPT !.pc = "file", !.sp = n] \/ app' = [app EXCEPT !.pc = "aborted"]
      BY <1>2, <2>1 DEF StackStatus, Asserted
    <2> QED BY <2>2 DEF AppTypes
  <1>3. ASSUME NEW elf \in MainElfs, MainLoads(elf)
        PROVE  AppTypes'
    <2>1. PICK n \in Nat : n = IF elf.valid THEN elf.entry ELSE 0
      BY SimAppAssumption DEF ElfFiles
    <2>2. app' = [app EXCEPT !.pc = "load", !.startPc = n]
      BY <1>3, <2>1 DEF MainLoads
    <2> QED BY <2>2 DEF AppTypes
  <1>4. CASE MainRuns
    <2>1. PICK n \in Nat : n = IF ldRes = "OK" THEN app.startPc ELSE 0
      BY DEF AppTypes
    <2>2. \/ app' = [app EXCEPT !.pc = "guest", !.startPc = n]
          \/ app' = [app EXCEPT !.pc = "aborted"]
      BY <1>4, <2>1 DEF MainRuns, Asserted, AppTypes
    <2>3. CASE app' = [app EXCEPT !.pc = "guest", !.startPc = n]
      BY <2>3 DEF AppTypes
    <2>4. CASE app' = [app EXCEPT !.pc = "aborted"]
      BY <2>4 DEF AppTypes
    <2> QED BY <2>2, <2>3, <2>4
  <1>5. CASE UNCHANGED app
    BY <1>5 DEF AppTypes
  <1> QED BY <1>1, <1>2, <1>3, <1>4, <1>5
          DEF Next, MainStep, Client, Loader, Guest, GuestTranslates, GuestWalks, vars

(* So it is in every state. *)
LEMMA AppTypeCorrect == Spec => []AppTypes
  <1>1. Init => AppTypes
    BY DEF Init, AppTypes
  <1> QED BY <1>1, AppTypesKept, PTL DEF Spec

-----------------------------------------------------------------------------
(* The images in memory: the segments of earlier calls, and those that     *)
(* this call is done with.                                                 *)
Loading == ld.pc \in {"segment", "pages", "bytes"}
Done == IF Loading THEN {Segs[i] : i \in {j \in 1 .. ld.seg - 1 : Segs[j].load}} ELSE {}
Images == loaded \cup Done

Bytes(s) == 0 .. s.memsz - 1
PageOf(s, o) == (s.vaddr + o) \div PAGE_SIZE
PagesOf(s) == {PageOf(s, o) : o \in Bytes(s)}

(* The RAM page of a virtual page. *)
Frame(p) == data[mapping[p]]

(* The bytes of s are in memory, the file's as far as end. *)
BytesUpTo(s, end) ==
    \A o \in Bytes(s) :
        Frame(PageOf(s, o))[(s.vaddr + o) % PAGE_SIZE] =
            IF o < s.filesz /\ o < end THEN FileByte(s.offset + o) ELSE 0

ImageOK(s) == s \in ProgramHeaders /\ PagesOf(s) \subseteq mapped /\ BytesUpTo(s, s.filesz)

ImagesOK == \A s \in Images : ImageOK(s)

(* Pages that are mapped and that no image uses. *)
OwnPages(P) == P \subseteq mapped /\ \A s \in Images : PagesOf(s) \cap P = {}

(* No two pages that mapPage() returned OK for share a RAM page. *)
MappedOnce == \A u, v \in mapped : mapping[u] = mapping[v] => u = v

FirstPage == IF ld.pc = "stack" THEN STACK_BASE - STACK_SIZE ELSE Seg.vaddr \div PAGE_SIZE
NewPages == FirstPage .. ld.at - 1

(* mapPage() took a frame that is empty and in nobody's use. *)
FrameFresh ==
    ld.asked /\ (Mapping \/ mapRes = "OK") =>
        data[nextPpn - 1] = ZeroPage /\ \A v \in mapped : mapping[v] # nextPpn - 1

PagesFresh ==
    ld.pc \in {"stack", "pages"} =>
        OwnPages(NewPages) /\ \A p \in NewPages : Frame(p) = ZeroPage

(* The copy of a segment is done up to ld.at, and goes on at a page's      *)
(* start: the int that is written there wipes out nothing.                 *)
CopyOK ==
    ld.pc = "bytes" =>
        /\ OwnPages(PagesOf(Seg)) /\ BytesUpTo(Seg, ld.at)
        /\ \/ ld.at = 0 \/ ld.at >= Seg.filesz
           \/ (Seg.vaddr + ld.at) % PAGE_SIZE = 0

(* What the ELF format asks of program headers. *)
WellFormed(elf) == \A i \in 1 .. Len(elf.segs) : elf.segs[i].filesz <= elf.segs[i].memsz

ImagesInv ==
    ImagesOK /\ MappedOnce /\ FrameFresh /\ PagesFresh /\ CopyOK /\ WellFormed(ld.elf)

(* Where the bytes of a segment are. *)
LEMMA ByteAt ==
    ASSUME NEW s \in ProgramHeaders, NEW o \in Nat
    PROVE  /\ PageOf(s, o) \in Nat /\ (s.vaddr + o) % PAGE_SIZE \in Offsets
           /\ s.vaddr + o = PAGE_SIZE * PageOf(s, o) + ((s.vaddr + o) % PAGE_SIZE)
  <1>1. s.vaddr + o \in Nat
    BY DEF ProgramHeaders
  <1> QED BY <1>1, DivMod, DivBound, LoaderAssumption DEF PageOf, Offsets

(* The page loop goes over the pages of a segment's bytes. *)
LEMMA PagesOfSegment ==
    ASSUME NEW s \in ProgramHeaders, NEW e \in Nat, s.vaddr + s.memsz <= e * PAGE_SIZE
    PROVE  PagesOf(s) \subseteq s.vaddr \div PAGE_SIZE .. e - 1
  <1> USE LoaderAssumption
  <1> SUFFICES ASSUME NEW o \in Bytes(s)
               PROVE  PageOf(s, o) \in s.vaddr \div PAGE_SIZE .. e - 1
    BY DEF PagesOf
  <1>1. s.vaddr \in Nat /\ s.memsz \in Nat /\ o \in Nat /\ o < s.memsz
    BY DEF ProgramHeaders, Bytes
  <1>2. PICK q \in Nat, r \in 0 .. PAGE_SIZE - 1 :
            q = PageOf(s, o) /\ s.vaddr + o = PAGE_SIZE * q + r
    BY <1>1, ByteAt DEF Offsets
  <1>3. PICK d \in Nat, m \in 0 .. PAGE_SIZE - 1 :
            d = s.vaddr \div PAGE_SIZE /\ s.vaddr = PAGE_SIZE * d + m
    <2>1. s.vaddr \div PAGE_SIZE \in Nat
      BY <1>1, DivBound
    <2>2. s.vaddr \in Int /\ PAGE_SIZE \in Nat /\ PAGE_SIZE > 0
      BY <1>1
    <2>3. /\ s.vaddr % PAGE_SIZE \in 0 .. PAGE_SIZE - 1
          /\ s.vaddr = PAGE_SIZE * (s.vaddr \div PAGE_SIZE) + (s.vaddr % PAGE_SIZE)
      BY <2>2, DivMod
    <2> QED BY <2>1, <2>3
  <1>4. q < e
    <2>1. SUFFICES ASSUME q >= e PROVE FALSE
      OBVIOUS
    <2>2. PAGE_SIZE * (q - e + 1) >= PAGE_SIZE
      BY <2>1, Multiple
    <2>3. PAGE_SIZE * (q - e + 1) = PAGE_SIZE * q - e * PAGE_SIZE + PAGE_SIZE
      OBVIOUS
    <2>4. PAGE_SIZE * q \in Int /\ e * PAGE_SIZE \in Int
      OBVIOUS
    <2> QED BY <1>1, <1>2, <2>2, <2>3, <2>4
  <1>5. d <= q
    <2>1. SUFFICES ASSUME q < d PROVE FALSE
      OBVIOUS
    <2>2. PAGE_SIZE * (d - q) >= PAGE_SIZE
      BY <2>1, Multiple
    <2>3. PAGE_SIZE * (d - q) = PAGE_SIZE * d - PAGE_SIZE * q
      OBVIOUS
    <2>4. PAGE_SIZE * q \in Int /\ PAGE_SIZE * d \in Int
      OBVIOUS
    <2> QED BY <1>1, <1>2, <1>3, <2>2, <2>3, <2>4
  <1> QED BY <1>2, <1>3, <1>4, <1>5

(* Bytes stay in memory while their pages' contents do. *)
LEMMA BytesStay ==
    ASSUME NEW s, NEW e, BytesUpTo(s, e), \A p \in PagesOf(s) : Frame(p)' = Frame(p)
    PROVE  BytesUpTo(s, e)'
  <1>1. \A o \in Bytes(s) : Frame(PageOf(s, o))' = Frame(PageOf(s, o))
    BY DEF PagesOf
  <1> QED BY <1>1 DEF BytesUpTo, Bytes, PageOf, FileByte

(* So do images. *)
LEMMA ImagesStay ==
    ASSUME ImagesOK, mapped \subseteq mapped',
           \A s \in Images : \A p \in PagesOf(s) : Frame(p)' = Frame(p)
    PROVE  \A s \in Images : ImageOK(s)'
  <1> SUFFICES ASSUME NEW s \in Images PROVE ImageOK(s)'
    OBVIOUS
  <1>1. s \in ProgramHeaders /\ PagesOf(s) \subseteq mapped /\ BytesUpTo(s, s.filesz)
    BY DEF ImagesOK, ImageOK
  <1>2. BytesUpTo(s, s.filesz)'
    BY <1>1, BytesStay
  <1> QED BY <1>1, <1>2 DEF ImageOK, PagesOf, Bytes, PageOf

(* A step that lets the contents of RAM pages be, and adds no image. *)
LEMMA ImagesKept ==
    ASSUME ImagesOK, mapped \subseteq mapped', \A p \in mapped : Frame(p)' = Frame(p),
           Images' \subseteq Images
    PROVE  ImagesOK'
  <1>1. \A s \in Images : \A p \in PagesOf(s) : Frame(p)' = Frame(p)
    BY DEF ImagesOK, ImageOK
  <1>2. \A s \in Images : ImageOK(s)'
    BY <1>1, ImagesStay
  <1> QED BY <1>2 DEF ImagesOK

(* Own pages are own pages of fewer images too. *)
LEMMA OwnPagesStay ==
    ASSUME NEW P, OwnPages(P), mapped \subseteq mapped', Images' \subseteq Images
    PROVE  OwnPages(P)'
  BY DEF OwnPages, PagesOf, Bytes, PageOf

(* A segment of a well-formed file. *)
LEMMA SegWellFormed ==
    ASSUME LoaderInv, WellFormed(ld.elf), ld.pc \in {"pages", "bytes"}
    PROVE  Seg \in ProgramHeaders /\ Seg.filesz <= Seg.memsz
  <1>1. ld.seg <= Len(Segs) /\ ld.seg \in Nat \ {0} /\ Seg \in ProgramHeaders
    BY SegTypes DEF LoaderInv, SegmentAt, LdTypes
  <1>2. CASE ld.elf.valid
    BY <1>1, <1>2 DEF WellFormed, Segs, Seg
  <1>3. CASE ~ld.elf.valid
    BY <1>1, <1>3 DEF Segs
  <1> QED BY <1>1, <1>2, <1>3

(* A call begins: it has done nothing yet. *)
LEMMA CallImages ==
    ASSUME LoaderInv, ImagesInv,
           mapStack \/ \E elf \in ElfFiles : loadElf(elf) /\ WellFormed(elf)
    PROVE  ImagesInv'
  <1>1. ld.pc = "idle" /\ UNCHANGED <<data, mapping, nextPpn, mapped, loaded>>
    BY DEF mapStack, loadElf
  <1>2. /\ ld'.pc \in {"stack", "segment", "aborted"} /\ ~ld'.asked /\ ld'.seg = 1
        /\ ld'.pc = "stack" => ld'.at = STACK_BASE - STACK_SIZE
        /\ WellFormed(ld.elf)'
    <2>1. WellFormed(NoFile)
      BY DEF WellFormed, NoFile
    <2>2. CASE mapStack
      <3>1. ld' = [Idle EXCEPT !.pc = "stack", !.at = STACK_BASE - STACK_SIZE]
        BY <2>2 DEF mapStack
      <3>2. ld'.elf = NoFile
        BY <3>1 DEF Idle
      <3> QED BY <2>1, <3>1, <3>2 DEF Idle, WellFormed
    <2>3. ASSUME NEW elf \in ElfFiles, loadElf(elf), WellFormed(elf)
          PROVE  /\ ld'.pc \in {"segment", "aborted"} /\ ~ld'.asked /\ ld'.seg = 1
                 /\ WellFormed(ld.elf)'
      <3>1. \/ ld' = [Idle EXCEPT !.pc = "aborted"]
            \/ ld' = [Idle EXCEPT !.pc = "segment", !.elf = elf]
        BY <2>3 DEF loadElf, Abort
      <3>2. ld'.elf = NoFile \/ ld'.elf = elf
        BY <3>1 DEF Idle
      <3> QED BY <2>1, <2>3, <3>1, <3>2 DEF Idle, WellFormed
    <2> QED BY <2>2, <2>3
  <1>3. Images' \subseteq Images
    <2>1. Done' = {}
      BY <1>2 DEF Done, Loading
    <2> QED BY <1>1, <2>1 DEF Images
  <1>4. ImagesOK'
    BY <1>1, <1>3, ImagesKept DEF ImagesInv, Frame
  <1>5. MappedOnce' /\ FrameFresh' /\ CopyOK'
    BY <1>1, <1>2 DEF ImagesInv, MappedOnce, FrameFresh, CopyOK
  <1>6. PagesFresh'
    <2>1. ld'.pc = "stack" => NewPages' = {}
      BY <1>2, LoaderAssumption DEF NewPages, FirstPage
    <2> QED BY <1>2, <2>1 DEF PagesFresh, OwnPages
  <1> QED BY <1>2, <1>4, <1>5, <1>6 DEF ImagesInv

(* mapPage() takes a frame: nobody uses it, and it is zero (addRAMPage). *)
LEMMA MapPageImages ==
    ASSUME LoaderInv, ImagesInv, ld.pc \in {"stack", "pages"}, mapPage(ld.at)
    PROVE  ImagesInv'
  <1>1. /\ ld' = [ld EXCEPT !.asked = TRUE] /\ nextPpn' = nextPpn + 1
        /\ data' = [p \in DOMAIN data \cup {nextPpn} |->
                       IF p \in DOMAIN data THEN data[p] ELSE ZeroPage]
        /\ mapping' = [v \in DOMAIN mapping \cup {ld.at} |->
                          IF v \in DOMAIN mapping THEN mapping[v] ELSE nextPpn]
        /\ UNCHANGED <<mapped, loaded>>
    BY DEF mapPage, FrameAfter, Insert
  <1>2. /\ nextPpn \in Nat /\ DOMAIN data = TABLE_END .. nextPpn - 1
        /\ mapping \in [DOMAIN mapping -> DOMAIN data] /\ mapped \subseteq DOMAIN mapping
        /\ ld \in LdTypes
    BY DEF LoaderInv, LoaderTypes, LdTypes
  <1>3. /\ ld'.elf = ld.elf /\ ld'.seg = ld.seg /\ ld'.at = ld.at /\ ld'.pc = ld.pc
        /\ Segs' = Segs /\ Seg' = Seg
    BY <1>1, <1>2 DEF LdTypes, Segs, Seg
  <1>4. \A p \in mapped : Frame(p)' = Frame(p) /\ mapping'[p] = mapping[p]
    BY <1>1, <1>2 DEF Frame
  <1>5. Images' = Images /\ NewPages' = NewPages
    BY <1>1, <1>3 DEF Images, Done, Loading, NewPages, FirstPage
  <1>6. ImagesOK'
    BY <1>1, <1>4, <1>5, ImagesKept DEF ImagesInv
  <1>7. MappedOnce' /\ CopyOK' /\ WellFormed(ld.elf)'
    <2>1. MappedOnce'
      BY <1>1, <1>4 DEF ImagesInv, MappedOnce
    <2>2. CopyOK'
      BY <1>3 DEF CopyOK
    <2>3. WellFormed(ld.elf)'
      BY <1>3 DEF ImagesInv, WellFormed
    <2> QED BY <2>1, <2>2, <2>3
  <1>8. FrameFresh'
    <2>1. nextPpn' - 1 = nextPpn /\ nextPpn \notin DOMAIN data
      BY <1>1, <1>2, MapperAssumption
    <2>2. data'[nextPpn] = ZeroPage /\ \A v \in mapped : mapping'[v] # nextPpn
      BY <1>1, <1>2, <1>4, <2>1
    <2>3. ZeroPage' = ZeroPage
      BY DEF ZeroPage, Offsets
    <2> QED BY <1>1, <2>1, <2>2, <2>3 DEF FrameFresh
  <1>9. PagesFresh'
    <2>1. OwnPages(NewPages) /\ \A p \in NewPages : Frame(p) = ZeroPage
      BY DEF ImagesInv, PagesFresh
    <2>2. PICK P : P = NewPages
      OBVIOUS
    <2>3. OwnPages(P)' /\ P \subseteq mapped
      BY <1>1, <1>5, <2>1, <2>2, OwnPagesStay DEF OwnPages
    <2>4. \A p \in P : Frame(p)' = ZeroPage
      BY <1>4, <2>1, <2>2, <2>3
    <2> QED BY <1>5, <2>2, <2>3, <2>4 DEF PagesFresh, ZeroPage, Offsets
  <1> QED BY <1>6, <1>7, <1>8, <1>9 DEF ImagesInv

(* map() runs, and its return. *)
LEMMA MapRunsImages ==
    ASSUME LoaderInv, ImagesInv, MapRuns
    PROVE  ImagesInv'
  <1>1. UNCHANGED <<data, nextPpn, mapping, ld, ldRes, calls, mapped, loaded>> /\ MapStep
    BY DEF MapRuns, loaderVars
  <1>2. Mapping
    BY <1>1, MapStepEffect DEF LoaderInv
  <1>3. Images' = Images /\ Segs' = Segs /\ Seg' = Seg /\ NewPages' = NewPages
    BY <1>1 DEF Images, Done, Loading, Segs, Seg, NewPages, FirstPage
  <1>4. ImagesOK' /\ FrameFresh'
    BY <1>1, <1>2, <1>3, ImagesKept DEF ImagesInv, Frame, FrameFresh
  <1>5. MappedOnce' /\ PagesFresh' /\ CopyOK' /\ WellFormed(ld.elf)'
    <2>1. MappedOnce' /\ WellFormed(ld.elf)'
      BY <1>1 DEF ImagesInv, MappedOnce, WellFormed
    <2>2. PagesFresh'
      BY <1>1, <1>3 DEF ImagesInv, PagesFresh, OwnPages, Frame, ZeroPage, Offsets
    <2>3. CopyOK'
      BY <1>1, <1>3 DEF ImagesInv, CopyOK, OwnPages, BytesUpTo, Frame
    <2> QED BY <2>1, <2>2, <2>3
  <1> QED BY <1>4, <1>5 DEF ImagesInv

(* A call that ends leaves nothing under way. *)
LEMMA IdleImages ==
    ASSUME ImagesInv, ld' = Idle \/ ld' = [Idle EXCEPT !.pc = "aborted"],
           UNCHANGED <<mapped, mapping>>, ImagesOK'
    PROVE  ImagesInv'
  <1>1. ld'.pc \in {"idle", "aborted"} /\ ~ld'.asked /\ ld'.elf = NoFile
    BY DEF Idle
  <1>2. WellFormed(ld.elf)'
    BY <1>1 DEF WellFormed, NoFile
  <1>3. FrameFresh' /\ PagesFresh' /\ CopyOK'
    BY <1>1 DEF FrameFresh, PagesFresh, CopyOK
  <1>4. MappedOnce'
    BY DEF ImagesInv, MappedOnce
  <1> QED BY <1>2, <1>3, <1>4 DEF ImagesInv

(* The page that mapPage() mapped is new, and zero. *)
LEMMA PageMappedImages ==
    ASSUME LoaderInv, ImagesInv, PageMapped
    PROVE  ImagesInv'
  <1>1. ld.asked /\ ~Mapping /\ UNCHANGED <<data, nextPpn, mapping>>
    BY DEF PageMapped
  <1>2. ld \in LdTypes /\ ld.pc \in {"stack", "pages"}
    BY <1>1, SegTypes DEF LoaderInv, CallMatches
  <1>3. \A p : Frame(p)' = Frame(p)
    BY <1>1 DEF Frame
  <1>4. CASE mapRes = "OK"
    <2>1. /\ ld' = [ld EXCEPT !.at = @ + 1, !.asked = FALSE]
          /\ mapped' = mapped \cup {ld.at} /\ UNCHANGED loaded
      BY <1>4 DEF PageMapped
    <2>2. /\ mapping[ld.at] = nextPpn - 1 /\ data[nextPpn - 1] = ZeroPage
          /\ \A v \in mapped : mapping[v] # nextPpn - 1
      BY <1>1, <1>4 DEF LoaderInv, MappingOK, ImagesInv, FrameFresh
    <2>3. /\ ld'.elf = ld.elf /\ ld'.seg = ld.seg /\ ld'.pc = ld.pc /\ ~ld'.asked
          /\ ld'.at = ld.at + 1
      BY <1>2, <2>1 DEF LdTypes
    <2>4. Segs' = Segs /\ Seg' = Seg /\ FirstPage' = FirstPage
      BY <2>3 DEF Segs, Seg, FirstPage
    <2>5. Images' = Images
      BY <2>1, <2>3, <2>4 DEF Images, Done, Loading
    <2>6. ImagesOK'
      BY <1>3, <2>1, <2>5, ImagesKept DEF ImagesInv
    <2>7. MappedOnce'
      BY <1>1, <2>1, <2>2 DEF ImagesInv, MappedOnce
    <2>8. WellFormed(ld.elf)' /\ FrameFresh' /\ CopyOK'
      <3>1. WellFormed(ld.elf)'
        BY <2>3 DEF ImagesInv, WellFormed
      <3>2. FrameFresh' /\ CopyOK'
        BY <1>2, <2>3 DEF FrameFresh, CopyOK
      <3> QED BY <3>1, <3>2
    <2>9. PagesFresh'
      <3>1. FirstPage \in Int
        <4>1. CASE ld.pc = "stack"
          BY <4>1, LoaderAssumption DEF FirstPage
        <4>2. CASE ld.pc # "stack"
          <5>1. Seg.vaddr \in Nat
            BY <1>2, <4>2, SegWellFormed DEF ImagesInv, ProgramHeaders
          <5> QED BY <4>2, <5>1, DivMod, LoaderAssumption DEF FirstPage
        <4> QED BY <4>1, <4>2
      <3>2. NewPages' \subseteq NewPages \cup {ld.at}
        <4>1. PICK f \in Int, a \in Int : f = FirstPage /\ a = ld.at
          BY <1>2, <3>1 DEF LdTypes
        <4>2. ld'.at - 1 = a
          BY <2>3, <4>1
        <4>3. NewPages' = f .. a /\ NewPages = f .. a - 1
          BY <2>4, <4>1, <4>2 DEF NewPages
        <4> QED BY <4>1, <4>3
      <3>3. OwnPages(NewPages) /\ \A p \in NewPages : Frame(p) = ZeroPage
        BY <1>2 DEF ImagesInv, PagesFresh
      <3>4. \A s \in Images : PagesOf(s) \subseteq mapped
        BY DEF ImagesInv, ImagesOK, ImageOK
      <3>5. ld.at \notin mapped
        BY <2>2
      <3>6. PICK P : P = NewPages'
        OBVIOUS
      <3>7. P \subseteq mapped' /\ \A s \in Images : PagesOf(s) \cap P = {}
        BY <2>1, <3>2, <3>3, <3>4, <3>5, <3>6 DEF OwnPages
      <3>8. OwnPages(P)'
        BY <2>5, <3>7 DEF OwnPages, PagesOf, Bytes, PageOf
      <3>9. \A p \in P : Frame(p)' = ZeroPage
        <4>1. Frame(ld.at) = ZeroPage
          BY <2>2 DEF Frame
        <4> QED BY <1>3, <3>2, <3>3, <3>6, <4>1
      <3> QED BY <3>6, <3>8, <3>9 DEF PagesFresh, ZeroPage, Offsets
    <2> QED BY <2>6, <2>7, <2>8, <2>9 DEF ImagesInv
  <1>5. CASE mapRes # "OK"
    <2>1. ld' = Idle /\ UNCHANGED mapped /\ loaded' = loaded
      BY <1>5 DEF PageMapped, Return
    <2>2. Images' \subseteq Images
      BY <2>1 DEF Images, Done, Loading, Idle
    <2> QED BY <1>1, <1>3, <2>1, <2>2, ImagesKept, IdleImages DEF ImagesInv
  <1> QED BY <1>4, <1>5

(* mapStack() returns OK: all of the stack is in memory. *)
LEMMA StackDoneImages ==
    ASSUME LoaderInv, ImagesInv, StackDone
    PROVE  ImagesInv'
  <1> USE LoaderAssumption
  <1>1. /\ ld.pc = "stack" /\ ld.at = STACK_BASE /\ ld' = Idle
        /\ loaded' = loaded \cup {StackSeg} /\ UNCHANGED <<data, mapping, mapped>>
    BY DEF StackDone, Return
  <1>2. PICK s : s = StackSeg
    OBVIOUS
  <1>3. PICK n \in Nat, m \in Nat :
            n = (STACK_BASE - STACK_SIZE) * PAGE_SIZE /\ m = STACK_SIZE * PAGE_SIZE
    OBVIOUS
  <1>4. s = [load |-> TRUE, vaddr |-> n, offset |-> 0, filesz |-> 0, memsz |-> m]
    BY <1>2, <1>3 DEF StackSeg
  <1>5. s \in ProgramHeaders
    BY <1>4 DEF ProgramHeaders
  <1>6. s.vaddr \div PAGE_SIZE = STACK_BASE - STACK_SIZE
    <2>1. n = PAGE_SIZE * (STACK_BASE - STACK_SIZE) + 0
      BY <1>3
    <2>2. STACK_BASE - STACK_SIZE \in Int /\ 0 \in 0 .. PAGE_SIZE - 1
      OBVIOUS
    <2>3. STACK_BASE - STACK_SIZE = n \div PAGE_SIZE
      BY <2>1, <2>2, DivModUnique
    <2> QED BY <1>4, <2>3
  <1>7. s.vaddr + s.memsz <= STACK_BASE * PAGE_SIZE
    <2>1. n + m = STACK_BASE * PAGE_SIZE
      BY <1>3
    <2> QED BY <1>4, <2>1
  <1>8. PagesOf(s) \subseteq NewPages
    <2>1. PagesOf(s) \subseteq s.vaddr \div PAGE_SIZE .. STACK_BASE - 1
      BY <1>5, <1>7, PagesOfSegment
    <2> QED BY <1>1, <1>6, <2>1 DEF NewPages, FirstPage
  <1>9. PagesOf(s) \subseteq mapped /\ \A p \in PagesOf(s) : Frame(p) = ZeroPage
    BY <1>1, <1>8 DEF ImagesInv, PagesFresh, OwnPages
  <1>10. BytesUpTo(s, s.filesz)
    <2>1. ASSUME NEW o \in Bytes(s)
          PROVE  o \in Nat /\ Frame(PageOf(s, o))[(s.vaddr + o) % PAGE_SIZE] = 0
      <3>1. o \in Nat /\ PageOf(s, o) \in PagesOf(s)
        BY <1>5 DEF Bytes, PagesOf, ProgramHeaders
      <3>2. (s.vaddr + o) % PAGE_SIZE \in Offsets
        BY <1>5, <3>1, ByteAt
      <3> QED BY <1>9, <3>1, <3>2 DEF ZeroPage
    <2>2. \A o \in Nat : ~(o < s.filesz)
      BY <1>4
    <2> QED BY <2>1, <2>2 DEF BytesUpTo
  <1>11. \A p : Frame(p)' = Frame(p)
    BY <1>1 DEF Frame
  <1>12. ImageOK(s)'
    BY <1>1, <1>5, <1>9, <1>10, <1>11, BytesStay DEF ImageOK, PagesOf, Bytes, PageOf
  <1>13. \A t \in Images : ImageOK(t)'
    BY <1>1, <1>11, ImagesStay DEF ImagesInv
  <1>14. ImagesOK'
    <2>1. Images' \subseteq Images \cup {s}
      BY <1>1, <1>2 DEF Images, Done, Loading, Idle
    <2> QED BY <1>12, <1>13, <2>1 DEF ImagesOK
  <1> QED BY <1>1, <1>14, IdleImages

(* The next segment, or the end of loadElf(): what it says it has loaded   *)
(* are the images of this call.                                            *)
LEMMA NextSegmentImages ==
    ASSUME LoaderInv, ImagesInv, NextSegment
    PROVE  ImagesInv'
  <1>1. ld.pc = "segment" /\ UNCHANGED <<data, mapping, nextPpn, mapped>> /\ ~ld.asked
    BY NotMapping DEF NextSegment
  <1>2. /\ ld \in LdTypes /\ Segs \in Seq(ProgramHeaders) /\ Len(Segs) \in Nat
        /\ ld.seg \in Nat \ {0} /\ DOMAIN Segs = 1 .. Len(Segs)
    BY SegTypes DEF LdTypes
  <1>3. \A p : Frame(p)' = Frame(p)
    BY <1>1 DEF Frame
  <1>4. Done = {Segs[i] : i \in {j \in 1 .. ld.seg - 1 : Segs[j].load}}
    BY <1>1 DEF Done, Loading
  <1>5. CASE ld.seg > Len(Segs) /\ Return("OK", {s \in Range(Segs) : s.load})
    <2>1. ld' = Idle /\ loaded' = loaded \cup {s \in Range(Segs) : s.load}
      BY <1>5 DEF Return
    <2>2. {s \in Range(Segs) : s.load} \subseteq Done
      <3>1. ASSUME NEW i \in DOMAIN Segs, Segs[i].load PROVE Segs[i] \in Done
        <4>1. i \in 1 .. ld.seg - 1
          BY <1>2, <1>5
        <4> QED BY <1>4, <3>1, <4>1
      <3> QED BY <3>1 DEF Range
    <2>3. Images' \subseteq Images
      BY <2>1, <2>2 DEF Images, Done, Loading, Idle
    <2> QED BY <1>1, <1>3, <2>1, <2>3, ImagesKept, IdleImages DEF ImagesInv
  <1>6. CASE ld.seg <= Len(Segs) /\ UNCHANGED loaded
             /\ ld' = IF Seg.load
                      THEN [ld EXCEPT !.pc = "pages", !.at = Seg.vaddr \div PAGE_SIZE]
                      ELSE [ld EXCEPT !.seg = @ + 1]
    <2>1. PICK n \in Nat : n = ld.seg
      BY <1>2
    <2>2. /\ ld'.elf = ld.elf /\ ~ld'.asked /\ ld'.pc \in {"pages", "segment"}
          /\ ld'.seg = n \/ (ld'.seg = n + 1 /\ ~Segs[n].load)
          /\ ld'.pc = "pages" => ld'.at = Seg.vaddr \div PAGE_SIZE /\ ld'.seg = n
      <3>1. CASE Seg.load
        BY <1>1, <1>2, <1>6, <2>1, <3>1 DEF LdTypes
      <3>2. CASE ~Seg.load
        BY <1>1, <1>2, <1>6, <2>1, <3>2 DEF LdTypes, Seg
      <3> QED BY <3>1, <3>2
    <2>3. Segs' = Segs
      BY <2>2 DEF Segs
    <2>4. Images' \subseteq Images
      <3>1. Done' = {Segs[i] : i \in {j \in 1 .. ld'.seg - 1 : Segs[j].load}}
        BY <2>2, <2>3 DEF Done, Loading
      <3>2. \A j \in 1 .. ld'.seg - 1 : Segs[j].load => j \in 1 .. n - 1
        BY <2>1, <2>2
      <3>3. Done' \subseteq Done
        BY <1>4, <2>1, <3>1, <3>2
      <3> QED BY <1>6, <3>3 DEF Images
    <2>5. ImagesOK'
      BY <1>1, <1>3, <2>4, ImagesKept DEF ImagesInv
    <2>6. MappedOnce' /\ FrameFresh' /\ CopyOK'
      BY <1>1, <2>2 DEF ImagesInv, MappedOnce, FrameFresh, CopyOK
    <2>7. WellFormed(ld.elf)'
      BY <2>2 DEF ImagesInv, WellFormed
    <2>8. PagesFresh'
      <3>1. CASE ld'.pc = "pages"
        <4>1. Seg' = Seg
          BY <2>1, <2>2, <2>3, <3>1 DEF Seg
        <4>2. PICK q \in Int : q = Seg.vaddr \div PAGE_SIZE
          <5>1. Seg.vaddr \in Nat
            BY <1>6, SegTypes DEF ProgramHeaders
          <5> QED BY <5>1, DivMod, LoaderAssumption
        <4>3. NewPages' = q .. q - 1
          BY <2>2, <3>1, <4>1, <4>2 DEF NewPages, FirstPage
        <4>4. NewPages' = {}
          BY <4>2, <4>3
        <4> QED BY <4>4 DEF PagesFresh, OwnPages
      <3> QED BY <2>2, <3>1 DEF PagesFresh
    <2> QED BY <2>5, <2>6, <2>7, <2>8 DEF ImagesInv
  <1> QED BY <1>5, <1>6 DEF NextSegment

(* The page loop is done: the segment's pages are new, and zero. *)
LEMMA PagesDoneImages ==
    ASSUME LoaderInv, ImagesInv, PagesDone
    PROVE  ImagesInv'
  <1>1. /\ ld.pc = "pages" /\ ~ld.asked /\ ~MorePages /\ ld' = [ld EXCEPT !.pc = "bytes", !.at = 0]
        /\ UNCHANGED <<data, mapping, nextPpn, mapped, loaded>>
    BY DEF PagesDone
  <1>2. ld \in LdTypes /\ Seg \in ProgramHeaders /\ ld.at \in Nat
    BY <1>1, SegTypes, SegWellFormed DEF ImagesInv, LdTypes
  <1>3. /\ ld'.elf = ld.elf /\ ld'.seg = ld.seg /\ ld'.at = 0 /\ ~ld'.asked /\ ld'.pc = "bytes"
        /\ Segs' = Segs /\ Seg' = Seg
    BY <1>1, <1>2 DEF LdTypes, Segs, Seg
  <1>4. Images' = Images
    BY <1>1, <1>3 DEF Images, Done, Loading
  <1>5. \A p : Frame(p)' = Frame(p)
    BY <1>1 DEF Frame
  <1>6. ImagesOK'
    BY <1>1, <1>4, <1>5, ImagesKept DEF ImagesInv
  <1>7. MappedOnce' /\ FrameFresh' /\ PagesFresh' /\ WellFormed(ld.elf)'
    <2>1. MappedOnce' /\ FrameFresh' /\ PagesFresh'
      BY <1>1, <1>3 DEF ImagesInv, MappedOnce, FrameFresh, PagesFresh
    <2>2. WellFormed(ld.elf)'
      BY <1>3 DEF ImagesInv, WellFormed
    <2> QED BY <2>1, <2>2
  <1>8. PICK s \in ProgramHeaders : s = Seg
    BY <1>2
  <1>9. PagesOf(s) \subseteq NewPages
    <2>1. s.vaddr + s.memsz <= ld.at * PAGE_SIZE
      <3>1. ld.at * PAGE_SIZE \in Nat /\ s.vaddr \in Nat /\ s.memsz \in Nat
        BY <1>2, LoaderAssumption DEF ProgramHeaders
      <3> QED BY <1>1, <1>8, <3>1 DEF MorePages
    <2>2. PagesOf(s) \subseteq s.vaddr \div PAGE_SIZE .. ld.at - 1
      BY <1>2, <2>1, PagesOfSegment
    <2> QED BY <1>1, <1>8, <2>2 DEF NewPages, FirstPage
  <1>10. OwnPages(PagesOf(s)) /\ \A p \in PagesOf(s) : Frame(p) = ZeroPage
    BY <1>1, <1>9 DEF ImagesInv, PagesFresh, OwnPages
  <1>11. BytesUpTo(s, 0)
    <2>1. ASSUME NEW o \in Bytes(s)
          PROVE  o \in Nat /\ Frame(PageOf(s, o))[(s.vaddr + o) % PAGE_SIZE] = 0
      <3>1. o \in Nat /\ PageOf(s, o) \in PagesOf(s)
        BY DEF Bytes, PagesOf, ProgramHeaders
      <3>2. (s.vaddr + o) % PAGE_SIZE \in Offsets
        BY <3>1, ByteAt
      <3> QED BY <1>10, <3>1, <3>2 DEF ZeroPage
    <2> QED BY <2>1 DEF BytesUpTo
  <1>12. CopyOK'
    <2>1. BytesUpTo(s, 0)'
      BY <1>5, <1>11, BytesStay
    <2>2. PICK P : P = PagesOf(s)
      OBVIOUS
    <2>3. OwnPages(P)'
      BY <1>1, <1>4, <1>10, <2>2, OwnPagesStay
    <2>4. PagesOf(Seg)' = P
      BY <1>3, <1>8, <2>2 DEF PagesOf, Bytes, PageOf
    <2> QED BY <1>3, <1>8, <2>1, <2>3, <2>4 DEF CopyOK
  <1> QED BY <1>6, <1>7, <1>12 DEF ImagesInv

(* The copy of a segment is done: the segment is an image now. *)
LEMMA SegmentDoneImages ==
    ASSUME LoaderInv, ImagesInv, SegmentDone
    PROVE  ImagesInv'
  <1>1. /\ ld.pc = "bytes" /\ ld.at >= Seg.filesz
        /\ ld' = [ld EXCEPT !.pc = "segment", !.seg = @ + 1]
        /\ UNCHANGED <<data, mapping, nextPpn, mapped, loaded>>
    BY DEF SegmentDone
  <1>2. /\ ld \in LdTypes /\ ~ld.asked /\ Seg \in ProgramHeaders
        /\ ld.at \in Nat /\ ld.seg \in Nat \ {0}
    BY <1>1, SegTypes, SegWellFormed, NotMapping DEF ImagesInv, LdTypes
  <1>3. PICK n \in Nat, s \in ProgramHeaders : n = ld.seg /\ n > 0 /\ s = Seg
    BY <1>2
  <1>4. /\ ld'.elf = ld.elf /\ ld'.seg = n + 1 /\ ~ld'.asked /\ ld'.pc = "segment" /\ Segs' = Segs
    BY <1>1, <1>2, <1>3 DEF LdTypes, Segs
  <1>5. Images' \subseteq Images \cup {s}
    <2>1. Done' = {Segs[i] : i \in {j \in 1 .. n + 1 - 1 : Segs[j].load}}
      BY <1>4 DEF Done, Loading
    <2>2. Done = {Segs[i] : i \in {j \in 1 .. n - 1 : Segs[j].load}}
      BY <1>1, <1>3 DEF Done, Loading
    <2>3. \A j \in 1 .. n + 1 - 1 : j = n \/ j \in 1 .. n - 1
      OBVIOUS
    <2>4. Segs[n] = s
      BY <1>3 DEF Seg
    <2> QED BY <1>1, <2>1, <2>2, <2>3, <2>4 DEF Images
  <1>6. \A p : Frame(p)' = Frame(p)
    BY <1>1 DEF Frame
  <1>7. OwnPages(PagesOf(s)) /\ BytesUpTo(s, ld.at)
    BY <1>1, <1>3 DEF ImagesInv, CopyOK
  <1>8. BytesUpTo(s, s.filesz)
    <2>1. s.filesz \in Nat /\ s.filesz <= ld.at /\ \A o \in Bytes(s) : o \in Nat
      BY <1>1, <1>2, <1>3 DEF ProgramHeaders, Bytes
    <2>2. \A o \in Bytes(s) : o < s.filesz /\ o < ld.at <=> o < s.filesz /\ o < s.filesz
      BY <1>2, <2>1
    <2> QED BY <1>7, <2>2 DEF BytesUpTo
  <1>9. ImageOK(s)'
    <2>1. BytesUpTo(s, s.filesz)'
      BY <1>6, <1>8, BytesStay
    <2> QED BY <1>1, <1>7, <2>1 DEF ImageOK, OwnPages, PagesOf, Bytes, PageOf
  <1>10. ImagesOK'
    <2>1. \A t \in Images : ImageOK(t)'
      BY <1>1, <1>6, ImagesStay DEF ImagesInv
    <2> QED BY <1>5, <1>9, <2>1 DEF ImagesOK
  <1>11. MappedOnce' /\ FrameFresh' /\ PagesFresh' /\ CopyOK' /\ WellFormed(ld.elf)'
    <2>1. MappedOnce' /\ FrameFresh' /\ PagesFresh' /\ CopyOK'
      BY <1>1, <1>4 DEF ImagesInv, MappedOnce, FrameFresh, PagesFresh, CopyOK
    <2>2. WellFormed(ld.elf)'
      BY <1>4 DEF ImagesInv, WellFormed
    <2> QED BY <2>1, <2>2
  <1> QED BY <1>10, <1>11 DEF ImagesInv

(* Where a byte of the segment is, seen from the copy: in the page of the  *)
(* copy at its distance from the copy's start, or in another page and not  *)
(* one of the copied bytes.                                                *)
LEMMA CopiedBytes ==
    ASSUME NEW s \in ProgramHeaders, NEW at \in Nat, NEW vpn \in Nat, NEW off \in Offsets,
           NEW n \in Nat, s.vaddr + at = PAGE_SIZE * vpn + off, n <= PAGE_SIZE - off,
           NEW o \in Nat
    PROVE  /\ PageOf(s, o) = vpn => (s.vaddr + o) % PAGE_SIZE = off + o - at
           /\ o \in at .. at + n - 1 => PageOf(s, o) = vpn
  <1> USE LoaderAssumption
  <1>1. s.vaddr \in Nat /\ off \in Nat
    BY DEF ProgramHeaders, Offsets
  <1>2. PICK q \in Nat, r \in Nat :
            q = PageOf(s, o) /\ r = (s.vaddr + o) % PAGE_SIZE /\ s.vaddr + o = PAGE_SIZE * q + r
    BY ByteAt DEF Offsets
  <1>3. PAGE_SIZE * vpn \in Nat /\ PAGE_SIZE * q \in Nat
    OBVIOUS
  <1>4. q = vpn => r = off + o - at
    BY <1>1, <1>2, <1>3
  <1>5. ASSUME o \in at .. at + n - 1 PROVE PageOf(s, o) = vpn
    <2>1. off + o - at \in 0 .. PAGE_SIZE - 1
      BY <1>1, <1>5
    <2>2. s.vaddr + o = PAGE_SIZE * vpn + (off + o - at)
      BY <1>1, <1>3
    <2>3. s.vaddr + o \in Int /\ PAGE_SIZE > 0
      BY <1>1
    <2>4. vpn = (s.vaddr + o) \div PAGE_SIZE
      BY <2>1, <2>2, <2>3, DivModUnique
    <2> QED BY <2>4 DEF PageOf
  <1> QED BY <1>2, <1>4, <1>5

(* A copy: the file's bytes come in, the int that is written at the page's *)
(* start wipes out none of them, and no other image is touched.            *)
LEMMA CopyPageImages ==
    ASSUME LoaderInv, ImagesInv, CopyPage
    PROVE  ImagesInv'
  <1> USE LoaderAssumption
  <1>1. /\ ld.pc = "bytes" /\ ld.at < Seg.filesz
        /\ UNCHANGED <<mapping, nextPpn, mapped, loaded>>
    BY DEF CopyPage
  <1>2. ld \in LdTypes /\ ~ld.asked /\ Seg \in ProgramHeaders /\ Seg.filesz <= Seg.memsz
    BY <1>1, SegTypes, SegWellFormed, NotMapping DEF ImagesInv
  <1>3. PICK s \in ProgramHeaders, at \in Nat : s = Seg /\ at = ld.at
    BY <1>2 DEF LdTypes
  <1>4. PICK va, vpn, off, n \in Nat : CopyAt(va, vpn, off, n)
    BY CopyPlace
  <1>5. /\ s.vaddr \in Nat /\ s.filesz \in Nat /\ s.memsz \in Nat /\ s.offset \in Nat
        /\ at < s.filesz /\ s.filesz <= s.memsz /\ at \in Bytes(s)
    BY <1>1, <1>2, <1>3 DEF ProgramHeaders, Bytes
  <1>6. /\ s.vaddr + at = PAGE_SIZE * vpn + off /\ vpn = PageOf(s, at)
        /\ off = (s.vaddr + at) % PAGE_SIZE /\ off \in Offsets
        /\ n > 0 /\ n <= PAGE_SIZE - off /\ n <= s.filesz - at
        /\ n = PAGE_SIZE - off \/ n = s.filesz - at
    BY <1>3, <1>4 DEF CopyAt, PageOf
  <1>7. /\ mapping \in [DOMAIN mapping -> DOMAIN data] /\ mapped \subseteq DOMAIN mapping
        /\ data \in [DOMAIN data -> [Offsets -> Nat]]
    BY DEF LoaderInv, LoaderTypes
  <1>8. /\ OwnPages(PagesOf(s)) /\ BytesUpTo(s, at)
        /\ at = 0 \/ at >= s.filesz \/ (s.vaddr + at) % PAGE_SIZE = 0
    BY <1>1, <1>3 DEF ImagesInv, CopyOK
  <1>9. vpn \in PagesOf(s) /\ vpn \in mapped /\ PagesOf(s) \subseteq mapped
    BY <1>5, <1>6, <1>8 DEF OwnPages, PagesOf
  <1>10. PICK f : f = [o \in Offsets |->
                          IF o \in off .. off + n - 1 THEN FileByte(s.offset + at + o - off)
                          ELSE IF o < INT_SIZE THEN 0 ELSE data[mapping[vpn]][o]]
    OBVIOUS
  <1>11. data' = [data EXCEPT ![mapping[vpn]] = f] /\ ld' = [ld EXCEPT !.at = @ + n]
    BY <1>3, <1>4, <1>7, <1>9, <1>10 DEF CopyAt
  <1>12. /\ ld'.elf = ld.elf /\ ld'.seg = ld.seg /\ ld'.pc = "bytes" /\ ~ld'.asked
         /\ ld'.at = at + n /\ Segs' = Segs /\ Seg' = s
    BY <1>1, <1>2, <1>3, <1>11 DEF LdTypes, Segs, Seg
  <1>13. Images' = Images
    BY <1>1, <1>12 DEF Images, Done, Loading
  <1>14. Frame(vpn)' = f /\ \A p \in mapped : p # vpn => Frame(p)' = Frame(p)
    <2>1. \A p \in mapped : p # vpn => mapping[p] # mapping[vpn]
      BY <1>9 DEF ImagesInv, MappedOnce
    <2> QED BY <1>1, <1>7, <1>9, <1>11, <2>1 DEF Frame
  <1>15. ImagesOK'
    <2>1. \A t \in Images : \A p \in PagesOf(t) : p \in mapped /\ p # vpn
      BY <1>8, <1>9 DEF ImagesInv, ImagesOK, ImageOK, OwnPages
    <2>2. \A t \in Images : ImageOK(t)'
      BY <1>1, <1>14, <2>1, ImagesStay DEF ImagesInv
    <2> QED BY <1>13, <2>2 DEF ImagesOK
  <1>16. ASSUME NEW o \in Bytes(s)
         PROVE  Frame(PageOf(s, o))'[(s.vaddr + o) % PAGE_SIZE] =
                    IF o < s.filesz /\ o < at + n THEN FileByte(s.offset + o) ELSE 0
    <2>1. o \in Nat /\ PageOf(s, o) \in PagesOf(s)
      BY <1>5 DEF Bytes, PagesOf
    <2>2. Frame(PageOf(s, o))[(s.vaddr + o) % PAGE_SIZE] =
              IF o < s.filesz /\ o < at THEN FileByte(s.offset + o) ELSE 0
      BY <1>8 DEF BytesUpTo
    <2>3. /\ PageOf(s, o) = vpn => (s.vaddr + o) % PAGE_SIZE = off + o - at
          /\ o \in at .. at + n - 1 => PageOf(s, o) = vpn
      <3>1. s.vaddr + at = PAGE_SIZE * vpn + off /\ n <= PAGE_SIZE - off /\ off \in Offsets
        BY <1>6
      <3> QED BY <2>1, <3>1, CopiedBytes
    <2>4. CASE PageOf(s, o) # vpn
      <3>1. Frame(PageOf(s, o))' = Frame(PageOf(s, o))
        BY <1>9, <1>14, <2>1, <2>4
      <3>2. o < at <=> o < at + n
        BY <2>1, <2>3, <2>4
      <3> QED BY <2>2, <3>1, <3>2
    <2>5. CASE PageOf(s, o) = vpn
      <3>1. PICK r \in Offsets : r = (s.vaddr + o) % PAGE_SIZE
        BY <2>1, ByteAt
      <3>2. r \in Nat /\ r = off + o - at
        BY <2>3, <2>5, <3>1 DEF Offsets
      <3>3. o >= at
        <4>1. SUFFICES ASSUME o < at PROVE FALSE
          BY <2>1
        <4>2. off = 0
          BY <1>5, <1>6, <1>8, <2>1, <4>1
        <4> QED BY <2>1, <3>2, <4>1, <4>2
      <3>4. Frame(PageOf(s, o))'[r] = f[r]
        BY <1>14, <2>5
      <3>5. CASE o < at + n
        <4>1. r \in off .. off + n - 1 /\ s.offset + at + r - off = s.offset + o /\ o < s.filesz
          <5>1. o \in Nat /\ r \in Nat /\ r = off + o - at /\ o >= at /\ o < at + n
            BY <2>1, <3>2, <3>3, <3>5
          <5>2. s.offset \in Nat /\ s.filesz \in Nat /\ n <= s.filesz - at
            BY <1>5, <1>6
          <5> QED BY <5>1, <5>2
        <4>2. f[r] = FileByte(s.offset + at + r - off)
          BY <1>10, <4>1
        <4> QED BY <3>1, <3>4, <3>5, <4>1, <4>2
      <3>6. CASE ~(o < at + n)
        <4>1. r \notin off .. off + n - 1 /\ ~(o < at)
          BY <2>1, <3>2, <3>3, <3>6
        <4>2. f[r] = IF r < INT_SIZE THEN 0 ELSE data[mapping[vpn]][r]
          BY <1>10, <4>1
        <4>3. data[mapping[vpn]][r] = 0
          BY <2>2, <2>5, <3>1, <4>1 DEF Frame
        <4> QED BY <3>1, <3>4, <3>6, <4>2, <4>3
      <3> QED BY <3>5, <3>6
    <2> QED BY <2>4, <2>5
  <1>17. CopyOK'
    <2>1. BytesUpTo(s, at + n)'
      BY <1>16 DEF BytesUpTo, Bytes, PageOf, FileByte
    <2>2. PICK P : P = PagesOf(s)
      OBVIOUS
    <2>3. OwnPages(P)'
      BY <1>1, <1>8, <1>13, <2>2, OwnPagesStay
    <2>4. PagesOf(Seg)' = P
      BY <1>12, <2>2 DEF PagesOf, Bytes, PageOf
    <2>5. at + n >= s.filesz \/ (s.vaddr + (at + n)) % PAGE_SIZE = 0
      <3>1. CASE n = s.filesz - at
        BY <1>5, <3>1
      <3>2. CASE n = PAGE_SIZE - off
        <4>1. PAGE_SIZE * vpn \in Nat /\ off \in Nat
          BY <1>6 DEF Offsets
        <4>2. PICK w \in Nat : w = PAGE_SIZE * vpn /\ s.vaddr + at = w + off
          BY <1>6, <4>1
        <4>3. s.vaddr + (at + n) = PAGE_SIZE * (vpn + 1) + 0
          <5>1. s.vaddr + (at + n) = w + PAGE_SIZE
            BY <1>5, <3>2, <4>1, <4>2
          <5> QED BY <4>2, <5>1
        <4>4. s.vaddr + (at + n) \in Int /\ vpn + 1 \in Int /\ 0 \in 0 .. PAGE_SIZE - 1
          BY <1>5
        <4>5. 0 = (s.vaddr + (at + n)) % PAGE_SIZE
          BY <4>3, <4>4, DivModUnique
        <4> QED BY <4>5
      <3> QED BY <1>6, <3>1, <3>2
    <2>6. OwnPages(PagesOf(Seg))' /\ BytesUpTo(Seg, ld.at)'
      BY <1>12, <2>1, <2>3, <2>4
    <2>7. (ld.at >= Seg.filesz \/ (Seg.vaddr + ld.at) % PAGE_SIZE = 0)'
      BY <1>12, <2>5
    <2> QED BY <2>6, <2>7 DEF CopyOK
  <1>18. MappedOnce' /\ FrameFresh' /\ PagesFresh' /\ WellFormed(ld.elf)'
    <2>1. MappedOnce' /\ FrameFresh' /\ PagesFresh'
      BY <1>1, <1>12 DEF ImagesInv, MappedOnce, FrameFresh, PagesFresh
    <2>2. WellFormed(ld.elf)'
      BY <1>12 DEF ImagesInv, WellFormed
    <2> QED BY <2>1, <2>2
  <1> QED BY <1>15, <1>17, <1>18 DEF ImagesInv

(* Every step keeps the images. *)
LEMMA LoaderActsImages ==
    ASSUME LoaderInv, ImagesInv, LoaderActs,
           \A elf \in Elfs \cup MainElfs : WellFormed(elf)
    PROVE  ImagesInv'
  <1>1. CASE \E elf \in Elfs \cup MainElfs : loadElf(elf)
    BY <1>1, CallImages, LoaderAssumption, SimAppAssumption
  <1>2. CASE StackPage \/ SegmentPage
    BY <1>2, MapPageImages DEF StackPage, SegmentPage
  <1>3. CASE UNCHANGED <<mem, mapperVars, loaderVars>>
    <2>1. UNCHANGED <<data, nextPpn, mapping, ld, ldRes, calls, mapped, loaded, call, mapRes>>
      BY <1>3 DEF loaderVars, mapperVars
    <2>2. Images' = Images /\ Segs' = Segs /\ Seg' = Seg /\ NewPages' = NewPages
      BY <2>1 DEF Images, Done, Loading, Segs, Seg, NewPages, FirstPage
    <2>3. ImagesOK'
      BY <2>1, <2>2, ImagesKept DEF ImagesInv, Frame
    <2>4. MappedOnce' /\ FrameFresh' /\ WellFormed(ld.elf)'
      BY <2>1 DEF ImagesInv, MappedOnce, FrameFresh, Mapping, WellFormed
    <2>5. PagesFresh'
      BY <2>1, <2>2 DEF ImagesInv, PagesFresh, OwnPages, Frame, ZeroPage, Offsets
    <2>6. CopyOK'
      BY <2>1, <2>2 DEF ImagesInv, CopyOK, OwnPages, BytesUpTo, Frame
    <2> QED BY <2>3, <2>4, <2>5, <2>6 DEF ImagesInv
  <1> QED BY <1>1, <1>2, <1>3, CallImages, MapRunsImages, PageMappedImages, StackDoneImages,
             NextSegmentImages, PagesDoneImages, SegmentDoneImages, CopyPageImages
          DEF LoaderActs

(* Nothing is loaded at the start. *)
LEMMA InitImages ==
    ASSUME Init
    PROVE  ImagesInv
  <1>1. ld = Idle /\ mapped = {} /\ loaded = {}
    BY DEF Init, LoaderInit
  <1>2. Images = {}
    BY <1>1 DEF Images, Done, Loading, Idle
  <1>3. ld.pc = "idle" /\ ~ld.asked /\ ld.elf = NoFile
    BY <1>1 DEF Idle
  <1>4. WellFormed(ld.elf)
    BY <1>3 DEF WellFormed, NoFile
  <1> QED BY <1>1, <1>2, <1>3, <1>4 DEF ImagesInv, ImagesOK, MappedOnce, FrameFresh,
                                        PagesFresh, CopyOK

(* With well-formed files the images are right in every state. *)
LEMMA SpecImages ==
    ASSUME \A elf \in Elfs \cup MainElfs : WellFormed(elf)
    PROVE  Spec => [](FramesLeft => ImagesInv)
  <1> DEFINE I == nextPpn \in Nat /\ (FramesLeft => LoaderInv)
             J == FramesLeft => ImagesInv
  <1>1. Init => J
    BY InitImages
  <1>2. I /\ J /\ [Next]_vars => J'
    <2> SUFFICES ASSUME I, J, [Next]_vars, FramesLeft' PROVE ImagesInv'
      OBVIOUS
    <2>1. LoaderActs
      BY NextActs
    <2>2. FramesLeft
      BY <2>1, FramesGrow, PageTablesAssumption DEF FramesLeft
    <2> QED BY <2>1, <2>2, LoaderActsImages
  <1>3. Spec => []I
    BY SpecInv
  <1> QED BY <1>1, <1>2, <1>3, PTL DEF Spec

(* What is in the frames is what the guest sees. *)
LEMMA ImagesSeen ==
    ASSUME LoaderInv, ImagesInv
    PROVE  ImagesIntact
  <1> SUFFICES ASSUME NEW s \in loaded, NEW o \in 0 .. s.memsz - 1
               PROVE  GuestByte(s.vaddr + o) =
                          IF o < s.filesz THEN FileByte(s.offset + o) ELSE 0
    BY DEF ImagesIntact, InMemory
  <1>1. s \in ProgramHeaders /\ PagesOf(s) \subseteq mapped /\ BytesUpTo(s, s.filesz)
    BY DEF ImagesInv, ImagesOK, ImageOK, Images
  <1>2. o \in Bytes(s)
    BY DEF Bytes
  <1>3. PICK p \in mapped : p = PageOf(s, o)
    BY <1>1, <1>2 DEF PagesOf
  <1>4. /\ Canonical(VpnFields(p)) \in DOMAIN Space
        /\ Space[Canonical(VpnFields(p))].ppn = mapping[p]
    BY DEF LoaderInv, MappingOK, MappingAgrees
  <1>5. mapping[p] \in DOMAIN data
    BY DEF LoaderInv, LoaderTypes
  <1>6. GuestByte(s.vaddr + o) = data[mapping[p]][(s.vaddr + o) % PAGE_SIZE]
    BY <1>3, <1>4, <1>5 DEF GuestByte, PageOf
  <1>7. data[mapping[p]][(s.vaddr + o) % PAGE_SIZE] =
            IF o < s.filesz THEN FileByte(s.offset + o) ELSE 0
    BY <1>1, <1>2, <1>3 DEF BytesUpTo, Frame
  <1> QED BY <1>6, <1>7

(* Whatever well-formed files are loaded, in whatever order and after      *)
(* whatever failures: as long as page numbers fit a PTE, what a call that  *)
(* returned OK has loaded is in the guest's memory, every byte of it, and  *)
(* stays there.                                                            *)
THEOREM ImagesAlwaysIntact ==
    ASSUME \A elf \in Elfs \cup MainElfs : WellFormed(elf)
    PROVE  Spec => [](FramesLeft => ImagesIntact)
  <1>1. LoaderInv /\ ImagesInv => ImagesIntact
    BY ImagesSeen
  <1>2. Spec => [](nextPpn \in Nat /\ (FramesLeft => LoaderInv))
    BY SpecInv
  <1>3. Spec => [](FramesLeft => ImagesInv)
    BY SpecImages
  <1> QED BY <1>1, <1>2, <1>3, PTL

-----------------------------------------------------------------------------
(* main() starts the guest only when both calls returned OK, unless        *)
(* assertions are off.                                                     *)
AppOK ==
    /\ app.pc \in {"start", "file", "guest"} => ld.pc = "idle"
    /\ app.pc = "stack" => \/ ld.pc = "stack"
                           \/ ld.pc = "idle" /\ (ldRes = "OK" => StackSeg \in loaded)
    /\ ~NDEBUG /\ app.pc \in {"file", "load", "guest"} =>
        app.sp = STACK_BASE * PAGE_SIZE /\ StackSeg \in loaded
    /\ ~NDEBUG /\ app.pc = "guest" => ldRes = "OK"

(* The loader moves only while a call runs. *)
LEMMA LoaderBusy ==
    ASSUME LoaderInv, LoaderStep
    PROVE  ld.pc \notin {"idle", "aborted"}
  <1>1. ld.asked => ld.pc \in {"stack", "pages"}
    BY DEF LoaderInv, CallMatches
  <1> QED BY <1>1 DEF LoaderStep, MapRuns, PageMapped, StackPage, StackDone, NextSegment,
                      SegmentPage, PagesDone, CopyPage, SegmentDone

(* What was loaded stays on the list. *)
LEMMA LoadedGrows ==
    ASSUME LoaderActs
    PROVE  loaded \subseteq loaded'
  <1>1. CASE MapRuns \/ UNCHANGED <<mem, mapperVars, loaderVars>>
    BY <1>1 DEF MapRuns, loaderVars
  <1>2. CASE StackPage \/ SegmentPage
    BY <1>2 DEF StackPage, SegmentPage, mapPage
  <1>3. CASE PageMapped \/ StackDone \/ NextSegment
    BY <1>3 DEF PageMapped, StackDone, NextSegment, Return
  <1> QED BY <1>1, <1>2, <1>3 DEF LoaderActs, mapStack, loadElf, PagesDone, SegmentDone, CopyPage

(* mapStack() goes on, or returns, and OK only with the stack mapped. *)
LEMMA StackCall ==
    ASSUME LoaderInv, LoaderStep, ld.pc = "stack"
    PROVE  \/ ld'.pc = "stack"
           \/ ld'.pc = "idle" /\ (ldRes' = "OK" => StackSeg \in loaded')
  <1>1. ld \in LdTypes
    BY SegTypes
  <1>2. CASE MapRuns
    BY <1>2 DEF MapRuns, loaderVars
  <1>3. CASE PageMapped
    <2>1. \/ ld' = [ld EXCEPT !.at = @ + 1, !.asked = FALSE]
          \/ ld' = Idle /\ ldRes' # "OK"
      BY <1>3 DEF PageMapped, Return
    <2>2. CASE ld' = [ld EXCEPT !.at = @ + 1, !.asked = FALSE]
      BY <1>1, <2>2 DEF LdTypes
    <2>3. CASE ld' = Idle /\ ldRes' # "OK"
      BY <2>3 DEF Idle
    <2> QED BY <2>1, <2>2, <2>3
  <1>4. CASE StackPage
    BY <1>1, <1>4 DEF StackPage, mapPage, LdTypes
  <1>5. CASE StackDone
    BY <1>5 DEF StackDone, Return, Idle
  <1> QED BY <1>2, <1>3, <1>4, <1>5 DEF LoaderStep, NextSegment, SegmentPage, PagesDone,
                                        CopyPage, SegmentDone

(* Every step keeps that. *)
LEMMA AppStepOK ==
    ASSUME LoaderInv, AppTypes, AppOK, [Next]_vars
    PROVE  AppOK'
  <1>1. loaded \subseteq loaded' /\ StackSeg' = StackSeg
    BY NextActs, LoadedGrows DEF StackSeg
  <1>2. CASE MainMapsStack
    <2>1. app'.pc = "stack" /\ ld'.pc = "stack"
      BY <1>2 DEF MainMapsStack, mapStack, AppTypes, Idle
    <2> QED BY <2>1 DEF AppOK
  <1>3. CASE StackStatus
    <2>1. /\ app.pc = "stack" /\ ld.pc = "idle" /\ UNCHANGED <<ld, ldRes, loaded>>
          /\ Asserted([app EXCEPT !.pc = "file",
                            !.sp = IF ldRes = "OK" THEN STACK_BASE * PAGE_SIZE ELSE 0])
      BY <1>3 DEF StackStatus, loaderVars
    <2>2. ldRes = "OK" => StackSeg \in loaded
      BY <2>1 DEF AppOK
    <2>3. CASE ldRes = "OK"
      <3>1. app' = [app EXCEPT !.pc = "file", !.sp = STACK_BASE * PAGE_SIZE]
        BY <2>1, <2>3 DEF Asserted, Passes
      <3>2. app'.pc = "file" /\ app'.sp = STACK_BASE * PAGE_SIZE
        BY <3>1 DEF AppTypes
      <3> QED BY <1>1, <2>1, <2>2, <2>3, <3>2 DEF AppOK
    <2>4. CASE ldRes # "OK" /\ NDEBUG
      <3>1. app' = [app EXCEPT !.pc = "file", !.sp = 0]
        BY <2>1, <2>4 DEF Asserted, Passes
      <3>2. app'.pc = "file"
        BY <3>1 DEF AppTypes
      <3> QED BY <2>1, <2>4, <3>2 DEF AppOK
    <2>5. CASE ldRes # "OK" /\ ~NDEBUG
      <3>1. app' = [app EXCEPT !.pc = "aborted"]
        BY <2>1, <2>5 DEF Asserted, Passes
      <3>2. app'.pc = "aborted"
        BY <3>1 DEF AppTypes
      <3> QED BY <3>2 DEF AppOK
    <2> QED BY <2>3, <2>4, <2>5
  <1>4. ASSUME NEW elf \in MainElfs, MainLoads(elf) PROVE AppOK'
    <2>1. PICK n : app' = [app EXCEPT !.pc = "load", !.startPc = n]
      BY <1>4 DEF MainLoads
    <2>2. app'.pc = "load" /\ app'.sp = app.sp /\ app.pc = "file"
      BY <1>4, <2>1 DEF MainLoads, AppTypes
    <2> QED BY <1>1, <2>2 DEF AppOK
  <1>5. CASE MainRuns
    <2>1. /\ app.pc = "load" /\ ld.pc = "idle" /\ UNCHANGED <<ld, ldRes, loaded>>
      BY <1>5 DEF MainRuns, loaderVars
    <2>2. CASE ldRes = "OK" \/ NDEBUG
      <3>1. PICK n : app' = [app EXCEPT !.pc = "guest", !.startPc = n]
        BY <1>5, <2>2 DEF MainRuns, Asserted, Passes
      <3>2. app'.pc = "guest" /\ app'.sp = app.sp
        BY <3>1 DEF AppTypes
      <3> QED BY <1>1, <2>1, <2>2, <3>2 DEF AppOK
    <2>3. CASE ~(ldRes = "OK" \/ NDEBUG)
      <3>1. app' = [app EXCEPT !.pc = "aborted"]
        BY <1>5, <2>3 DEF MainRuns, Asserted, Passes
      <3>2. app'.pc = "aborted"
        BY <3>1 DEF AppTypes
      <3> QED BY <3>2 DEF AppOK
    <2> QED BY <2>2, <2>3
  <1>6. CASE Client
    BY <1>6 DEF Client, AppOK
  <1>7. CASE Loader
    <2>1. LoaderStep /\ UNCHANGED app
      BY <1>7 DEF Loader
    <2>2. ld.pc \notin {"idle", "aborted"}
      BY <2>1, LoaderBusy
    <2>3. CASE app.pc = "stack"
      <3>1. ld.pc = "stack"
        BY <2>2, <2>3 DEF AppOK
      <3>2. \/ ld'.pc = "stack"
            \/ ld'.pc = "idle" /\ (ldRes' = "OK" => StackSeg \in loaded')
        BY <2>1, <3>1, StackCall
      <3> QED BY <1>1, <2>1, <2>3, <3>2 DEF AppOK
    <2>4. CASE app.pc # "stack"
      BY <1>1, <2>1, <2>2, <2>4 DEF AppOK
    <2> QED BY <2>3, <2>4
  <1>8. CASE Guest \/ UNCHANGED vars
    <2>1. UNCHANGED <<loaderVars, app>>
      BY <1>8 DEF Guest, GuestTranslates, GuestWalks, vars
    <2> QED BY <1>1, <2>1 DEF AppOK, loaderVars
  <1> QED BY <1>2, <1>3, <1>4, <1>5, <1>6, <1>7, <1>8 DEF Next, MainStep

(* With well-formed files and assertions compiled in, as long as page      *)
(* numbers fit a PTE: when main() starts the guest, both calls of the      *)
(* loader returned OK, sp is the top of a stack that is mapped, and every  *)
(* byte of the file's segments is where the guest will look for it.        *)
THEOREM GuestAlwaysLoaded ==
    ASSUME \A elf \in Elfs \cup MainElfs : WellFormed(elf), ~NDEBUG
    PROVE  Spec => [](FramesLeft => GuestRunsLoaded)
  <1> DEFINE I == nextPpn \in Nat /\ (FramesLeft => LoaderInv)
             A == FramesLeft => AppOK
  <1>1. Init => A
    BY DEF Init, AppOK, LoaderInit, Idle
  <1>2. I /\ AppTypes /\ A /\ [Next]_vars => A'
    <2> SUFFICES ASSUME I, AppTypes, A, [Next]_vars, FramesLeft' PROVE AppOK'
      OBVIOUS
    <2>1. FramesLeft
      BY NextActs, FramesGrow, PageTablesAssumption DEF FramesLeft
    <2> QED BY <2>1, AppStepOK
  <1>3. Spec => []I
    BY SpecInv
  <1>4. Spec => [](FramesLeft => ImagesIntact)
    BY ImagesAlwaysIntact
  <1>5. AppOK /\ ImagesIntact => GuestRunsLoaded
    BY DEF AppOK, ImagesIntact, GuestRunsLoaded
  <1> QED BY <1>1, <1>2, <1>3, <1>4, <1>5, AppTypeCorrect, PTL DEF Spec

-----------------------------------------------------------------------------
(* Where the guest's accesses go. *)

(* No page is mapped but those that mapPage() returned OK for, or has just *)
(* been told OK for.                                                       *)
SpaceMapped ==
    \A c \in DOMAIN Space :
        \/ \E v \in mapped : Canon(v) = c
        \/ ld.asked /\ ~Mapping /\ mapRes = "OK" /\ c = Canon(ld.at)

(* What the guest's walks rest on: the satp that main() made, and a table  *)
(* that the address at hand leads to.                                      *)
GuestInv ==
    /\ MmuTypeOK
    /\ mstatus = [mxr |-> FALSE, sum |-> FALSE]
    /\ app.pc = "guest" => satp = satp64
    /\ app.pc # "guest" => walk.pc = "idle" /\ res.status = "none"
    /\ walk.pc = "walk" => /\ walk.priv = "USER" /\ walk.table \in DOMAIN path
                           /\ path[walk.table] = Above(walk.va, walk.i)
    /\ GuestSeesLoader

(* The loader keeps the one. *)
LEMMA SpaceMappedKept ==
    ASSUME LoaderInv, SpaceMapped, LoaderActs, FramesLeft'
    PROVE  SpaceMapped'
  <1>1. CASE StackPage \/ SegmentPage
    <2>1. /\ ~ld.asked /\ map({"U", "R", "W", "X"}, VpnFields(ld.at), nextPpn)
          /\ nextPpn' = nextPpn + 1 /\ UNCHANGED mapped
      BY <1>1 DEF StackPage, SegmentPage, mapPage, FrameAfter
    <2>2. nextPpn \in 0 .. PPN_SIZE - 1 /\ VpnFields(ld.at) \in VirtPages
      <3>1. nextPpn \in Nat /\ ld.at \in Nat
        BY DEF LoaderInv, LoaderTypes
      <3> QED BY <2>1, <3>1, FieldsType, PageTablesAssumption DEF FramesLeft
    <2>3. {"U", "R", "W", "X"} \in SUBSET PTEFlags
      BY DEF PTEFlags
    <2>4. Space' = Space
      BY <2>1, <2>2, <2>3, MapInv DEF LoaderInv
    <2> QED BY <2>1, <2>4 DEF SpaceMapped, Canon
  <1>2. CASE MapRuns
    <2>1. ld.asked /\ MapStep /\ UNCHANGED <<ld, mapped>>
      BY <1>2 DEF MapRuns, loaderVars
    <2>2. Mapping /\ call.vpn = VpnFields(ld.at)
      BY <2>1, MapStepEffect DEF LoaderInv, CallMatches
    <2>3. \A c \in DOMAIN Space : \E v \in mapped : Canon(v) = c
      BY <2>2 DEF SpaceMapped
    <2>4. CASE Space' = Space
      BY <2>1, <2>3, <2>4 DEF SpaceMapped, Canon
    <2>5. CASE /\ ~Mapping' /\ mapRes' = "OK"
               /\ DOMAIN Space' = DOMAIN Space \cup {Canonical(call.vpn)}
      BY <2>1, <2>2, <2>3, <2>5 DEF SpaceMapped, Canon
    <2> QED BY <2>1, <2>4, <2>5, MapStepEffect DEF LoaderInv
  <1>3. CASE PageMapped
    <2>1. /\ UNCHANGED <<mem, mapperVars>>
          /\ mapped' = IF mapRes = "OK" THEN mapped \cup {ld.at} ELSE mapped
      BY <1>3 DEF PageMapped
    <2>2. Space' = Space
      BY <2>1, MapperKept DEF LoaderInv
    <2> QED BY <2>1, <2>2 DEF SpaceMapped, Canon
  <1>4. CASE UNCHANGED <<mem, mapperVars, loaderVars>>
    <2>1. Space' = Space /\ (Mapping' <=> Mapping)
      BY <1>4, MapperKept DEF LoaderInv
    <2> QED BY <1>4, <2>1 DEF SpaceMapped, Canon, loaderVars, mapperVars
  <1>5. CASE \/ mapStack \/ \E elf \in Elfs \cup MainElfs : loadElf(elf)
             \/ StackDone \/ NextSegment \/ PagesDone \/ SegmentDone \/ CopyPage
    <2>1. UNCHANGED <<mem, mapperVars, mapped>>
      BY <1>5 DEF mapStack, loadElf, StackDone, NextSegment, PagesDone, SegmentDone, CopyPage
    <2>2. ~ld.asked
      BY <1>5, NotMapping
         DEF mapStack, loadElf, StackDone, NextSegment, PagesDone, SegmentDone, CopyPage
    <2>3. Space' = Space
      BY <2>1, MapperKept DEF LoaderInv
    <2> QED BY <2>1, <2>2, <2>3 DEF SpaceMapped, Canon
  <1> QED BY <1>1, <1>2, <1>3, <1>4, <1>5 DEF LoaderActs

(* The guest begins a walk at the table that satp names: the root. *)
LEMMA GuestTranslatesInv ==
    ASSUME LoaderInv, GuestInv, TABLE_BEGIN = 0,
           NEW access \in AccessTypes, NEW va \in VirtPages, GuestTranslates(access, va)
    PROVE  GuestInv'
  <1> USE PageTablesAssumption
  <1>1. /\ app.pc = "guest" /\ UNCHANGED <<app, satp, mstatus, path>>
        /\ translate("USER", access, va) /\ satp = satp64
    BY DEF GuestTranslates, csrVars, mapperVars, GuestInv
  <1>2. /\ res' = [status |-> "pending", page |-> 0]
        /\ walk' = [pc |-> "walk", priv |-> "USER", access |-> access, va |-> va,
                    i |-> LEVELS - 1, table |-> TABLE_BEGIN]
    BY <1>1 DEF translate, satp64, ResultIs, RootLevel
  <1>3. TABLE_BEGIN \in DOMAIN path /\ path[TABLE_BEGIN] = Above(va, LEVELS - 1)
    BY RootPath DEF LoaderInv
  <1>4. MmuTypeOK'
    BY <1>2 DEF MmuTypeOK, Levels
  <1>5. GuestSeesLoader'
    BY <1>2 DEF GuestSeesLoader
  <1> QED BY <1>1, <1>2, <1>3, <1>4, <1>5 DEF GuestInv, satp64, Above

(* It goes down, or ends as the loader's pages say. *)
LEMMA GuestWalksInv ==
    ASSUME LoaderInv, SpaceMapped, GuestInv, ~ld.asked, GuestWalks
    PROVE  GuestInv'
  <1> USE PageTablesAssumption
  <1>1. /\ walk.pc = "walk" /\ app.pc = "guest" /\ WalkStep
        /\ UNCHANGED <<mem, path, mapping, mapped, app, satp, mstatus>>
    BY DEF GuestWalks, csrVars, mapperVars, loaderVars, WalkStep, TableAccessFault, InvalidPte,
           NoLeaf, Descend, LeafRefused, LeafFound, PteRead, GuestInv
  <1>2. walk \in [pc : {"idle", "walk"}, priv : Levels, access : AccessTypes,
                  va : VirtPages, i : 0 .. LEVELS - 1, table : 0 .. PPN_SIZE - 1]
    BY DEF GuestInv, MmuTypeOK
  <1>3. /\ walk.va \in VirtPages /\ walk.i \in 0 .. LEVELS - 1 /\ walk.access \in AccessTypes
        /\ walk.priv = "USER" /\ walk.table \in DOMAIN path
        /\ path[walk.table] = Above(walk.va, walk.i)
    BY <1>1, <1>2 DEF GuestInv
  <1> DEFINE c == Canonical(walk.va)
             Here == {v \in mapped : Canonical(VpnFields(v)) = c}
  <1>4. /\ PteRead /\ pte \in PTEs
        /\ V(pte) => pte.rsv = FALSE
        /\ V(pte) /\ walk.i # 0 =>
             /\ pte.flags = {"V"}
             /\ pte.ppn \in DOMAIN path /\ path[pte.ppn] = Above(walk.va, walk.i - 1)
        /\ V(pte) /\ walk.i = 0 =>
             /\ {"A", "D"} \subseteq pte.flags
             /\ c \in DOMAIN Space /\ Space[c] = SpaceEntry(pte)
        /\ ~V(pte) => c \notin DOMAIN Space
    BY <1>1, <1>3, TableWalk DEF LoaderInv
  <1>5. V(pte) /\ walk.i = 0 => {"U", "R", "W", "X"} \subseteq pte.flags
    BY <1>4 DEF LoaderInv, SpacePrivate, SpaceEntry
  <1>6. Here # {} <=> c \in DOMAIN Space
    BY DEF SpaceMapped, Canon, LoaderInv, MappingOK, MappingAgrees
  <1>7. \A v \in Here : mapping[v] = Space[c].ppn
    BY DEF LoaderInv, MappingOK, MappingAgrees
  <1>8. ASSUME NEW status, NEW page \in Nat, Ends(status, page),
               IF Here = {} THEN status = "MMU64__PAGE_FAULT" /\ page = 0
               ELSE status = "OK" /\ \A v \in Here : page = mapping[v]
        PROVE  GuestInv'
    <2>1. walk' = [walk EXCEPT !.pc = "idle"] /\ res' = [status |-> status, page |-> page]
      BY <1>8 DEF Ends, ResultIs
    <2>2. walk'.pc = "idle" /\ walk'.va = walk.va /\ MmuTypeOK'
      BY <1>2, <2>1 DEF MmuTypeOK
    <2>3. {v \in mapped : Canonical(VpnFields(v)) = Canonical(walk.va)}' = Here
      BY <1>1, <2>2
    <2>4. GuestSeesLoader'
      BY <1>1, <1>8, <2>1, <2>3 DEF GuestSeesLoader
    <2> QED BY <1>1, <2>2, <2>4 DEF GuestInv, satp64
  <1>9. CASE TableAccessFault
    BY <1>4, <1>9 DEF TableAccessFault, PteRead
  <1>10. CASE InvalidPte
    <2>1. BadPte /\ Ends("MMU64__PAGE_FAULT", 0)
      BY <1>10 DEF InvalidPte, PageFault
    <2>2. ~V(pte)
      BY <1>4, <1>5, <2>1 DEF BadPte
    <2> QED BY <1>4, <1>6, <1>8, <2>1, <2>2
  <1>11. CASE NoLeaf
    BY <1>5, <1>11 DEF NoLeaf, BadPte, Leaf
  <1>12. CASE Descend
    <2>1. /\ V(pte) /\ walk.i # 0 /\ res' = res
          /\ walk' = [walk EXCEPT !.i = walk.i - 1, !.table = pte.ppn]
      BY <1>12 DEF Descend, BadPte
    <2>2. /\ walk.i - 1 \in 0 .. LEVELS - 1 /\ pte.ppn \in 0 .. PPN_SIZE - 1
          /\ pte.ppn \in DOMAIN path /\ path[pte.ppn] = Above(walk.va, walk.i - 1)
      BY <1>3, <1>4, <2>1 DEF PTEs
    <2>3. /\ walk'.pc = "walk" /\ walk'.priv = walk.priv /\ walk'.va = walk.va
          /\ walk'.i = walk.i - 1 /\ walk'.table = pte.ppn
          /\ walk' \in [pc : {"idle", "walk"}, priv : Levels, access : AccessTypes,
                  va : VirtPages, i : 0 .. LEVELS - 1, table : 0 .. PPN_SIZE - 1]
      BY <1>1, <1>2, <2>1, <2>2
    <2>4. MmuTypeOK' /\ GuestSeesLoader'
      BY <2>1, <2>3 DEF GuestInv, MmuTypeOK, GuestSeesLoader
    <2>5. walk'.table \in DOMAIN path' /\ path'[walk'.table] = Above(walk.va, walk.i - 1)
      BY <1>1, <2>2, <2>3
    <2>6. (path[walk.table] = Above(walk.va, walk.i))'
      BY <2>3, <2>5 DEF Above
    <2> QED BY <1>1, <1>3, <2>3, <2>4, <2>5, <2>6 DEF GuestInv, satp64
  <1>13. Leaf /\ ~BadPte => walk.i = 0 /\ V(pte)
    BY <1>4 DEF Leaf, BadPte
  <1>14. CASE LeafRefused
    <2>1. walk.i = 0 /\ {"U", "R", "W", "X"} \subseteq pte.flags
      BY <1>5, <1>13, <1>14 DEF LeafRefused
    <2>2. Allowed
      BY <1>3, <2>1 DEF Allowed, checkLeafFlags, AccessTypes
    <2>3. ~Misaligned
      BY <2>1 DEF Misaligned
    <2> QED BY <1>14, <2>2, <2>3 DEF LeafRefused
  <1>15. CASE LeafFound
    <2>1. walk.i = 0 /\ V(pte)
      BY <1>13, <1>15 DEF LeafFound
    <2>2. Ends("OK", pte.ppn)
      BY <1>4, <1>15, <2>1 DEF LeafFound, calcPhysPage
    <2>3. pte.ppn \in Nat /\ Space[c].ppn = pte.ppn /\ c \in DOMAIN Space
      BY <1>4, <2>1 DEF PTEs, SpaceEntry
    <2> QED BY <1>6, <1>7, <1>8, <2>2, <2>3
  <1> QED BY <1>1, <1>9, <1>10, <1>11, <1>12, <1>14, <1>15 DEF WalkStep

(* Every step keeps it: once the guest runs, nothing else does. *)
LEMMA GuestStepInv ==
    ASSUME LoaderInv, AppTypes, SpaceMapped, AppOK, GuestInv, TABLE_BEGIN = 0, [Next]_vars
    PROVE  GuestInv'
  <1>1. ASSUME UNCHANGED <<mstatus, walk, res>>, app.pc # "guest",
               app'.pc = "guest" => satp' = satp64
        PROVE  GuestInv'
    BY <1>1 DEF GuestInv, MmuTypeOK, GuestSeesLoader, satp64
  <1>2. CASE MainMapsStack \/ StackStatus \/ \E elf \in MainElfs : MainLoads(elf)
    <2>1. UNCHANGED <<mstatus, walk, res>> /\ app.pc # "guest"
      BY <1>2 DEF MainMapsStack, StackStatus, MainLoads, csrVars, mmuVars
    <2>2. app'.pc # "guest"
      BY <1>2 DEF MainMapsStack, StackStatus, MainLoads, Asserted, AppTypes
    <2> QED BY <1>1, <2>1, <2>2
  <1>3. CASE MainRuns
    <2>1. UNCHANGED <<mstatus, walk, res>> /\ app.pc # "guest"
      BY <1>3 DEF MainRuns, mmuVars
    <2>2. app'.pc = "guest" => satp' = satp64
      BY <1>3 DEF MainRuns, Asserted
    <2> QED BY <1>1, <2>1, <2>2
  <1>4. CASE Client
    BY <1>1, <1>4 DEF Client, csrVars, mmuVars
  <1>5. CASE Loader
    <2>1. app.pc # "guest" /\ UNCHANGED <<app, mstatus, walk, res>>
      BY <1>5, LoaderBusy DEF Loader, AppOK, csrVars, mmuVars
    <2> QED BY <1>1, <2>1
  <1>6. CASE Guest
    <2>1. CASE \E access \in AccessTypes, va \in VirtPages : GuestTranslates(access, va)
      BY <2>1, GuestTranslatesInv
    <2>2. CASE GuestWalks
      <3>1. walk.pc = "walk"
        BY <2>2 DEF GuestWalks, WalkStep, TableAccessFault, InvalidPte, NoLeaf, Descend,
                    LeafRefused, LeafFound, PteRead
      <3>2. ld.pc = "idle"
        BY <3>1 DEF GuestInv, AppOK
      <3> QED BY <2>2, <3>2, NotMapping, GuestWalksInv
    <2> QED BY <1>6, <2>1, <2>2 DEF Guest
  <1>7. CASE UNCHANGED vars
    <2>1. UNCHANGED <<path, mapping, mapped, app, satp, mstatus, walk, res>>
      BY <1>7 DEF vars, mapperVars, loaderVars, csrVars, mmuVars
    <2>2. Above(walk.va, walk.i)' = Above(walk.va, walk.i)
      BY <2>1 DEF Above
    <2>3. GuestSeesLoader'
      BY <2>1 DEF GuestInv, GuestSeesLoader
    <2> QED BY <2>1, <2>2, <2>3 DEF GuestInv, MmuTypeOK, satp64
  <1> QED BY <1>2, <1>3, <1>4, <1>5, <1>6, <1>7 DEF Next, MainStep

(* With the table region at page 0, as long as page numbers fit a PTE: the *)
(* guest's own translations, from the satp whose PPN main() never sets,    *)
(* give every page that mapPage() mapped the RAM page that the loader's    *)
(* copy used, for every access, and a page fault to every other page, also *)
(* after failed calls and with assertions compiled out.                    *)
THEOREM GuestAlwaysSeesLoader ==
    ASSUME TABLE_BEGIN = 0
    PROVE  Spec => [](FramesLeft => GuestSeesLoader)
  <1> DEFINE I == nextPpn \in Nat /\ (FramesLeft => LoaderInv)
             J == FramesLeft => SpaceMapped /\ AppOK /\ GuestInv
  <1>1. Init => J
    <2> SUFFICES ASSUME Init PROVE SpaceMapped /\ AppOK /\ GuestInv
      OBVIOUS
    <2>1. AppOK
      BY DEF Init, AppOK, LoaderInit, Idle
    <2>2. SpaceMapped
      BY InitSpace DEF SpaceMapped
    <2>3. MmuTypeOK
      BY PageTablesAssumption, SlotZero
         DEF Init, MmuInit, IdleWalk, MmuTypeOK, Levels, AccessTypes, VirtPages
    <2>4. GuestInv
      BY <2>3 DEF Init, MmuInit, IdleWalk, GuestInv, GuestSeesLoader
    <2> QED BY <2>1, <2>2, <2>4
  <1>2. I /\ I' /\ AppTypes /\ J /\ [Next]_vars => J'
    <2> SUFFICES ASSUME I, AppTypes, J, [Next]_vars, FramesLeft'
                 PROVE  SpaceMapped' /\ AppOK' /\ GuestInv'
      OBVIOUS
    <2>1. LoaderActs
      BY NextActs
    <2>2. FramesLeft
      BY <2>1, FramesGrow, PageTablesAssumption DEF FramesLeft
    <2>3. LoaderInv /\ SpaceMapped /\ AppOK /\ GuestInv
      BY <2>2
    <2> QED BY <2>1, <2>3, SpaceMappedKept, AppStepOK, GuestStepInv
  <1>3. Spec => []I
    BY SpecInv
  <1>4. J => (FramesLeft => GuestSeesLoader)
    BY DEF GuestInv
  <1> QED BY <1>1, <1>2, <1>3, <1>4, AppTypeCorrect, PTL DEF Spec
=============================================================================
