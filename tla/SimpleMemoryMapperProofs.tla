---------------------- MODULE SimpleMemoryMapperProofs ----------------------
(***************************************************************************)
(* What SimpleMemoryMapper keeps true of its tables, for any number of     *)
(* levels, table size and table region: lemmas for the two specifications  *)
(* that call map(), VirtualMemory and ElfLoader, and what MMU64 then finds *)
(* in the tables.                                                          *)
(***************************************************************************)
EXTENDS SimpleMemoryMapper, Mmu, ArithmeticProofs

(* The fields of f above level l: what leads to a table of level l. *)
Above(f, l) == [j \in l + 1 .. LEVELS - 1 |-> f[j]]

(* Every table knows all the fields above its level; the root none. *)
PathsOK ==
    /\ \A t \in DOMAIN path :
        /\ LevelOf(t) \in 0 .. LEVELS - 1
        /\ path[t] \in [LevelOf(t) + 1 .. LEVELS - 1 -> Slots]
    /\ LevelOf(TABLE_BEGIN) = LEVELS - 1

(* The tables above a table, up to the root, are there too. *)
PrefixClosed ==
    \A u \in DOMAIN path : \A l \in LevelOf(u) .. LEVELS - 1 :
        \E t \in DOMAIN path : path[t] = Above(path[u], l)

(* The rest of the region has not been written. *)
UnusedEmpty == \A t \in currTable .. TABLE_END - 1 : mem[t] = EmptyTable

(* Valid slots point to tables, or, in the last level, to other pages. *)
EntriesOK ==
    \A t \in DOMAIN path, s \in Slots :
        V(mem[t][s]) =>
            /\ mem[t][s].rsv = FALSE
            /\ LevelOf(t) # 0 => mem[t][s].flags = {"V"}
            /\ LevelOf(t) = 0 =>
                /\ DEFAULT_FLAGS \subseteq mem[t][s].flags
                /\ mem[t][s].ppn \notin TableRegion

(* The loop of map() stands at the table that its address leads to. *)
CallOK ==
    Mapping =>
        /\ call.ppn \in (0 .. PPN_SIZE - 1) \ TableRegion
        /\ DEFAULT_FLAGS \subseteq call.flags
        /\ call.table \in DOMAIN path
        /\ path[call.table] = Above(call.vpn, call.i)

MemOK ==
    /\ TableRegion \subseteq DOMAIN mem
    /\ mem \in [DOMAIN mem -> [Slots -> PTEs]]

(* The inductive invariant of the mapper. *)
MapperInv ==
    /\ MemOK
    /\ MapperTypeOK
    /\ TablesFormTree
    /\ PathsOK
    /\ PrefixClosed
    /\ UnusedEmpty
    /\ EntriesOK
    /\ CallOK

-----------------------------------------------------------------------------
(* A table has a slot 0. *)
LEMMA SlotZero == 0 \in Slots
  <1>1. 2 ^ VPN_BIT_STEP \in Nat /\ 2 ^ VPN_BIT_STEP > 0
    BY PowerType, PageTablesAssumption
  <1> QED BY <1>1 DEF Slots, VPN_SIZE

(* The level of a table follows from the fields that lead to it. *)
LEMMA LevelOfFields ==
    ASSUME NEW l \in 0 .. LEVELS - 1, NEW f, DOMAIN f = l + 1 .. LEVELS - 1
    PROVE  LEVELS - 1 - Cardinality(DOMAIN f) = l
  <1> USE PageTablesAssumption
  <1>1. Cardinality(l + 1 .. LEVELS - 1) =
            IF l + 1 > LEVELS - 1 THEN 0 ELSE LEVELS - 1 - (l + 1) + 1
    BY FS_Interval
  <1> QED BY <1>1

(* The fields of a child table, and when two functions of fields agree. *)
LEMMA ChildFields ==
    ASSUME PathsOK, NEW t \in DOMAIN path, NEW s \in Slots
    PROVE  /\ Child(t, s) \in [LevelOf(t) .. LEVELS - 1 -> Slots]
           /\ Child(t, s)[LevelOf(t)] = s
           /\ \A j \in LevelOf(t) + 1 .. LEVELS - 1 : Child(t, s)[j] = path[t][j]
           /\ DOMAIN path[t] = LevelOf(t) + 1 .. LEVELS - 1
  <1> USE PageTablesAssumption
  <1> DEFINE l == LevelOf(t)
  <1>1. l \in 0 .. LEVELS - 1 /\ path[t] \in [l + 1 .. LEVELS - 1 -> Slots]
    BY DEF PathsOK
  <1>2. Child(t, s) = [j \in DOMAIN path[t] \cup {l} |-> IF j = l THEN s ELSE path[t][j]]
    BY DEF Child
  <1> HIDE DEF l
  <1>3. DOMAIN path[t] = l + 1 .. LEVELS - 1
    BY <1>1
  <1>4. DOMAIN path[t] \cup {l} = l .. LEVELS - 1
    BY <1>1, <1>3
  <1>5. Child(t, s) = [j \in l .. LEVELS - 1 |-> IF j = l THEN s ELSE path[t][j]]
    BY <1>2, <1>4
  <1> QED BY <1>1, <1>3, <1>5 DEF l

(* A child led to by the fields of va above l - 1 has a parent led to by   *)
(* the fields above l.                                                     *)
LEMMA ChildOfAbove ==
    ASSUME PathsOK, NEW t \in DOMAIN path, NEW va, NEW l \in 0 .. LEVELS - 1,
           path[t] = Above(va, l), va[l] \in Slots
    PROVE  LevelOf(t) = l /\ Child(t, va[l]) = [j \in l .. LEVELS - 1 |-> va[j]]
  <1> USE PageTablesAssumption
  <1>1. DOMAIN path[t] = l + 1 .. LEVELS - 1
    BY DEF Above
  <1>2. LevelOf(t) = l
    BY <1>1, LevelOfFields DEF LevelOf
  <1>3. DOMAIN path[t] \cup {l} = l .. LEVELS - 1
    BY <1>1
  <1>4. \A j \in l + 1 .. LEVELS - 1 : path[t][j] = va[j]
    BY DEF Above
  <1>5. Child(t, va[l]) = [j \in l .. LEVELS - 1 |-> IF j = l THEN va[l] ELSE path[t][j]]
    BY <1>2, <1>3 DEF Child
  <1>6. \A j \in l .. LEVELS - 1 : j # l => j \in l + 1 .. LEVELS - 1
    OBVIOUS
  <1> QED BY <1>2, <1>4, <1>5, <1>6

(* Slots of different tables of a level, and different slots of a table,   *)
(* have different fields.                                                  *)
LEMMA ChildInjective ==
    ASSUME PathsOK, TablesFormTree,
           NEW t \in DOMAIN path, NEW s \in Slots,
           NEW u \in DOMAIN path, NEW r \in Slots,
           Child(t, s) = Child(u, r)
    PROVE  t = u /\ s = r
  <1> USE PageTablesAssumption
  <1>1. /\ LevelOf(t) \in 0 .. LEVELS - 1 /\ LevelOf(u) \in 0 .. LEVELS - 1
        /\ LevelOf(t) .. LEVELS - 1 = LevelOf(u) .. LEVELS - 1
    BY ChildFields DEF PathsOK
  <1>2. LevelOf(t) = LevelOf(u)
    BY <1>1
  <1>3. s = r
    BY <1>2, ChildFields
  <1> DEFINE D == LevelOf(t) + 1 .. LEVELS - 1
  <1>4. path[t] \in [D -> Slots] /\ path[u] \in [D -> Slots]
    BY <1>2 DEF PathsOK
  <1>5. \A j \in D : path[t][j] = path[u][j]
    BY <1>2, ChildFields
  <1> HIDE DEF D
  <1>6. path[t] = [j \in D |-> path[t][j]] /\ path[u] = [j \in D |-> path[u][j]]
    BY <1>4
  <1>7. path[t] = path[u]
    BY <1>5, <1>6
  <1> QED BY <1>3, <1>7 DEF TablesFormTree, IsInjective

-----------------------------------------------------------------------------
(* The address space that the tables stand for. *)

(* It maps the pages that the valid slots of the leaf tables lead to, each *)
(* as its slot says.                                                       *)
SpaceMatches ==
    /\ \A v : v \in DOMAIN Space <=>
                \E t \in DOMAIN path, s \in Slots :
                    LevelOf(t) = 0 /\ V(mem[t][s]) /\ v = Child(t, s)
    /\ \A t \in DOMAIN path, s \in Slots :
            LevelOf(t) = 0 /\ V(mem[t][s]) =>
                Space[Child(t, s)] = SpaceEntry(mem[t][s])
    /\ Space = [v \in DOMAIN Space |-> Space[v]]

(* Space holds the leaf that the fields of a page lead to. *)
LEMMA SpaceIs == PathsOK /\ TablesFormTree => SpaceMatches
  <1> SUFFICES ASSUME PathsOK, TablesFormTree PROVE SpaceMatches
    OBVIOUS
  <1>1. \A t, s : <<t, s>> \in Leaves <=>
                    t \in DOMAIN path /\ LevelOf(t) = 0 /\ s \in Slots /\ V(mem[t][s])
    BY DEF Leaves, LeafTables
  <1>2. \A l \in Leaves : l = <<l[1], l[2]>>
    BY DEF Leaves
  <1>3. DOMAIN Space = {Child(l[1], l[2]) : l \in Leaves}
    BY DEF Space
  <1>4. ASSUME NEW v
        PROVE  v \in DOMAIN Space <=>
                    \E t \in DOMAIN path, s \in Slots :
                        LevelOf(t) = 0 /\ V(mem[t][s]) /\ v = Child(t, s)
    <2>1. v \in DOMAIN Space <=> \E l \in Leaves : v = Child(l[1], l[2])
      BY <1>3
    <2>2. (\E l \in Leaves : v = Child(l[1], l[2])) <=>
              \E t, s : <<t, s>> \in Leaves /\ v = Child(t, s)
      BY <1>2
    <2> QED BY <1>1, <2>1, <2>2
  <1>5. ASSUME NEW t \in DOMAIN path, NEW s \in Slots, LevelOf(t) = 0, V(mem[t][s])
        PROVE  Space[Child(t, s)] = SpaceEntry(mem[t][s])
    <2> DEFINE v == Child(t, s)
    <2>1. <<t, s>> \in Leaves
      BY <1>1, <1>5
    <2>2. v \in DOMAIN Space
      BY <1>4, <1>5
    <2>3. \E l \in Leaves : Child(l[1], l[2]) = v
      BY <2>1
    <2>4. LeafAt(v) \in Leaves /\ Child(LeafAt(v)[1], LeafAt(v)[2]) = v
      BY <2>3 DEF LeafAt
    <2>5. LeafAt(v)[1] \in DOMAIN path /\ LeafAt(v)[2] \in Slots
      BY <2>4, <1>1, <1>2
    <2>6. LeafAt(v)[1] = t /\ LeafAt(v)[2] = s
      BY <2>4, <2>5, ChildInjective
    <2>7. Space[v] = SpaceEntry(mem[LeafAt(v)[1]][LeafAt(v)[2]])
      BY <2>2, <1>3 DEF Space
    <2> QED BY <2>6, <2>7
  <1>6. Space = [v \in DOMAIN Space |-> Space[v]]
    BY DEF Space
  <1> QED BY <1>4, <1>5, <1>6 DEF SpaceMatches

(* So it does after a step. *)
LEMMA SpaceIsNext == PathsOK' /\ TablesFormTree' => SpaceMatches'
  BY SpaceIs, PTL

(* What the loops of map() and translate() find at the table that the      *)
(* fields of va above l lead to: the next table, or the end of the walk.   *)
LEMMA WalkAt ==
    ASSUME MapperInv, NEW va \in VirtPages, NEW l \in 0 .. LEVELS - 1,
           NEW t \in DOMAIN path, path[t] = Above(va, l)
    PROVE  /\ LevelOf(t) = l
           /\ t \in TableRegion /\ t \in DOMAIN mem
           /\ va[l] \in Slots
           /\ mem[t][va[l]] \in PTEs
           /\ l # 0 /\ V(mem[t][va[l]]) =>
                /\ mem[t][va[l]].ppn \in DOMAIN path
                /\ path[mem[t][va[l]].ppn] = Above(va, l - 1)
           /\ l # 0 /\ ~V(mem[t][va[l]]) => Canonical(va) \notin DOMAIN Space
           /\ l = 0 => /\ Child(t, va[l]) = Canonical(va)
                       /\ Canonical(va) \in DOMAIN Space <=> V(mem[t][va[l]])
                       /\ V(mem[t][va[l]]) =>
                            Space[Canonical(va)] = SpaceEntry(mem[t][va[l]])
  <1> USE PageTablesAssumption
  <1>1. PathsOK /\ TablesFormTree /\ PrefixClosed /\ SpaceMatches
    BY SpaceIs DEF MapperInv
  <1>2. t \in TableRegion /\ t \in DOMAIN mem
    BY DEF MapperInv, MemOK, MapperTypeOK
  <1>3. l \in 0 .. FIELDS - 1
    OBVIOUS
  <1>4. va[l] \in Slots
    BY <1>3 DEF VirtPages
  <1>5. mem[t][va[l]] \in PTEs
    BY <1>2, <1>4 DEF MapperInv, MemOK
  <1>6. LevelOf(t) = l /\ Child(t, va[l]) = [j \in l .. LEVELS - 1 |-> va[j]]
    BY <1>1, <1>4, ChildOfAbove
  <1>7. l # 0 => Above(va, l - 1) = Child(t, va[l])
    BY <1>6 DEF Above
  <1>8. ASSUME l # 0, V(mem[t][va[l]])
        PROVE  mem[t][va[l]].ppn \in DOMAIN path /\ path[mem[t][va[l]].ppn] = Above(va, l - 1)
    BY <1>1, <1>4, <1>6, <1>7, <1>8 DEF TablesFormTree
  <1>9. ASSUME l # 0, ~V(mem[t][va[l]]), Canonical(va) \in DOMAIN Space
        PROVE  FALSE
    <2>1. PICK u \in DOMAIN path, s \in Slots :
                LevelOf(u) = 0 /\ Canonical(va) = Child(u, s)
      BY <1>1, <1>9 DEF SpaceMatches
    <2>2. \A j \in 1 .. LEVELS - 1 : path[u][j] = va[j]
      <3>1. \A j \in 1 .. LEVELS - 1 : Child(u, s)[j] = path[u][j]
        BY <1>1, <2>1, ChildFields
      <3> QED BY <2>1, <3>1 DEF Canonical
    <2>3. l - 1 \in LevelOf(u) .. LEVELS - 1
      BY <1>9, <2>1
    <2>4. PICK w \in DOMAIN path : path[w] = Above(path[u], l - 1)
      BY <1>1, <2>3 DEF PrefixClosed
    <2>5. Above(path[u], l - 1) = Above(va, l - 1)
      BY <1>9, <2>2 DEF Above
    <2>6. path[w] = Child(t, va[l])
      BY <1>7, <1>9, <2>4, <2>5
    <2> QED BY <1>1, <1>4, <1>6, <1>9, <2>6 DEF TablesFormTree
  <1>10. ASSUME l = 0
         PROVE  /\ Child(t, va[l]) = Canonical(va)
                /\ Canonical(va) \in DOMAIN Space <=> V(mem[t][va[l]])
                /\ V(mem[t][va[l]]) => Space[Canonical(va)] = SpaceEntry(mem[t][va[l]])
    <2>1. Child(t, va[l]) = Canonical(va)
      BY <1>6, <1>10 DEF Canonical
    <2>2. ASSUME Canonical(va) \in DOMAIN Space PROVE V(mem[t][va[l]])
      <3>1. PICK u \in DOMAIN path, s \in Slots : V(mem[u][s]) /\ Canonical(va) = Child(u, s)
        BY <1>1, <2>2 DEF SpaceMatches
      <3>2. u = t /\ s = va[l]
        BY <1>1, <1>4, <2>1, <3>1, ChildInjective
      <3> QED BY <3>1, <3>2
    <2>3. ASSUME V(mem[t][va[l]])
          PROVE  /\ Canonical(va) \in DOMAIN Space
                 /\ Space[Canonical(va)] = SpaceEntry(mem[t][va[l]])
      BY <1>1, <1>4, <1>6, <1>10, <2>1, <2>3 DEF SpaceMatches
    <2> QED BY <2>1, <2>2, <2>3
  <1> QED BY <1>2, <1>4, <1>5, <1>6, <1>8, <1>9, <1>10

(* What an iteration of translate() reads at a table of its address: a     *)
(* slot that is a pointer above level 0 and a leaf there, or not valid.    *)
LEMMA TableWalk ==
    ASSUME MapperInv, walk.pc = "walk", walk.va \in VirtPages, walk.i \in 0 .. LEVELS - 1,
           walk.table \in DOMAIN path, path[walk.table] = Above(walk.va, walk.i)
    PROVE  /\ PteRead
           /\ pte \in PTEs
           /\ pte = mem[walk.table][walk.va[walk.i]]
           /\ V(pte) => pte.rsv = FALSE
           /\ V(pte) /\ walk.i # 0 =>
                /\ pte.flags = {"V"}
                /\ pte.ppn \in DOMAIN path
                /\ path[pte.ppn] = Above(walk.va, walk.i - 1)
           /\ V(pte) /\ walk.i = 0 =>
                /\ {"A", "D"} \subseteq pte.flags
                /\ pte.ppn \notin TableRegion
                /\ Canonical(walk.va) \in DOMAIN Space
                /\ Space[Canonical(walk.va)] = SpaceEntry(pte)
           /\ ~V(pte) => Canonical(walk.va) \notin DOMAIN Space
  <1>1. pte = mem[walk.table][walk.va[walk.i]]
    BY DEF pte, getVPN
  <1>2. /\ LevelOf(walk.table) = walk.i /\ walk.table \in DOMAIN mem
        /\ walk.va[walk.i] \in Slots /\ pte \in PTEs
        /\ walk.i # 0 /\ V(pte) =>
             pte.ppn \in DOMAIN path /\ path[pte.ppn] = Above(walk.va, walk.i - 1)
        /\ walk.i # 0 /\ ~V(pte) => Canonical(walk.va) \notin DOMAIN Space
        /\ walk.i = 0 =>
             /\ Canonical(walk.va) \in DOMAIN Space <=> V(pte)
             /\ V(pte) => Space[Canonical(walk.va)] = SpaceEntry(pte)
    BY <1>1, WalkAt
  <1>3. V(pte) => /\ pte.rsv = FALSE
                  /\ walk.i # 0 => pte.flags = {"V"}
                  /\ walk.i = 0 => {"A", "D"} \subseteq pte.flags /\ pte.ppn \notin TableRegion
    BY <1>1, <1>2 DEF MapperInv, EntriesOK, DEFAULT_FLAGS
  <1> QED BY <1>1, <1>2, <1>3 DEF PteRead

-----------------------------------------------------------------------------
(* Steps. *)

(* A step that writes no table keeps them and the address space: a store   *)
(* of the guest, map() going down or returning an error.                   *)
LEMMA TablesKept ==
    ASSUME MapperInv, MemOK', UNCHANGED <<currTable, path>>,
           \A t \in TableRegion : mem'[t] = mem[t]
    PROVE  /\ TablesFormTree' /\ PathsOK' /\ PrefixClosed'
           /\ UnusedEmpty' /\ EntriesOK'
           /\ Space' = Space
  <1> USE MapperAssumption
  <1>1. /\ \A t : LevelOf(t)' = LevelOf(t)
        /\ \A t, s : Child(t, s)' = Child(t, s)
    BY DEF LevelOf, Child
  <1>2. DOMAIN path \subseteq TableRegion
    BY DEF MapperInv, MapperTypeOK
  <1>3. PathsOK'
    BY <1>1 DEF MapperInv, PathsOK
  <1>4. TablesFormTree'
    BY <1>1, <1>2 DEF MapperInv, TablesFormTree
  <1>5. PrefixClosed'
    BY <1>1 DEF MapperInv, PrefixClosed
  <1>6. UnusedEmpty'
    BY DEF MapperInv, UnusedEmpty, TableRegion, MapperTypeOK
  <1>7. EntriesOK'
    BY <1>1, <1>2 DEF MapperInv, EntriesOK
  <1>8. LeafTables' = LeafTables
    BY <1>1 DEF LeafTables
  <1>9. Leaves' = Leaves
    BY <1>2, <1>8 DEF Leaves, LeafTables
  <1>10. SpaceMatches /\ SpaceMatches'
    BY <1>3, <1>4, SpaceIs, SpaceIsNext DEF MapperInv
  <1>11. DOMAIN Space' = DOMAIN Space
    <2>1. \A v : v \in DOMAIN Space' <=> v \in DOMAIN Space
      BY <1>1, <1>2, <1>10 DEF SpaceMatches
    <2> QED BY <2>1
  <1>12. \A v \in DOMAIN Space : Space'[v] = Space[v]
    BY <1>1, <1>2, <1>10 DEF SpaceMatches
  <1>13. Space = [v \in DOMAIN Space |-> Space[v]] /\ Space' = [v \in DOMAIN Space' |-> Space'[v]]
    BY <1>10 DEF SpaceMatches
  <1>14. Space' = Space
    BY <1>11, <1>12, <1>13
  <1> QED BY <1>3, <1>4, <1>5, <1>6, <1>7, <1>14

(* Nothing leads to the root: every address starts there. *)
LEMMA RootPath ==
    ASSUME MapperInv, NEW va
    PROVE  TABLE_BEGIN \in DOMAIN path /\ path[TABLE_BEGIN] = Above(va, LEVELS - 1)
  <1> USE PageTablesAssumption, MapperAssumption
  <1>1. TABLE_BEGIN \in DOMAIN path
    BY DEF MapperInv, TablesFormTree, MapperTypeOK
  <1>2. path[TABLE_BEGIN] \in [LEVELS .. LEVELS - 1 -> Slots]
    BY <1>1 DEF MapperInv, PathsOK
  <1>3. \A j : j \notin LEVELS .. LEVELS - 1
    OBVIOUS
  <1>4. path[TABLE_BEGIN] = [j \in LEVELS .. LEVELS - 1 |-> path[TABLE_BEGIN][j]]
    BY <1>2
  <1>5. Above(va, LEVELS - 1) = [j \in LEVELS .. LEVELS - 1 |-> va[j]]
    BY DEF Above
  <1> QED BY <1>1, <1>3, <1>4, <1>5

(* map(): the call begins at the root, or is refused. *)
LEMMA MapInv ==
    ASSUME MapperInv, NEW flags \in SUBSET PTEFlags, NEW vpn \in VirtPages,
           NEW ppn \in 0 .. PPN_SIZE - 1, map(flags, vpn, ppn)
    PROVE  MapperInv' /\ Space' = Space
  <1> USE PageTablesAssumption, MapperAssumption
  <1>1. UNCHANGED <<mem, currTable, path>>
    BY DEF map
  <1>2. MemOK'
    BY <1>1 DEF MapperInv, MemOK
  <1>3. /\ TablesFormTree' /\ PathsOK' /\ PrefixClosed'
        /\ UnusedEmpty' /\ EntriesOK' /\ Space' = Space
    BY <1>1, <1>2, TablesKept
  <1>4. TABLE_BEGIN \in DOMAIN path /\ TABLE_BEGIN \in TableRegion
    BY DEF MapperInv, TablesFormTree, MapperTypeOK, TableRegion
  <1>5. path[TABLE_BEGIN] = Above(vpn, LEVELS - 1)
    BY RootPath
  <1>6. CASE InTableRegion(ppn)
    <2>1. call' = call
      BY <1>6 DEF map
    <2>2. MapperTypeOK' /\ CallOK'
      BY <1>1, <2>1 DEF MapperInv, MapperTypeOK, CallOK, Mapping
    <2> QED BY <1>2, <1>3, <2>2 DEF MapperInv
  <1>7. CASE ~InTableRegion(ppn)
    <2>1. call' = [pc |-> "map", vpn |-> vpn, ppn |-> ppn,
                   flags |-> flags \cup DEFAULT_FLAGS,
                   i |-> LEVELS - 1, table |-> TABLE_BEGIN]
      BY <1>7 DEF map
    <2>2. flags \cup DEFAULT_FLAGS \in SUBSET PTEFlags
      BY DEF DEFAULT_FLAGS, PTEFlags
    <2>3. MapperTypeOK'
      BY <1>1, <1>4, <2>1, <2>2 DEF MapperInv, MapperTypeOK
    <2>4. ppn \notin TableRegion
      BY <1>7 DEF InTableRegion, TableRegion
    <2>5. CallOK'
      BY <1>1, <1>4, <1>5, <2>1, <2>4 DEF CallOK, Mapping
    <2> QED BY <1>2, <1>3, <2>3, <2>5 DEF MapperInv
  <1> QED BY <1>6, <1>7

(* The call in progress stands where WalkAt applies. *)
LEMMA CallAt ==
    ASSUME MapperInv, Mapping
    PROVE  /\ call.vpn \in VirtPages /\ call.i \in 0 .. LEVELS - 1
           /\ call.table \in DOMAIN path
           /\ path[call.table] = Above(call.vpn, call.i)
           /\ slot = call.vpn[call.i]
           /\ mapPte = mem[call.table][call.vpn[call.i]]
  BY DEF MapperInv, MapperTypeOK, CallOK, mapPte, slot, getVPN

(* A valid slot above the last level: the next table of the address. *)
LEMMA MapDescendInv ==
    ASSUME MapperInv, MapDescend
    PROVE  MapperInv' /\ Space' = Space
  <1> USE PageTablesAssumption
  <1>1. /\ Mapping /\ V(mapPte) /\ call.i # 0
        /\ call' = [call EXCEPT !.i = call.i - 1, !.table = mapPte.ppn]
        /\ UNCHANGED <<mem, currTable, mapRes, path>>
    BY DEF MapDescend
  <1>2. MemOK'
    BY <1>1 DEF MapperInv, MemOK
  <1>3. /\ TablesFormTree' /\ PathsOK' /\ PrefixClosed'
        /\ UnusedEmpty' /\ EntriesOK' /\ Space' = Space
    BY <1>1, <1>2, TablesKept
  <1>4. mapPte.ppn \in DOMAIN path /\ path[mapPte.ppn] = Above(call.vpn, call.i - 1)
    BY <1>1, CallAt, WalkAt
  <1>5. call.i - 1 \in 0 .. LEVELS - 1 /\ mapPte.ppn \in TableRegion
    BY <1>1, <1>4, CallAt DEF MapperInv, MapperTypeOK
  <1>6. call \in [pc : {"idle", "map"}, vpn : VirtPages, ppn : Nat,
                 flags : SUBSET PTEFlags, i : 0 .. LEVELS - 1, table : TableRegion]
    BY DEF MapperInv, MapperTypeOK
  <1>7. /\ call'.pc = call.pc /\ call'.vpn = call.vpn /\ call'.ppn = call.ppn
        /\ call'.flags = call.flags /\ call'.i = call.i - 1 /\ call'.table = mapPte.ppn
    BY <1>1, <1>6
  <1>8. call' \in [pc : {"idle", "map"}, vpn : VirtPages, ppn : Nat,
                 flags : SUBSET PTEFlags, i : 0 .. LEVELS - 1, table : TableRegion]
    BY <1>1, <1>5, <1>6
  <1>9. MapperTypeOK'
    BY <1>1, <1>8 DEF MapperInv, MapperTypeOK
  <1>10. CallOK'
    BY <1>1, <1>4, <1>7 DEF MapperInv, CallOK, Mapping
  <1> QED BY <1>2, <1>3, <1>9, <1>10 DEF MapperInv

(* map() returns without having written. *)
LEMMA MapErrorInv ==
    ASSUME MapperInv, MapAlreadyMapped \/ MapRegionEnd
    PROVE  MapperInv' /\ Space' = Space
  <1> USE PageTablesAssumption, MapperAssumption
  <1>1. call' = IdleCall /\ UNCHANGED <<mem, currTable, path>>
    BY DEF MapAlreadyMapped, MapRegionEnd, Returned
  <1>2. MemOK'
    BY <1>1 DEF MapperInv, MemOK
  <1>3. /\ TablesFormTree' /\ PathsOK' /\ PrefixClosed'
        /\ UnusedEmpty' /\ EntriesOK' /\ Space' = Space
    BY <1>1, <1>2, TablesKept
  <1>4. MapperTypeOK' /\ CallOK'
    BY <1>1, SlotZero DEF MapperInv, MapperTypeOK, CallOK, Mapping, IdleCall, VirtPages,
                          TableRegion
  <1> QED BY <1>2, <1>3, <1>4 DEF MapperInv

(* The slot of the call, and memory after it is written. *)
LEMMA WritePteEffect ==
    ASSUME MapperInv, Mapping, NEW p \in PTEs, WritePte(p)
    PROVE  /\ MemOK'
           /\ DOMAIN mem' = DOMAIN mem
           /\ mem'[call.table][slot] = p
           /\ \A t \in DOMAIN mem, s \in Slots :
                t # call.table \/ s # slot => mem'[t][s] = mem[t][s]
           /\ \A t \in DOMAIN mem : t # call.table => mem'[t] = mem[t]
  <1>1. /\ call.table \in DOMAIN mem /\ slot \in Slots
        /\ mem \in [DOMAIN mem -> [Slots -> PTEs]] /\ TableRegion \subseteq DOMAIN mem
    BY CallAt, WalkAt DEF MapperInv, MemOK
  <1>2. mem' = [mem EXCEPT ![call.table] = [mem[call.table] EXCEPT ![slot] = p]]
    BY DEF WritePte
  <1>3. mem[call.table] \in [Slots -> PTEs]
    BY <1>1
  <1>4. [mem[call.table] EXCEPT ![slot] = p] \in [Slots -> PTEs]
    BY <1>3
  <1>5. mem' \in [DOMAIN mem -> [Slots -> PTEs]]
    BY <1>1, <1>2, <1>4
  <1>6. DOMAIN mem' = DOMAIN mem
    BY <1>2
  <1> QED BY <1>1, <1>2, <1>3, <1>5, <1>6 DEF MemOK

(* The leaf is written: one page more is mapped, as the call asked. *)
LEMMA MapLeafInv ==
    ASSUME MapperInv, MapLeaf
    PROVE  /\ MapperInv'
           /\ Canonical(call.vpn) \notin DOMAIN Space
           /\ Space' = [v \in DOMAIN Space \cup {Canonical(call.vpn)} |->
                           IF v = Canonical(call.vpn)
                           THEN [ppn |-> call.ppn, flags |-> call.flags]
                           ELSE Space[v]]
  <1> USE PageTablesAssumption, MapperAssumption
  <1> DEFINE new == createPTE(call.ppn, call.flags)
             c == call.table
             va == Canonical(call.vpn)
  <1>1. /\ Mapping /\ ~V(mapPte) /\ call.i = 0
        /\ WritePte(new)
        /\ call' = IdleCall
        /\ UNCHANGED <<currTable, path>>
    BY DEF MapLeaf, Returned
  <1>2. /\ call.ppn \in 0 .. PPN_SIZE - 1 /\ call.ppn \notin TableRegion
        /\ DEFAULT_FLAGS \subseteq call.flags /\ call.flags \in SUBSET PTEFlags
    BY <1>1 DEF MapperInv, CallOK, MapperTypeOK
  <1>3. new = [flags |-> call.flags, rsv |-> FALSE, ppn |-> call.ppn]
    <2>1. call.ppn % PPN_SIZE = call.ppn
      BY <1>2
    <2> QED BY <2>1 DEF createPTE
  <1>4. new \in PTEs /\ V(new)
    BY <1>2, <1>3 DEF PTEs, V, DEFAULT_FLAGS
  <1>5. /\ c \in DOMAIN path /\ c \in DOMAIN mem /\ LevelOf(c) = 0 /\ slot \in Slots
        /\ Child(c, slot) = va
        /\ ~V(mem[c][slot])
        /\ va \notin DOMAIN Space
    BY <1>1, CallAt, WalkAt
  <1> HIDE DEF new, c, va
  <1>6. /\ MemOK'
        /\ mem'[c][slot] = new
        /\ \A t \in DOMAIN mem, s \in Slots : t # c \/ s # slot => mem'[t][s] = mem[t][s]
        /\ \A t \in DOMAIN mem : t # c => mem'[t] = mem[t]
    BY <1>1, <1>4, WritePteEffect DEF c
  <1>7. /\ \A t : LevelOf(t)' = LevelOf(t)
        /\ \A t, s : Child(t, s)' = Child(t, s)
    BY <1>1 DEF LevelOf, Child
  <1>8. DOMAIN path \subseteq TableRegion /\ TableRegion \subseteq DOMAIN mem
    BY DEF MapperInv, MapperTypeOK, MemOK
  <1>9. PathsOK' /\ PrefixClosed'
    BY <1>1, <1>7 DEF MapperInv, PathsOK, PrefixClosed
  <1>10. TablesFormTree'
    <2>1. \A t \in DOMAIN path, s \in Slots : LevelOf(t) # 0 => mem'[t][s] = mem[t][s]
      BY <1>5, <1>6, <1>8
    <2> QED BY <1>1, <1>7, <2>1 DEF MapperInv, TablesFormTree
  <1>11. UnusedEmpty'
    <2>1. \A t \in currTable .. TABLE_END - 1 : t # c /\ t \in DOMAIN mem
      BY <1>5, <1>8 DEF MapperInv, TablesFormTree, MapperTypeOK, TableRegion
    <2> QED BY <1>1, <1>6, <2>1 DEF MapperInv, UnusedEmpty
  <1>12. EntriesOK'
    <2> SUFFICES ASSUME NEW t \in DOMAIN path, NEW s \in Slots, V(mem'[t][s])
                 PROVE  /\ mem'[t][s].rsv = FALSE
                        /\ LevelOf(t) # 0 => mem'[t][s].flags = {"V"}
                        /\ LevelOf(t) = 0 =>
                            /\ DEFAULT_FLAGS \subseteq mem'[t][s].flags
                            /\ mem'[t][s].ppn \notin TableRegion
      BY <1>1, <1>7 DEF EntriesOK
    <2>1. CASE t = c /\ s = slot
      BY <1>2, <1>3, <1>5, <1>6, <2>1
    <2>2. CASE t # c \/ s # slot
      BY <1>6, <1>8, <2>2 DEF MapperInv, EntriesOK
    <2> QED BY <2>1, <2>2
  <1>13. MapperTypeOK' /\ CallOK'
    BY <1>1, SlotZero DEF MapperInv, MapperTypeOK, CallOK, Mapping, IdleCall, VirtPages,
                          TableRegion
  <1>14. SpaceMatches /\ SpaceMatches'
    BY <1>9, <1>10, SpaceIs, SpaceIsNext DEF MapperInv
  <1>15. DOMAIN Space' = DOMAIN Space \cup {va}
    <2>1. ASSUME NEW v \in DOMAIN Space' PROVE v \in DOMAIN Space \cup {va}
      <3>1. PICK t \in DOMAIN path, s \in Slots :
                LevelOf(t) = 0 /\ V(mem'[t][s]) /\ v = Child(t, s)
        BY <1>1, <1>7, <1>14 DEF SpaceMatches
      <3>2. CASE t = c /\ s = slot
        BY <1>5, <3>1, <3>2
      <3>3. CASE t # c \/ s # slot
        BY <1>6, <1>8, <1>14, <3>1, <3>3 DEF SpaceMatches
      <3> QED BY <3>2, <3>3
    <2>2. ASSUME NEW v \in DOMAIN Space PROVE v \in DOMAIN Space'
      <3>1. PICK t \in DOMAIN path, s \in Slots :
                LevelOf(t) = 0 /\ V(mem[t][s]) /\ v = Child(t, s)
        BY <1>14 DEF SpaceMatches
      <3>2. V(mem'[t][s])
        BY <1>5, <1>6, <1>8, <3>1
      <3> QED BY <1>1, <1>7, <1>14, <3>1, <3>2 DEF SpaceMatches
    <2>3. va \in DOMAIN Space'
      BY <1>1, <1>4, <1>5, <1>6, <1>7, <1>14 DEF SpaceMatches
    <2> QED BY <2>1, <2>2, <2>3
  <1>16. Space'[va] = [ppn |-> call.ppn, flags |-> call.flags]
    <2>1. Space'[va] = SpaceEntry(new)
      BY <1>1, <1>4, <1>5, <1>6, <1>7, <1>14 DEF SpaceMatches
    <2> QED BY <1>3, <2>1 DEF SpaceEntry
  <1>17. ASSUME NEW v \in DOMAIN Space PROVE Space'[v] = Space[v]
    <2>1. PICK t \in DOMAIN path, s \in Slots :
                LevelOf(t) = 0 /\ V(mem[t][s]) /\ v = Child(t, s)
      BY <1>14 DEF SpaceMatches
    <2>2. mem'[t][s] = mem[t][s]
      BY <1>5, <1>6, <1>8, <2>1
    <2> QED BY <1>1, <1>7, <1>14, <2>1, <2>2 DEF SpaceMatches
  <1>18. Space' = [v \in DOMAIN Space' |-> Space'[v]]
    BY <1>14 DEF SpaceMatches
  <1>19. Space' = [v \in DOMAIN Space \cup {va} |->
                     IF v = va THEN [ppn |-> call.ppn, flags |-> call.flags]
                     ELSE Space[v]]
    BY <1>5, <1>15, <1>16, <1>17, <1>18
  <1>20. MapperInv'
    BY <1>6, <1>9, <1>10, <1>11, <1>12, <1>13 DEF MapperInv
  <1> QED BY <1>5, <1>19, <1>20 DEF va

(* A table is added: the tree grows by it, and no page more is mapped. *)
LEMMA MapNewTableInv ==
    ASSUME MapperInv, MapNewTable
    PROVE  MapperInv' /\ Space' = Space
  <1> USE PageTablesAssumption, MapperAssumption
  <1>0. PICK n, c, i, f : /\ n = currTable /\ c = call.table /\ i = call.i
                          /\ f = Above(call.vpn, i - 1)
    OBVIOUS
  <1> DEFINE new == createPTE(n, {"V"})
  <1>1. /\ Mapping /\ ~V(mapPte) /\ i # 0 /\ n # TABLE_END
        /\ currTable' = n + 1
        /\ WritePte(new)
        /\ path' = [t \in DOMAIN path \cup {n} |->
                       IF t \in DOMAIN path THEN path[t]
                       ELSE [j \in i .. LEVELS - 1 |-> call.vpn[j]]]
    BY <1>0 DEF MapNewTable, RegionEnd, NextTable
  <1>2. /\ PathsOK /\ TablesFormTree /\ PrefixClosed /\ UnusedEmpty /\ EntriesOK
        /\ MapperTypeOK /\ MemOK
    BY DEF MapperInv
  <1>3. /\ i \in 1 .. LEVELS - 1 /\ i - 1 \in 0 .. LEVELS - 1 /\ call.vpn \in VirtPages
        /\ c \in DOMAIN path /\ c \in DOMAIN mem
        /\ LevelOf(c) = i /\ slot = call.vpn[i] /\ slot \in Slots
        /\ path[c] = Above(call.vpn, i)
        /\ ~V(mem[c][slot])
    BY <1>0, <1>1, CallAt, WalkAt
  <1>4. /\ DOMAIN path = TABLE_BEGIN .. n - 1
        /\ n \in Nat /\ TABLE_BEGIN < n /\ n < TABLE_END
        /\ n \in TableRegion /\ n \in DOMAIN mem
        /\ n \notin DOMAIN path /\ n # c
        /\ n \in 0 .. PPN_SIZE - 1
    <2>1. n \in TABLE_BEGIN + 1 .. TABLE_END /\ n # TABLE_END
      BY <1>0, <1>1, <1>2 DEF MapperTypeOK
    <2>2. n \in Nat /\ TABLE_BEGIN < n /\ n < TABLE_END
      BY <2>1
    <2>3. DOMAIN path = TABLE_BEGIN .. n - 1
      BY <1>0, <1>2 DEF TablesFormTree
    <2>4. n \in TableRegion
      BY <2>2 DEF TableRegion
    <2>5. n \in DOMAIN mem
      BY <1>2, <2>4 DEF MemOK
    <2>6. n \notin DOMAIN path
      BY <2>2, <2>3
    <2>7. n \in 0 .. PPN_SIZE - 1
      BY <2>2
    <2> QED BY <1>3, <2>2, <2>3, <2>4, <2>5, <2>6, <2>7
  <1>5. new = [flags |-> {"V"}, rsv |-> FALSE, ppn |-> n] /\ new \in PTEs
    <2>1. n % PPN_SIZE = n
      BY <1>4
    <2> QED BY <1>4, <2>1 DEF createPTE, PTEs, PTEFlags
  <1>6. f = [j \in i .. LEVELS - 1 |-> call.vpn[j]] /\ f = Child(c, slot)
    <2>1. f = [j \in i .. LEVELS - 1 |-> call.vpn[j]]
      BY <1>0, <1>3 DEF Above
    <2>2. i \in 0 .. LEVELS - 1 /\ call.vpn[i] \in Slots
      BY <1>3
    <2>3. Child(c, call.vpn[i]) = [j \in i .. LEVELS - 1 |-> call.vpn[j]]
      BY <1>2, <1>3, <2>2, ChildOfAbove
    <2> QED BY <1>3, <2>1, <2>3
  <1>7. f \in [i .. LEVELS - 1 -> Slots]
    BY <1>2, <1>3, <1>6, ChildFields
  <1> HIDE DEF new
  <1>8. /\ MemOK'
        /\ mem'[c][slot] = new
        /\ \A t \in DOMAIN mem, s \in Slots : t # c \/ s # slot => mem'[t][s] = mem[t][s]
        /\ \A t \in DOMAIN mem : t # c => mem'[t] = mem[t]
    BY <1>0, <1>1, <1>5, WritePteEffect
  <1>9. /\ DOMAIN path' = DOMAIN path \cup {n}
        /\ path'[n] = f
        /\ \A t \in DOMAIN path : path'[t] = path[t]
    BY <1>1, <1>4, <1>6
  <1>10. /\ \A t \in DOMAIN path : LevelOf(t)' = LevelOf(t)
         /\ \A t \in DOMAIN path, s \in Slots : Child(t, s)' = Child(t, s)
    BY <1>9 DEF LevelOf, Child
  <1>11. DOMAIN f = i .. LEVELS - 1 /\ LevelOf(n)' = i - 1
    <2>1. DOMAIN f = i - 1 + 1 .. LEVELS - 1 /\ DOMAIN f = i .. LEVELS - 1
      BY <1>3, <1>7
    <2>2. LEVELS - 1 - Cardinality(DOMAIN f) = i - 1
      BY <1>3, <2>1, LevelOfFields
    <2> QED BY <1>9, <2>1, <2>2 DEF LevelOf
  <1>12. DOMAIN path \subseteq DOMAIN mem /\ TABLE_BEGIN \in DOMAIN path
    BY <1>2, <1>4 DEF MemOK, MapperTypeOK
  <1>13. \A u \in DOMAIN path : path[u] # f
    <2>1. LevelOf(c) # 0
      BY <1>3
    <2>2. \A u \in DOMAIN path : path[u] # Child(c, slot)
      BY <1>2, <1>3, <2>1 DEF TablesFormTree
    <2> QED BY <1>6, <2>2
  <1>14. \A s \in Slots : mem'[n][s] = ZeroPTE /\ ~V(mem'[n][s])
    <2>1. mem[n] = EmptyTable
      BY <1>0, <1>2, <1>4 DEF UnusedEmpty
    <2>2. mem'[n] = EmptyTable
      BY <1>4, <1>8, <2>1
    <2> QED BY <2>2 DEF EmptyTable, ZeroPTE, createPTE, V
  <1>15. PathsOK'
    <2>1. \A t \in DOMAIN path : /\ LevelOf(t)' \in 0 .. LEVELS - 1
                                 /\ path'[t] \in [LevelOf(t)' + 1 .. LEVELS - 1 -> Slots]
      BY <1>2, <1>9, <1>10 DEF PathsOK
    <2>2. i - 1 + 1 .. LEVELS - 1 = i .. LEVELS - 1
      BY <1>3
    <2>3. LevelOf(n)' \in 0 .. LEVELS - 1 /\ path'[n] \in [LevelOf(n)' + 1 .. LEVELS - 1 -> Slots]
      BY <1>3, <1>7, <1>9, <1>11, <2>2
    <2>4. LevelOf(TABLE_BEGIN)' = LEVELS - 1
      BY <1>2, <1>10, <1>12 DEF PathsOK
    <2> QED BY <1>9, <2>1, <2>3, <2>4 DEF PathsOK
  <1>16. PrefixClosed'
    <2>1. ASSUME NEW u \in DOMAIN path, NEW l \in LevelOf(u) .. LEVELS - 1
          PROVE  \E t \in DOMAIN path' : path'[t] = Above(path'[u], l)
      <3>1. PICK t \in DOMAIN path : path[t] = Above(path[u], l)
        BY <1>2 DEF PrefixClosed
      <3> QED BY <1>9, <3>1
    <2>2. ASSUME NEW l \in i - 1 .. LEVELS - 1
          PROVE  \E t \in DOMAIN path' : path'[t] = Above(path'[n], l)
      <3>1. CASE l = i - 1
        <4>1. Above(f, l) = [j \in i .. LEVELS - 1 |-> f[j]]
          BY <1>3, <3>1 DEF Above
        <4>2. f = [j \in i .. LEVELS - 1 |-> f[j]]
          BY <1>7
        <4> QED BY <1>9, <4>1, <4>2
      <3>2. CASE l # i - 1
        <4>1. l \in LevelOf(c) .. LEVELS - 1
          BY <1>3, <3>2
        <4>2. PICK t \in DOMAIN path : path[t] = Above(path[c], l)
          BY <1>2, <1>3, <4>1 DEF PrefixClosed
        <4>3. \A j \in l + 1 .. LEVELS - 1 :
                j \in i + 1 .. LEVELS - 1 /\ j \in i .. LEVELS - 1
          BY <1>3, <3>2
        <4>4. \A j \in l + 1 .. LEVELS - 1 : path[c][j] = call.vpn[j] /\ f[j] = call.vpn[j]
          BY <1>3, <1>6, <4>3 DEF Above
        <4>5. Above(path[c], l) = Above(f, l)
          BY <4>4 DEF Above
        <4> QED BY <1>9, <4>2, <4>5
      <3> QED BY <3>1, <3>2
    <2> QED BY <1>9, <1>10, <1>11, <2>1, <2>2 DEF PrefixClosed
  <1>17. \A s \in Slots : \A u \in DOMAIN path' : i - 1 # 0 => path'[u] # Child(n, s)'
    <2> SUFFICES ASSUME NEW s \in Slots, NEW u \in DOMAIN path', i - 1 # 0,
                        path'[u] = Child(n, s)'
                 PROVE  FALSE
      OBVIOUS
    <2>1. Child(n, s)' = [j \in DOMAIN f \cup {i - 1} |-> IF j = i - 1 THEN s ELSE f[j]]
      BY <1>9, <1>11 DEF Child
    <2>2. DOMAIN f \cup {i - 1} = i - 1 .. LEVELS - 1
      BY <1>3, <1>11
    <2>3. /\ DOMAIN path'[u] = i - 1 .. LEVELS - 1
          /\ \A j \in i .. LEVELS - 1 : path'[u][j] = f[j]
      <3>1. i - 1 \notin i .. LEVELS - 1
        BY <1>3
      <3> QED BY <1>3, <2>1, <2>2, <3>1
    <2>4. u # n
      BY <1>3, <1>9, <1>11, <2>3
    <2>5. u \in DOMAIN path /\ path[u] = path'[u]
      BY <1>9, <2>4
    <2>6. LevelOf(u) = i - 2
      <3>1. i - 2 \in 0 .. LEVELS - 1 /\ DOMAIN path[u] = i - 2 + 1 .. LEVELS - 1
        BY <1>3, <2>3, <2>5
      <3> QED BY <3>1, LevelOfFields DEF LevelOf
    <2>7. PICK t \in DOMAIN path : path[t] = Above(path[u], i - 1)
      <3>1. i - 1 \in LevelOf(u) .. LEVELS - 1
        BY <1>3, <2>6
      <3> QED BY <1>2, <2>5, <3>1 DEF PrefixClosed
    <2>8. Above(path[u], i - 1) = f
      <3>1. Above(path[u], i - 1) = [j \in i .. LEVELS - 1 |-> path[u][j]]
        BY <1>3 DEF Above
      <3>2. f = [j \in i .. LEVELS - 1 |-> f[j]]
        BY <1>7
      <3> QED BY <2>3, <2>5, <3>1, <3>2
    <2> QED BY <1>13, <2>7, <2>8
  <1>18. TablesFormTree'
    <2>1. IsInjective(path')
      BY <1>2, <1>9, <1>13 DEF TablesFormTree, IsInjective
    <2>2. DOMAIN path' = TABLE_BEGIN .. currTable' - 1
      BY <1>1, <1>4, <1>9
    <2>3. ASSUME NEW t \in DOMAIN path, NEW s \in Slots, LevelOf(t) # 0
          PROVE  IF V(mem'[t][s])
                 THEN mem'[t][s].ppn \in DOMAIN path' /\ path'[mem'[t][s].ppn] = Child(t, s)'
                 ELSE \A u \in DOMAIN path' : path'[u] # Child(t, s)'
      <3>1. CASE t = c /\ s = slot
        <4>1. V(mem'[t][s]) /\ mem'[t][s].ppn = n
          BY <1>5, <1>8, <3>1 DEF V
        <4> QED BY <1>6, <1>9, <1>10, <3>1, <4>1
      <3>2. CASE t # c \/ s # slot
        <4>1. mem'[t][s] = mem[t][s] /\ Child(t, s)' = Child(t, s)
          BY <1>8, <1>10, <1>12, <3>2
        <4>2. Child(t, s) # f
          BY <1>2, <1>3, <1>6, <3>2, ChildInjective
        <4> QED BY <1>2, <1>9, <2>3, <4>1, <4>2 DEF TablesFormTree
      <3> QED BY <3>1, <3>2
    <2>4. \A t \in DOMAIN path', s \in Slots :
            LevelOf(t)' # 0 =>
                IF V(mem'[t][s])
                THEN mem'[t][s].ppn \in DOMAIN path' /\ path'[mem'[t][s].ppn] = Child(t, s)'
                ELSE \A u \in DOMAIN path' : path'[u] # Child(t, s)'
      BY <1>9, <1>10, <1>11, <1>14, <1>17, <2>3
    <2> QED BY <2>1, <2>2, <2>4 DEF TablesFormTree
  <1>19. UnusedEmpty'
    <2>1. \A t \in n + 1 .. TABLE_END - 1 :
            t # c /\ t \in DOMAIN mem /\ t \in n .. TABLE_END - 1
      BY <1>2, <1>3, <1>4 DEF MemOK, TableRegion
    <2> QED BY <1>0, <1>1, <1>2, <1>8, <2>1 DEF UnusedEmpty
  <1>20. EntriesOK'
    <2>1. ASSUME NEW t \in DOMAIN path, NEW s \in Slots, V(mem'[t][s])
          PROVE  /\ mem'[t][s].rsv = FALSE
                 /\ LevelOf(t) # 0 => mem'[t][s].flags = {"V"}
                 /\ LevelOf(t) = 0 =>
                     /\ DEFAULT_FLAGS \subseteq mem'[t][s].flags
                     /\ mem'[t][s].ppn \notin TableRegion
      <3>1. CASE t = c /\ s = slot
        BY <1>3, <1>5, <1>8, <3>1
      <3>2. CASE t # c \/ s # slot
        BY <1>2, <1>8, <1>12, <2>1, <3>2 DEF EntriesOK
      <3> QED BY <3>1, <3>2
    <2> QED BY <1>9, <1>10, <1>14, <2>1 DEF EntriesOK
  <1>21. call \in [pc : {"idle", "map"}, vpn : VirtPages, ppn : Nat,
                 flags : SUBSET PTEFlags, i : 0 .. LEVELS - 1, table : TableRegion]
    BY DEF MapperInv, MapperTypeOK
  <1>22. /\ call'.pc = call.pc /\ call'.vpn = call.vpn /\ call'.ppn = call.ppn
         /\ call'.flags = call.flags /\ call'.i = i - 1 /\ call'.table = n
         /\ call' = [call EXCEPT !.i = i - 1, !.table = n]
    <2>1. n % PPN_SIZE = n
      BY <1>4
    <2>2. call' = [call EXCEPT !.i = i - 1, !.table = n]
      BY <1>0, <2>1 DEF MapNewTable
    <2> QED BY <1>21, <2>2
  <1>23. MapperTypeOK'
    <2>1. call' \in [pc : {"idle", "map"}, vpn : VirtPages, ppn : Nat,
                 flags : SUBSET PTEFlags, i : 0 .. LEVELS - 1, table : TableRegion]
      BY <1>3, <1>4, <1>21, <1>22
    <2>2. currTable' \in TABLE_BEGIN + 1 .. TABLE_END
      BY <1>1, <1>4
    <2>3. DOMAIN path' \subseteq TableRegion
      BY <1>2, <1>4, <1>9 DEF MapperTypeOK
    <2> QED BY <2>1, <2>2, <2>3 DEF MapperTypeOK
  <1>24. CallOK'
    <2>1. /\ call.ppn \in (0 .. PPN_SIZE - 1) \ TableRegion
          /\ DEFAULT_FLAGS \subseteq call.flags
      BY <1>1 DEF MapperInv, CallOK
    <2> QED BY <1>0, <1>9, <1>22, <2>1 DEF CallOK
  <1>25. SpaceMatches /\ SpaceMatches'
    BY <1>2, <1>15, <1>18, SpaceIs, SpaceIsNext
  <1>26. \A t \in DOMAIN path, s \in Slots : LevelOf(t) = 0 => mem'[t][s] = mem[t][s]
    BY <1>3, <1>8, <1>12
  <1>27. DOMAIN Space' = DOMAIN Space
    <2>1. ASSUME NEW v \in DOMAIN Space' PROVE v \in DOMAIN Space
      <3>1. PICK t \in DOMAIN path', s \in Slots :
                LevelOf(t)' = 0 /\ V(mem'[t][s]) /\ v = Child(t, s)'
        BY <1>25 DEF SpaceMatches
      <3>2. t \in DOMAIN path
        BY <1>9, <1>14, <3>1
      <3> QED BY <1>10, <1>25, <1>26, <3>1, <3>2 DEF SpaceMatches
    <2>2. ASSUME NEW v \in DOMAIN Space PROVE v \in DOMAIN Space'
      BY <1>9, <1>10, <1>25, <1>26 DEF SpaceMatches
    <2> QED BY <2>1, <2>2
  <1>28. ASSUME NEW v \in DOMAIN Space PROVE Space'[v] = Space[v]
    <2>1. PICK t \in DOMAIN path, s \in Slots :
                LevelOf(t) = 0 /\ V(mem[t][s]) /\ v = Child(t, s)
      BY <1>25 DEF SpaceMatches
    <2> QED BY <1>9, <1>10, <1>25, <1>26, <2>1 DEF SpaceMatches
  <1>29. Space = [v \in DOMAIN Space |-> Space[v]] /\ Space' = [v \in DOMAIN Space' |-> Space'[v]]
    BY <1>25 DEF SpaceMatches
  <1>30. Space' = Space
    BY <1>27, <1>28, <1>29
  <1>31. MapperInv'
    BY <1>8, <1>15, <1>16, <1>18, <1>19, <1>20, <1>23, <1>24 DEF MapperInv
  <1> QED BY <1>30, <1>31

(* Every iteration of map()'s loop keeps the invariant. *)
LEMMA MapStepInv ==
    ASSUME MapperInv, MapStep
    PROVE  MapperInv'
  BY MapDescendInv, MapErrorInv, MapLeafInv, MapNewTableInv DEF MapStep

(* It writes nothing outside the table region. *)
LEMMA MapStepElsewhere ==
    ASSUME MapperInv, MapStep
    PROVE  /\ DOMAIN mem' = DOMAIN mem
           /\ \A p \in DOMAIN mem \ TableRegion : mem'[p] = mem[p]
  <1>1. call.table \in TableRegion
    BY DEF MapperInv, MapperTypeOK
  <1>2. mem' = mem \/ \E p : WritePte(p)
    BY DEF MapStep, MapDescend, MapAlreadyMapped, MapRegionEnd, MapLeaf, MapNewTable
  <1>3. \A p : WritePte(p) => /\ DOMAIN mem' = DOMAIN mem
                              /\ \A q \in DOMAIN mem : q # call.table => mem'[q] = mem[q]
    BY DEF WritePte
  <1> QED BY <1>1, <1>2, <1>3

(* The constructor leaves the root table, and nothing is mapped. *)
LEMMA MapperInitInv ==
    ASSUME MemOK, \A t \in TableRegion : mem[t] = EmptyTable, MapperInit
    PROVE  MapperInv /\ Space = [v \in {} |-> 0]
  <1> USE PageTablesAssumption, MapperAssumption
  <1> DEFINE none == [j \in {} |-> 0]
  <1>1. /\ currTable = TABLE_BEGIN + 1
        /\ call = IdleCall
        /\ path = [t \in {TABLE_BEGIN} |-> none]
    BY DEF MapperInit
  <1>2. DOMAIN none = LEVELS - 1 + 1 .. LEVELS - 1
    BY Z3
  <1>3. DOMAIN path = {TABLE_BEGIN} /\ path[TABLE_BEGIN] = none
    BY <1>1
  <1>4. LevelOf(TABLE_BEGIN) = LEVELS - 1
    <2> HIDE DEF none
    <2>1. LEVELS - 1 - Cardinality(DOMAIN none) = LEVELS - 1
      BY <1>2, LevelOfFields
    <2> QED BY <1>3, <2>1 DEF LevelOf
  <1>5. none \in [LEVELS - 1 + 1 .. LEVELS - 1 -> Slots]
    BY <1>2
  <1>6. PathsOK
    BY <1>3, <1>4, <1>5 DEF PathsOK
  <1>7. TABLE_BEGIN \in TableRegion
    BY DEF TableRegion
  <1>8. \A s \in Slots : ~V(mem[TABLE_BEGIN][s])
    BY <1>7 DEF EmptyTable, ZeroPTE, createPTE, V
  <1>9. MapperTypeOK
    BY <1>1, <1>3, <1>7, SlotZero DEF MapperTypeOK, IdleCall, VirtPages
  <1>10. TablesFormTree
    <2>1. IsInjective(path)
      BY <1>3 DEF IsInjective
    <2>2. DOMAIN path = TABLE_BEGIN .. currTable - 1
      BY <1>1, <1>3
    <2>3. \A s \in Slots : LEVELS - 1 # 0 => none # Child(TABLE_BEGIN, s)
      <3>1. \A s \in Slots : LEVELS - 1 \in DOMAIN Child(TABLE_BEGIN, s)
        BY <1>4 DEF Child
      <3>2. LEVELS - 1 \notin DOMAIN none
        OBVIOUS
      <3> QED BY <3>1, <3>2
    <2> QED BY <1>3, <1>4, <1>8, <2>1, <2>2, <2>3 DEF TablesFormTree
  <1>11. PrefixClosed
    <2>1. none = Above(none, LEVELS - 1)
      BY <1>2, <1>5 DEF Above
    <2> QED BY <1>3, <1>4, <2>1 DEF PrefixClosed
  <1>12. UnusedEmpty
    BY <1>1 DEF UnusedEmpty, TableRegion
  <1>13. EntriesOK
    BY <1>3, <1>8 DEF EntriesOK
  <1>14. CallOK
    BY <1>1 DEF CallOK, Mapping, IdleCall
  <1>15. MapperInv
    BY <1>6, <1>9, <1>10, <1>11, <1>12, <1>13, <1>14 DEF MapperInv
  <1>16. SpaceMatches
    BY <1>6, <1>10, SpaceIs
  <1>17. DOMAIN Space = {}
    BY <1>3, <1>8, <1>16 DEF SpaceMatches
  <1>18. Space = [v \in DOMAIN Space |-> Space[v]]
    BY <1>16 DEF SpaceMatches
  <1> QED BY <1>15, <1>17, <1>18
=============================================================================
