------------------------- MODULE SimpleMemoryMapper -------------------------
(***************************************************************************)
(* SimpleMemoryMapper (simple_mapper.hpp, memory.cpp): builds page tables  *)
(* in the RAM pages [m_table_region_begin, m_table_region_end), the root   *)
(* in the first one.  One action per iteration of map()'s loop.            *)
(* Its reads and writes of PTEs never fail: every table is a page of the   *)
(* region, which the constructor added to RAM (MapperTypeOK, call.table).  *)
(***************************************************************************)
EXTENDS PageTables

CONSTANTS TABLE_BEGIN, TABLE_END   \* m_table_region_begin, m_table_region_end

ASSUME MapperAssumption ==
    /\ TABLE_BEGIN \in Nat /\ TABLE_END \in Nat
    /\ TABLE_BEGIN < TABLE_END /\ TABLE_END <= PPN_SIZE

VARIABLES currTable,   \* m_curr_table
          call,        \* map()'s argument and the loop's i and table_ppn
          mapRes,      \* the status map() returned last
          path         \* ghost: table -> the VPN fields that lead to it

mapperVars == <<currTable, call, mapRes, path>>

TableRegion == TABLE_BEGIN .. TABLE_END - 1

DEFAULT_FLAGS_NO_A == {"V", "D"}   \* seeded fault
DEFAULT_FLAGS == {"V", "A", "D"}

IdleCall == [pc |-> "idle", vpn |-> [j \in 0 .. FIELDS - 1 |-> 0], ppn |-> 0,
             flags |-> {}, i |-> 0, table |-> TABLE_BEGIN]

(* The constructor: the table pages are added to RAM, all zero. *)
MapperInit ==
    /\ currTable = TABLE_BEGIN + 1
    /\ call = IdleCall
    /\ mapRes = "none"
    /\ path = [t \in {TABLE_BEGIN} |-> [j \in {} |-> 0]]

Returned(status) ==
    /\ mapRes' = status
    /\ call' = IdleCall

(* map(): a mapping of a page of the table region is refused. *)
InTableRegionPastRoot(ppn) ==    \* seeded fault: the root is not in it
    ppn > TABLE_BEGIN /\ ppn < TABLE_END
InTableRegion(ppn) == ppn >= TABLE_BEGIN /\ ppn < TABLE_END

map(flags, vpn, ppn) ==
    /\ call.pc = "idle"
    /\ IF InTableRegion(ppn)
       THEN mapRes' = "MAPPER__TABLE_REGION_PAGE_MAPPED" /\ UNCHANGED call
       ELSE /\ mapRes' = "pending"
            /\ call' = [pc |-> "map", vpn |-> vpn, ppn |-> ppn,
                        flags |-> flags \cup DEFAULT_FLAGS,
                        i |-> LEVELS - 1, table |-> TABLE_BEGIN]
    /\ UNCHANGED <<mem, currTable, path>>

slot == getVPN(call.vpn, call.i)

mapPte == mem[call.table][slot]

Mapping == call.pc = "map"

WritePte(p) == mem' = [mem EXCEPT ![call.table][slot] = p]

(* The PTE is valid: go down, or report it. *)
MapDescend ==
    /\ Mapping /\ V(mapPte) /\ call.i # 0
    /\ call' = [call EXCEPT !.i = @ - 1, !.table = mapPte.ppn]
    /\ UNCHANGED <<mem, currTable, mapRes, path>>

MapOverwrites ==    \* seeded fault: a mapped page is mapped again
    /\ Mapping /\ V(mapPte) /\ call.i = 0
    /\ WritePte(createPTE(call.ppn, call.flags))
    /\ Returned("OK")
    /\ UNCHANGED <<currTable, path>>
MapAlreadyMapped ==
    /\ Mapping /\ V(mapPte) /\ call.i = 0
    /\ Returned("MAPPER__ALREADY_MAPPED")
    /\ UNCHANGED <<mem, currTable, path>>

RegionEndUnseen == FALSE   \* seeded fault: no check
RegionEnd == currTable = TABLE_END

NextTableSame == currTable   \* seeded fault: no increment
NextTable == currTable + 1

(* It is not: add a table, as long as there is room, or the leaf. *)
MapNewTable ==
    /\ Mapping /\ ~V(mapPte) /\ call.i # 0 /\ ~RegionEnd
    /\ currTable' = NextTable
    /\ WritePte(createPTE(currTable, {"V"}))
    /\ call' = [call EXCEPT !.i = @ - 1, !.table = currTable % PPN_SIZE]
    /\ path' = [t \in DOMAIN path \cup {currTable} |->
                   IF t \in DOMAIN path THEN path[t]
                   ELSE [j \in call.i .. LEVELS - 1 |-> call.vpn[j]]]
    /\ UNCHANGED mapRes

MapRegionEnd ==
    /\ Mapping /\ ~V(mapPte) /\ call.i # 0 /\ RegionEnd
    /\ Returned("MAPPER__TABLE_REGION_END")
    /\ UNCHANGED <<mem, currTable, path>>

MapLeaf ==
    /\ Mapping /\ ~V(mapPte) /\ call.i = 0
    /\ WritePte(createPTE(call.ppn, call.flags))
    /\ Returned("OK")
    /\ UNCHANGED <<currTable, path>>

MapStep == MapDescend \/ MapAlreadyMapped \/ MapNewTable \/ MapRegionEnd \/ MapLeaf

MapperTypeOK ==
    /\ currTable \in TABLE_BEGIN + 1 .. TABLE_END
    /\ call \in [pc : {"idle", "map"}, vpn : VirtPages, ppn : Nat,
                 flags : SUBSET PTEFlags, i : 0 .. LEVELS - 1,
                 table : TableRegion]
    /\ DOMAIN path \subseteq TableRegion

-----------------------------------------------------------------------------
(* The level of a table, from the fields that lead to it. *)
LevelOf(t) == LEVELS - 1 - Cardinality(DOMAIN path[t])

Child(t, s) == [j \in DOMAIN path[t] \cup {LevelOf(t)} |->
                   IF j = LevelOf(t) THEN s ELSE path[t][j]]

(* The tables are a tree: different tables are led to by different fields, *)
(* and a valid slot above the last level holds exactly the table that its  *)
(* fields lead to.  A table that was shared or lost would break it.        *)
TablesFormTree ==
    /\ IsInjective(path)
    /\ DOMAIN path = TABLE_BEGIN .. currTable - 1
    /\ \A t \in DOMAIN path, s \in Slots :
        LevelOf(t) # 0 =>
            IF V(mem[t][s])
            THEN mem[t][s].ppn \in DOMAIN path /\ path[mem[t][s].ppn] = Child(t, s)
            ELSE \A u \in DOMAIN path : path[u] # Child(t, s)

(* The address space that the tables stand for. *)
LeafTables == {t \in DOMAIN path : LevelOf(t) = 0}

Leaves == {l \in LeafTables \X Slots : V(mem[l[1]][l[2]])}

LeafAt(v) == CHOOSE l \in Leaves : Child(l[1], l[2]) = v

SpaceEntry(p) == [ppn |-> p.ppn, flags |-> p.flags]

Space == [v \in {Child(l[1], l[2]) : l \in Leaves} |->
             SpaceEntry(mem[LeafAt(v)[1]][LeafAt(v)[2]])]

Canonical(va) == [j \in 0 .. LEVELS - 1 |-> va[j]]
=============================================================================
