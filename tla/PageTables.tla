----------------------------- MODULE PageTables -----------------------------
(***************************************************************************)
(* The in-memory page tables that SimpleMemoryMapper writes and MMU64      *)
(* reads: pte.hpp, and the helpers of memory.cpp both use.                 *)
(*                                                                         *)
(* Memory is a function from the RAM's page numbers to pages of PTE slots  *)
(* (PhysMemory is such a flat memory, see FlatMemory).  A virtual page     *)
(* number is the tuple of its 9-bit VPN fields, field 0 being the lowest;  *)
(* it has more fields than the mode has levels.                            *)
(***************************************************************************)
EXTENDS Integers, FiniteSets, Functions

CONSTANTS LEVELS,       \* modeToLevels(mode)
          FIELDS,       \* VPN fields a virtual address has room for
          VPN_BIT_STEP, \* bits of a VPN field
          PPN_SIZE,     \* 2 ^ (PTE_PPN_HI - PTE_PPN_LO + 1)
          NDEBUG        \* SIM_ASSERT only evaluates its condition

ASSUME PageTablesAssumption ==
    /\ LEVELS \in Nat \ {0}
    /\ FIELDS \in Nat /\ FIELDS >= LEVELS
    /\ VPN_BIT_STEP \in Nat
    /\ PPN_SIZE \in Nat \ {0}

VARIABLE mem   \* RAM page number -> slot -> PTE

(* Slots of a table. *)
VPN_SIZE == 2 ^ VPN_BIT_STEP

Slots == 0 .. VPN_SIZE - 1

VirtPages == [0 .. FIELDS - 1 -> Slots]

PTEFlags == {"V", "R", "W", "X", "U", "A", "D"}

PTEs == [flags : SUBSET PTEFlags,
         rsv   : BOOLEAN,             \* pte & PTE_RESERWED_MASK
         ppn   : 0 .. PPN_SIZE - 1]

(* setBitField drops the bits of the ppn that have no room in the PTE. *)
createPTE(ppn, flags) == [flags |-> flags, rsv |-> FALSE, ppn |-> ppn % PPN_SIZE]

ZeroPTE == createPTE(0, {})

EmptyTable == [s \in Slots |-> ZeroPTE]

V(pte) == "V" \in pte.flags

getVPN(va, i) == va[i]

(* Pages that one slot of a table at level i spans. *)
SuperPage(i) == 2 ^ (VPN_BIT_STEP * i)

(* The number that VPN fields 0 .. n-1 of va make. *)
LowPages(va, n) ==
    SumFunctionOnSet([j \in 0 .. n - 1 |-> va[j] * SuperPage(j)], 0 .. n - 1)

=============================================================================
