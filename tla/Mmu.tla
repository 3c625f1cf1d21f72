-------------------------------- MODULE Mmu ---------------------------------
(***************************************************************************)
(* MMU64::translate (memory/src/memory.cpp): one action per iteration of   *)
(* the walk, and the checks of the leaf it ends with.                      *)
(***************************************************************************)
EXTENDS PageTables

VARIABLES satp,      \* [mode, ppn]
          mstatus,   \* [mxr, sum]
          walk,      \* the call and the loop's i and table_ppn
          res        \* MMU64::Result, as a page number

mmuVars == <<walk, res>>

Modes == {"BARE", "PAGED"}
Levels == {"USER", "SUPERVISOR"}
AccessTypes == {"READ", "WRITE", "FETCH"}

ResultIs(status, page) == res' = [status |-> status, page |-> page]

(* The walk returns to the caller. *)
Ends(status, page) ==
    /\ ResultIs(status, page)
    /\ walk' = [walk EXCEPT !.pc = "idle"]

PageFault == Ends("MMU64__PAGE_FAULT", 0)

RootLevelPastEnd == LEVELS   \* seeded fault: off by one
RootLevel == LEVELS - 1

translate(priv, access, va) ==
    /\ walk.pc = "idle"
    /\ IF satp.mode = "BARE"
       THEN /\ ResultIs("OK", LowPages(va, FIELDS))
            /\ walk' = [walk EXCEPT !.priv = priv, !.access = access, !.va = va]
       ELSE /\ ResultIs("pending", 0)
            /\ walk' = [pc |-> "walk", priv |-> priv, access |-> access,
                        va |-> va, i |-> RootLevel, table |-> satp.ppn]

pte == mem[walk.table][getVPN(walk.va, walk.i)]

PteRead == walk.pc = "walk" /\ walk.table \in DOMAIN mem

BadPte == ~V(pte) \/ ("R" \notin pte.flags /\ "W" \in pte.flags) \/ pte.rsv

Leaf == "R" \in pte.flags \/ "X" \in pte.flags

TableAccessFault ==
    /\ walk.pc = "walk" /\ walk.table \notin DOMAIN mem
    /\ Ends("PHYS_MEM__ACCESS_FAULT", 0)

InvalidPteRetried ==    \* seeded fault: the loop reads the same PTE again
    PteRead /\ BadPte /\ UNCHANGED <<walk, res>>
InvalidPte == PteRead /\ BadPte /\ PageFault

NoLeaf == PteRead /\ ~BadPte /\ ~Leaf /\ walk.i = 0 /\ PageFault

DescendSameLevel ==    \* seeded fault: no --i
    /\ PteRead /\ ~BadPte /\ ~Leaf /\ walk.i # 0
    /\ walk' = [walk EXCEPT !.table = pte.ppn]
    /\ UNCHANGED res
Descend ==
    /\ PteRead /\ ~BadPte /\ ~Leaf /\ walk.i # 0
    /\ walk' = [walk EXCEPT !.i = @ - 1, !.table = pte.ppn]
    /\ UNCHANGED res

checkLeafFlags(priv, access, flags) ==
    LET user      == priv = "USER"
        userOk    == "U" \in flags /\ user
        superRwOk == ~user /\ ("U" \notin flags \/ mstatus.sum)
        superXOk  == ~user /\ "U" \notin flags
    IN  CASE access = "READ"  -> /\ "R" \in flags \/ ("X" \in flags /\ mstatus.mxr)
                                 /\ userOk \/ superRwOk
          [] access = "WRITE" -> "W" \in flags /\ (userOk \/ superRwOk)
          [] access = "FETCH" -> "X" \in flags /\ (userOk \/ superXOk)

Allowed == checkLeafFlags(walk.priv, walk.access, pte.flags)

Misaligned == walk.i > 0 /\ pte.ppn % SuperPage(walk.i) # 0

calcPhysPageNoSuper(p, va, i) == p.ppn   \* seeded fault: superpage offset lost
calcPhysPage(p, va, i) ==
    IF i = 0 THEN p.ppn
    ELSE p.ppn - (p.ppn % SuperPage(i)) + LowPages(va, i)

LeafRefused ==
    /\ PteRead /\ ~BadPte /\ Leaf
    /\ ~Allowed \/ Misaligned
    /\ PageFault

(* SIM_ASSERT(flags.d() && flags.a()): a debug build aborts here. *)
LeafFound ==
    /\ PteRead /\ ~BadPte /\ Leaf /\ Allowed /\ ~Misaligned
    /\ IF {"A", "D"} \subseteq pte.flags \/ NDEBUG
       THEN Ends("OK", calcPhysPage(pte, walk.va, walk.i))
       ELSE Ends("abort", 0)

WalkStep ==
    TableAccessFault \/ InvalidPte \/ NoLeaf \/ Descend \/ LeafRefused \/ LeafFound

IdleWalk == [pc |-> "idle", priv |-> "USER", access |-> "READ",
             va |-> [j \in 0 .. FIELDS - 1 |-> 0], i |-> 0, table |-> 0]

MmuInit ==
    /\ walk = IdleWalk
    /\ res = [status |-> "none", page |-> 0]

MmuTypeOK ==
    /\ walk \in [pc : {"idle", "walk"}, priv : Levels, access : AccessTypes,
                 va : VirtPages, i : 0 .. LEVELS - 1, table : 0 .. PPN_SIZE - 1]
    /\ res.page \in Nat
=============================================================================
