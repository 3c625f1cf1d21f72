---------------------------- MODULE MmuReference ----------------------------
(***************************************************************************)
(* MMU64::translate over page tables with any contents (tests and the host *)
(* write them with PhysMemory::write), compared with a declarative         *)
(* definition of the Sv39/Sv48/Sv57 translation: no loop, no early return. *)
(***************************************************************************)
EXTENDS Mmu

CONSTANTS Memories,   \* contents the memory may have
          Roots,      \* the root tables satp may point to
          Requests    \* <<privilege, access, virtual page>> of the calls

ASSUME MmuAssumption ==
    /\ NDEBUG \in BOOLEAN
    /\ \A m \in Memories : m \in [DOMAIN m -> [Slots -> PTEs]]
    /\ Roots \subseteq 0 .. PPN_SIZE - 1
    /\ Requests \subseteq Levels \X AccessTypes \X VirtPages

vars == <<mem, satp, mstatus, walk, res>>

Init ==
    /\ mem \in Memories
    /\ satp \in [mode : Modes, ppn : Roots]
    /\ mstatus \in [mxr : BOOLEAN, sum : BOOLEAN]
    /\ MmuInit

Next ==
    /\ \/ \E r \in Requests : translate(r[1], r[2], r[3])
       \/ WalkStep
    /\ UNCHANGED <<mem, satp, mstatus>>

Spec == Init /\ [][Next]_vars /\ WF_vars(WalkStep /\ UNCHANGED <<mem, satp, mstatus>>)

-----------------------------------------------------------------------------
(* The reference.  A path to level i is the tables the walk goes through   *)
(* from the root, each slot but the last pointing to the next one.         *)

SlotAt(t, va, j) == mem[t][va[j]]

Pointer(p) == p.flags \cap {"V", "R", "W", "X"} = {"V"} /\ ~p.rsv

IsPath(t, va, i) ==
    /\ t[LEVELS - 1] = satp.ppn
    /\ \A j \in i + 1 .. LEVELS - 1 :
        /\ t[j] \in DOMAIN mem
        /\ Pointer(SlotAt(t[j], va, j))
        /\ t[j - 1] = SlotAt(t[j], va, j).ppn

(* A path is maximal when its last slot points no further. *)
MaximalPaths(va, i) ==
    {t \in [i .. LEVELS - 1 -> 0 .. PPN_SIZE - 1] :
        /\ IsPath(t, va, i)
        /\ i = 0 \/ t[i] \notin DOMAIN mem \/ ~Pointer(SlotAt(t[i], va, i))}

(* The rights of the privileged specification: what a valid leaf grants,   *)
(* and which privilege may use it.                                         *)
Grants(flags) ==
    ({"READ"}  \cap {a \in AccessTypes : "R" \in flags \/ (mstatus.mxr /\ "X" \in flags)})
        \cup ({"WRITE"} \cap {a \in AccessTypes : "W" \in flags})
        \cup ({"FETCH"} \cap {a \in AccessTypes : "X" \in flags})

MayUse(priv, access, flags) ==
    IF "U" \in flags
    THEN priv = "USER" \/ (mstatus.sum /\ access # "FETCH")
    ELSE priv = "SUPERVISOR"

WellFormedLeaf(p) ==
    /\ "V" \in p.flags /\ ~p.rsv
    /\ p.flags \cap {"R", "X"} # {}
    /\ "W" \in p.flags => "R" \in p.flags

Outcome(priv, access, va, i, table) ==
    LET p == SlotAt(table, va, i)
        size == SuperPage(i)
    IN  IF table \notin DOMAIN mem THEN [status |-> "PHYS_MEM__ACCESS_FAULT", page |-> 0]
        ELSE IF \/ ~WellFormedLeaf(p)
                \/ access \notin Grants(p.flags)
                \/ ~MayUse(priv, access, p.flags)
                \/ \E k \in 1 .. size - 1 : (p.ppn - k) % size = 0
             THEN [status |-> "MMU64__PAGE_FAULT", page |-> 0]
        ELSE IF {"A", "D"} \subseteq p.flags \/ NDEBUG
             THEN [status |-> "OK", page |-> p.ppn + (LowPages(va, FIELDS) % size)]
        ELSE [status |-> "abort", page |-> 0]

-----------------------------------------------------------------------------
(* Every variable has its type. *)
TypeOK ==
    /\ mem \in [DOMAIN mem -> [Slots -> PTEs]]
    /\ MmuTypeOK

(* The loop ends in exactly the outcome that the reference assigns to the  *)
(* only maximal path of the address: status, page, superpage offset,       *)
(* permissions and order of the checks.                                    *)
TranslateMatchesReference ==
    walk.pc = "idle" /\ res.status # "none" =>
        IF satp.mode = "BARE"
        THEN res = [status |-> "OK", page |-> LowPages(walk.va, FIELDS)]
        ELSE \E i \in 0 .. LEVELS - 1 : \E t \in MaximalPaths(walk.va, i) :
                res = Outcome(walk.priv, walk.access, walk.va, i, t[i])

(* The walk always ends, whatever the tables hold: loops of tables too. *)
WalkEnds == walk.pc = "walk" ~> walk.pc = "idle"
=============================================================================
