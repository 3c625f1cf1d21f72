---------------------------- MODULE AddressSpace ----------------------------
(***************************************************************************)
(* What mapper and MMU promise together: a table from virtual to physical  *)
(* pages that only successful map() calls extend, that nothing the guest   *)
(* stores can change, and that every translation obeys.  There are no page *)
(* tables here, and virtual addresses that agree in the fields the mode    *)
(* looks at are the same address.                                          *)
(***************************************************************************)
EXTENDS Integers

CONSTANTS VirtPages,    \* virtual page numbers: tuples of VPN fields
          LEVELS,       \* the fields that count are 0 .. LEVELS-1
          Forbidden,    \* physical pages that may not be mapped
          FlagSets,     \* the flags map() is called with
          PPNs,         \* the physical pages map() is called with
          AccessTypes

VARIABLES space,     \* virtual page -> [ppn, flags]
          asked,     \* the pending call, or [op |-> "none"]
          mapRes,    \* status of the last map()
          res        \* status and page of the last translation

vars == <<space, asked, mapRes, res>>

Canonical(va) == [j \in 0 .. LEVELS - 1 |-> va[j]]

NoCall == [op |-> "none"]

Init ==
    /\ space = [v \in {} |-> 0]
    /\ asked = NoCall
    /\ mapRes = "none"
    /\ res = [status |-> "none", page |-> 0]

CallMap(flags, va, ppn) ==
    /\ asked = NoCall
    /\ IF ppn \in Forbidden
       THEN mapRes' = "MAPPER__TABLE_REGION_PAGE_MAPPED" /\ UNCHANGED asked
       ELSE /\ mapRes' = "pending"
            /\ asked' = [op |-> "map", va |-> Canonical(va), ppn |-> ppn,
                         flags |-> flags \cup {"V", "A", "D"}]
    /\ UNCHANGED <<space, res>>

(* The mapping is made, was there already, or there is no room for it. *)
EndMap ==
    /\ asked.op = "map"
    /\ \/ /\ asked.va \notin DOMAIN space
          /\ space' = [v \in DOMAIN space \cup {asked.va} |->
                          IF v = asked.va
                          THEN [ppn |-> asked.ppn, flags |-> asked.flags]
                          ELSE space[v]]
          /\ mapRes' = "OK"
       \/ /\ asked.va \in DOMAIN space
          /\ mapRes' = "MAPPER__ALREADY_MAPPED" /\ UNCHANGED space
       \/ /\ asked.va \notin DOMAIN space
          /\ mapRes' = "MAPPER__TABLE_REGION_END" /\ UNCHANGED space
    /\ asked' = NoCall
    /\ UNCHANGED res

CallTranslate(access, va) ==
    /\ asked = NoCall
    /\ asked' = [op |-> "translate", va |-> Canonical(va), access |-> access]
    /\ res' = [status |-> "pending", page |-> 0]
    /\ UNCHANGED <<space, mapRes>>

Right == [READ |-> "R", WRITE |-> "W", FETCH |-> "X"]

(* User code may use a page with U and the right; W without R is void. *)
Usable(flags, access) ==
    /\ {"U", Right[access]} \subseteq flags
    /\ "W" \in flags => "R" \in flags

EndTranslate ==
    /\ asked.op = "translate"
    /\ res' = IF /\ asked.va \in DOMAIN space
                 /\ Usable(space[asked.va].flags, asked.access)
              THEN [status |-> "OK", page |-> space[asked.va].ppn]
              ELSE [status |-> "MMU64__PAGE_FAULT", page |-> 0]
    /\ asked' = NoCall
    /\ UNCHANGED <<space, mapRes>>

Next ==
    \/ \E va \in VirtPages :
        \/ \E flags \in FlagSets, ppn \in PPNs : CallMap(flags, va, ppn)
        \/ \E access \in AccessTypes : CallTranslate(access, va)
    \/ EndMap
    \/ EndTranslate

Spec == Init /\ [][Next]_vars
=============================================================================
