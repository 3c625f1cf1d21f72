--------------------------- MODULE VirtualMemory ----------------------------
(***************************************************************************)
(* The mapper, the MMU and a guest that stores through the translations it *)
(* got, over one memory: the host maps pages at any moment between two     *)
(* translations (ElfLoader does it before the guest starts), the guest     *)
(* writes any PTE-sized word into the pages it can reach.                  *)
(***************************************************************************)
EXTENDS Mmu, SimpleMemoryMapper

CONSTANTS DataPages,   \* RAM outside the table region
          VAs,         \* the virtual pages in use
          MapPPNs,     \* the physical pages map() is called with
          FlagSets,    \* the flags it is called with
          GuestWords   \* words the guest stores

(* The pages that map() is called with have numbers below PPN_SIZE: the    *)
(* loader counts them up from the end of the table region.                 *)
ASSUME VirtualMemoryAssumption ==
    /\ DataPages \subseteq Nat /\ DataPages \cap TableRegion = {}
    /\ VAs \subseteq VirtPages
    /\ MapPPNs \subseteq 0 .. PPN_SIZE - 1
    /\ FlagSets \subseteq SUBSET PTEFlags
    /\ GuestWords \subseteq PTEs

vars == <<mem, satp, mstatus, walk, res, currTable, call, mapRes, path>>

(* main() leaves mstatus zero and sets satp before the guest runs. *)
Init ==
    /\ mem = [p \in TableRegion \cup DataPages |-> EmptyTable]
    /\ satp = [mode |-> "PAGED", ppn |-> TABLE_BEGIN]
    /\ mstatus = [mxr |-> FALSE, sum |-> FALSE]
    /\ MmuInit
    /\ MapperInit

(* Simulator::translateVa: every access is a user access. *)
translateVa(access, va) ==
    /\ ~Mapping
    /\ translate("USER", access, va)
    /\ UNCHANGED <<mem, satp, mstatus, mapperVars>>

HostMaps(flags, vpn, ppn) ==
    /\ walk.pc = "idle"
    /\ map(flags, vpn, ppn)
    /\ UNCHANGED <<satp, mstatus, mmuVars>>

Walks == WalkStep /\ UNCHANGED <<mem, satp, mstatus, mapperVars>>

Maps == MapStep /\ UNCHANGED <<satp, mstatus, mmuVars>>

(* The store that the last translation allows; a page that is not RAM is   *)
(* an access fault and stores nothing.                                     *)
GuestStore(s, word) ==
    /\ walk.pc = "idle" /\ ~Mapping
    /\ walk.access = "WRITE" /\ res.status = "OK" /\ res.page \in DOMAIN mem
    /\ mem' = [mem EXCEPT ![res.page][s] = word]
    /\ UNCHANGED <<satp, mstatus, walk, res, mapperVars>>

Next ==
    \/ \E va \in VAs :
        \/ \E access \in AccessTypes : translateVa(access, va)
        \/ \E flags \in FlagSets, ppn \in MapPPNs : HostMaps(flags, va, ppn)
    \/ Walks
    \/ Maps
    \/ \E s \in Slots, word \in GuestWords : GuestStore(s, word)

(* A call once made runs to its end. *)
Fairness == WF_vars(Walks) /\ WF_vars(Maps)

Spec == Init /\ [][Next]_vars /\ Fairness

-----------------------------------------------------------------------------
(* Every variable has its type. *)
TypeOK ==
    /\ mem \in [TableRegion \cup DataPages -> [Slots -> PTEs]]
    /\ MmuTypeOK
    /\ MapperTypeOK

(* No translation ever gives the guest a page of the table region, so that *)
(* nothing it stores can change a translation ("Mappings for table region  *)
(* pages are forbidden").                                                  *)
TablesProtected == res.status = "OK" => res.page \notin TableRegion

(* Walks over tables that the mapper made never leave the table region and *)
(* never meet the assertion on the A and D bits.                           *)
WalksAreClean == res.status \notin {"PHYS_MEM__ACCESS_FAULT", "abort"}

Asked ==
    CASE Mapping -> [op |-> "map", va |-> Canonical(call.vpn), ppn |-> call.ppn,
                     flags |-> call.flags]
      [] walk.pc = "walk" -> [op |-> "translate", va |-> Canonical(walk.va),
                              access |-> walk.access]
      [] OTHER -> [op |-> "none"]

Abstract == INSTANCE AddressSpace
                WITH space <- Space, asked <- Asked, VirtPages <- VAs,
                     Forbidden <- TableRegion, PPNs <- MapPPNs

(* Mapper, tables, walk and guest stores together are an address space:    *)
(* map() adds one translation or none, also when it runs out of tables     *)
(* half way down, translations follow it exactly, and stores never touch   *)
(* it.                                                                     *)
IsAddressSpace == Abstract!Spec

(* map() and translate() return: the level counter cannot run past 0. *)
CallsEnd ==
    /\ Mapping ~> ~Mapping
    /\ walk.pc = "walk" ~> walk.pc = "idle"
=============================================================================
