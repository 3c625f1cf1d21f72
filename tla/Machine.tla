------------------------------ MODULE Machine -------------------------------
(***************************************************************************)
(* The machine around the hart, as the instruction set and the simulator   *)
(* both see it: virtual pages, RAM and what the host (main(), the tests)   *)
(* may do while no guest runs.                                             *)
(*                                                                         *)
(* The address space only grows, by pages the host maps (SimApp.tla shows  *)
(* what main() hands over, VirtualMemory.tla that mapper and MMU make an   *)
(* address space the guest cannot change).  RAM is the flat memory of      *)
(* FlatMemory.tla.                                                         *)
(***************************************************************************)
EXTENDS Hart

CONSTANTS PAGE_SIZE,    \* bytes in a page
          InitialSpace, \* virtual page -> [ppn, rights], before the first run
          ICOUNT_SIZE,  \* m_icount is a size_t
          InitialMems,  \* RAM contents the host may load
          InitialGprs,  \* register contents the host may set
          StartPcs,     \* the start_pc values of simulate()
          HostWrites,   \* <<page, word index, word>> the host writes between runs
          HostMaps,     \* [va, ppn, rights] the host maps between runs
          HostPages     \* RAM pages the host adds between runs

Offsets == 0 .. PAGE_SIZE - 1
Pages == [Offsets -> ByteValues]

(* The host sets registers with GPRFile::write, which clears the zero one. *)
ASSUME MachineAssumption ==
    /\ PAGE_SIZE \in Nat \ {0} /\ PAGE_SIZE % 8 = 0
    /\ ICOUNT_SIZE \in Nat \ {0, 1}
    /\ StartPcs \subseteq RegValues
    /\ \A m \in InitialMems : DOMAIN m \subseteq Nat /\ m \in [DOMAIN m -> Pages]
    /\ \A g \in InitialGprs : g \in [GprIdx -> RegValues] /\ g[0] = 0
    /\ HostWrites \subseteq Nat \X Nat \X Words
    /\ HostPages \subseteq Nat

VARIABLES pc, gpr,   \* the hart
          space,     \* virtual page -> [ppn, rights]
          mem,       \* RAM page -> offset -> byte
          seen,      \* ghost: RAM page -> word index -> the words it ever held
          views,     \* ghost: the spaces and RAM pages there were, and are
          icount,    \* instructions since simulate() began
          status     \* "running", or what the last simulate() returned

machineVars == <<pc, gpr, space, mem, seen, views, icount, status>>

PageVa(va) == va - (va % PAGE_SIZE)
Offset(va) == va % PAGE_SIZE
WordIdx(va) == Offset(va) \div INSTR_CODE_SIZE

(* addrAlignMask *)
Unaligned(va, size) == va % size # 0

View(sp, ram) == [space |-> sp, ram |-> ram]
Now == View(space, DOMAIN mem)

(* MMU64::translate for a user access. *)
Translates(view, access, va) ==
    PageVa(va) \in DOMAIN view.space /\ access \in view.space[PageVa(va)].rights

PhysPage(va) == space[PageVa(va)].ppn

(* The status of an access that goes by the book. *)
AccessStatus(view, access, va, size, unaligned) ==
    IF Unaligned(va, size) THEN unaligned
    ELSE IF ~Translates(view, access, va) THEN "MMU64__PAGE_FAULT"
    ELSE IF view.space[PageVa(va)].ppn \notin view.ram THEN "PHYS_MEM__ACCESS_FAULT"
    ELSE "OK"

FetchStatus(view, va) ==
    AccessStatus(view, "FETCH", va, INSTR_CODE_SIZE, "SIM__UNALIGNED_LOAD")

WordAt(page, idx) == FromBytes(page, idx * INSTR_CODE_SIZE, INSTR_CODE_SIZE)

SeenIn(m) ==
    [p \in DOMAIN m |-> [i \in 0 .. PAGE_SIZE \div INSTR_CODE_SIZE - 1 |->
        {WordAt(m[p], i)} \cup IF p \in DOMAIN mem THEN seen[p][i] ELSE {}]]

(* The low bytes of v are stored. *)
StoreBytes(page, off, size, v) ==
    /\ mem' = [mem EXCEPT ![page] =
                  [o \in Offsets |-> IF o \in off .. off + size - 1
                                     THEN ByteOf(v, o - off) ELSE @[o]]]
    /\ seen' = SeenIn(mem')

Retire(newPc) ==
    /\ pc' = newPc
    /\ icount' = (icount + 1) % ICOUNT_SIZE

MachineInit ==
    /\ pc = 0
    /\ gpr \in InitialGprs
    /\ space = InitialSpace
    /\ mem \in InitialMems
    /\ seen = [p \in DOMAIN mem |-> [i \in 0 .. PAGE_SIZE \div INSTR_CODE_SIZE - 1 |->
                  {WordAt(mem[p], i)}]]
    /\ views = {Now}
    /\ icount = 0
    /\ status = "OK"

-----------------------------------------------------------------------------
(* The host, between two simulate() calls. *)

HostWrite(w) ==
    /\ status # "running"
    /\ StoreBytes(w[1], w[2] * INSTR_CODE_SIZE, INSTR_CODE_SIZE, w[3])
    /\ UNCHANGED <<pc, gpr, space, views, icount, status>>

(* SimpleMemoryMapper::map refuses a page that is mapped. *)
HostMapReplaces(m) ==    \* seeded fault: it maps the page again
    /\ status # "running"
    /\ space' = [v \in DOMAIN space \cup {m.va} |->
                    IF v = m.va THEN [ppn |-> m.ppn, rights |-> m.rights] ELSE space[v]]
    /\ views' = views \cup {View(space', DOMAIN mem)}
    /\ UNCHANGED <<pc, gpr, mem, seen, icount, status>>
HostMap(m) ==
    /\ status # "running" /\ m.va \notin DOMAIN space
    /\ space' = [v \in DOMAIN space \cup {m.va} |->
                    IF v = m.va THEN [ppn |-> m.ppn, rights |-> m.rights] ELSE space[v]]
    /\ views' = views \cup {View(space', DOMAIN mem)}
    /\ UNCHANGED <<pc, gpr, mem, seen, icount, status>>

(* PhysMemory::addRAMPage *)
HostAddPage(p) ==
    /\ status # "running" /\ p \notin DOMAIN mem
    /\ mem' = [q \in DOMAIN mem \cup {p} |->
                  IF q = p THEN [o \in Offsets |-> 0] ELSE mem[q]]
    /\ seen' = SeenIn(mem')
    /\ views' = views \cup {View(space, DOMAIN mem')}
    /\ UNCHANGED <<pc, gpr, space, icount, status>>

Host ==
    \/ \E w \in HostWrites : HostWrite(w)
    \/ \E m \in HostMaps : HostMap(m)
    \/ \E p \in HostPages : HostAddPage(p)

(* The host calls simulate(start_pc). *)
simulate(startPc) ==
    /\ status # "running"
    /\ pc' = startPc
    /\ icount' = 0
    /\ status' = "running"
    /\ UNCHANGED <<gpr, space, mem, seen, views>>
=============================================================================
