----------------------------- MODULE Simulator ------------------------------
(***************************************************************************)
(* Simulator::simulate with everything that makes it fast: decoded basic   *)
(* blocks in a direct-mapped cache (bb.hpp, bb_cache.hpp), three direct-   *)
(* mapped TLBs of host pointers (tlb.hpp, loadInt, storeInt) and the chain *)
(* of handlers that runs through a block (sim_instr.hpp, the dispatch      *)
(* table).  Nothing in the program ever invalidates these caches.          *)
(***************************************************************************)
EXTENDS Machine

CONSTANTS MAX_SIZE,        \* Bb::MAX_SIZE
          BB_CACHE_SIZE,   \* blocks in the cache
          TLB_SIZE,        \* entries of a TLB
          INVALID_VA       \* Bb::INVALID_VA, TLB::POISON_VA

ASSUME SimulatorAssumption ==
    /\ MAX_SIZE \in Nat /\ MAX_SIZE > 1
    /\ BB_CACHE_SIZE \in Nat \ {0}
    /\ TLB_SIZE \in Nat \ {0}
    /\ INVALID_VA \in Nat

VARIABLES bbs,    \* m_bb_cache: index -> [va, instrs]
          rtlb,   \* m_read_tlb: index -> [va, host]
          wtlb,   \* m_write_tlb
          ftlb,   \* m_fetch_tlb
          ctl     \* where simulate() is: [mode, bb, k]

simVars == <<bbs, rtlb, wtlb, ftlb, ctl>>
vars == <<pc, gpr, space, mem, seen, views, icount, status, bbs, rtlb, wtlb, ftlb, ctl>>

nullptr == -1

-----------------------------------------------------------------------------
(* TLB, loadInt, storeInt.  A host page pointer is named by its RAM page.  *)

TlbIdx(va) == (va \div PAGE_SIZE) % TLB_SIZE

EmptyTlb == [i \in 0 .. TLB_SIZE - 1 |-> [va |-> INVALID_VA, host |-> nullptr]]

TlbHit(tlb, va) == tlb[TlbIdx(va)].va = PageVa(va)

TlbUpdateKeepsTag(tlb, va, host) == [tlb EXCEPT ![TlbIdx(va)].host = host]   \* seeded fault
TlbUpdate(tlb, va, host) == [tlb EXCEPT ![TlbIdx(va)] = [va |-> PageVa(va), host |-> host]]

(* Status, host page and TLB after an access at va through the given TLB.  *)
(* A hit on an entry that was never filled dereferences a null pointer.    *)
Access(tlb, access, va, size, unaligned) ==
    LET st == AccessStatus(Now, access, va, size, unaligned)
    IN  IF Unaligned(va, size)
        THEN [status |-> unaligned, host |-> nullptr, tlb |-> tlb]
        ELSE IF TlbHit(tlb, va)
        THEN LET host == tlb[TlbIdx(va)].host
             IN  [status |-> IF host = nullptr THEN "segfault" ELSE "OK",
                  host |-> host, tlb |-> tlb]
        ELSE IF st # "OK"
        THEN [status |-> st, host |-> nullptr, tlb |-> tlb]
        ELSE [status |-> "OK", host |-> PhysPage(va),
              tlb |-> TlbUpdate(tlb, va, PhysPage(va))]

-----------------------------------------------------------------------------
(* Bb, BbCache *)

BbIdx(va) == (va \div INSTR_CODE_SIZE) % BB_CACHE_SIZE

EmptyBb == [va |-> INVALID_VA, instrs |-> [k \in 0 .. MAX_SIZE - 1 |-> IllegalInstr]]

isBranch(id) == id \in BranchIds \cup JumpIds

Init ==
    /\ MachineInit
    /\ bbs = [i \in 0 .. BB_CACHE_SIZE - 1 |-> EmptyBb]
    /\ rtlb = EmptyTlb /\ wtlb = EmptyTlb /\ ftlb = EmptyTlb
    /\ ctl = [mode |-> "idle", bb |-> 0, k |-> 0]

Goto(mode, bb, k) == ctl' = [mode |-> mode, bb |-> bb, k |-> k]

(* A null pointer is used: the host process dies. *)
Crash == Goto("crashed", 0, 0) /\ status' = "segfault"

CurrBb == bbs[ctl.bb]
CurrInstr == CurrBb.instrs[ctl.k]

HostCalls(startPc) ==
    /\ ctl.mode = "idle"
    /\ simulate(startPc)
    /\ Goto("lookup", 0, 0)
    /\ UNCHANGED <<bbs, rtlb, wtlb, ftlb>>

HostActs == ctl.mode = "idle" /\ Host /\ UNCHANGED simVars

(* The head of simulate()'s loop. *)
BbMissByIndex(bb) == bb.va = INVALID_VA   \* seeded fault: no tag
BbMiss(bb) == bb.va # pc

Lookup ==
    LET i == BbIdx(pc)
    IN  /\ ctl.mode = "lookup"
        /\ IF BbMiss(bbs[i])
           THEN bbs' = [bbs EXCEPT ![i].va = pc] /\ Goto("fill", i, 0)
           ELSE UNCHANGED bbs /\ Goto("exec", i, 0)
        /\ UNCHANGED <<machineVars, rtlb, wtlb, ftlb>>

(* One iteration of Bb::update: fetch, decode, end the block or go on. *)
SetInstr(k, in) == bbs' = [bbs EXCEPT ![ctl.bb].instrs[k] = in]

Fetched == Access(ftlb, "FETCH", Wrap(CurrBb.va + INSTR_CODE_SIZE * ctl.k),
                  INSTR_CODE_SIZE, "SIM__UNALIGNED_LOAD")

FillFails ==
    /\ ctl.mode = "fill" /\ Fetched.status # "OK"
    /\ IF Fetched.status = "segfault" THEN Crash /\ UNCHANGED bbs
       ELSE /\ SetInstr(ctl.k, statusInstr(Fetched.status))
            /\ Goto("exec", ctl.bb, 0)
            /\ UNCHANGED status
    /\ UNCHANGED <<pc, gpr, mem, seen, icount, rtlb, wtlb, ftlb>>

FillDecodesUncapped ==    \* seeded fault: no terminator after the last slot
    LET va == Wrap(CurrBb.va + INSTR_CODE_SIZE * ctl.k)
        in == Decode[WordAt(mem[Fetched.host], WordIdx(va))]
    IN  /\ ctl.mode = "fill" /\ Fetched.status = "OK"
        /\ SetInstr(ctl.k, in)
        /\ IF \/ in.id = "SIM_STATUS_INSTR" \/ isBranch(in.id)
              \/ ctl.k + 1 = MAX_SIZE
           THEN Goto("exec", ctl.bb, 0)
           ELSE Goto("fill", ctl.bb, ctl.k + 1)
        /\ ftlb' = Fetched.tlb
        /\ UNCHANGED <<machineVars, rtlb, wtlb>>
FillDecodes ==
    LET va   == Wrap(CurrBb.va + INSTR_CODE_SIZE * ctl.k)
        in   == Decode[WordAt(mem[Fetched.host], WordIdx(va))]
        ends == in.id = "SIM_STATUS_INSTR" \/ isBranch(in.id)
        full == ctl.k + 1 = MAX_SIZE - 1
        instrs == [CurrBb.instrs EXCEPT
                      ![ctl.k] = in,
                      ![MAX_SIZE - 1] = IF ~ends /\ full THEN statusInstr("OK") ELSE @]
    IN  /\ ctl.mode = "fill" /\ Fetched.status = "OK"
        /\ bbs' = [bbs EXCEPT ![ctl.bb].instrs = instrs]
        /\ IF ends \/ full THEN Goto("exec", ctl.bb, 0)
           ELSE Goto("fill", ctl.bb, ctl.k + 1)
        /\ ftlb' = Fetched.tlb
        /\ UNCHANGED <<machineVars, rtlb, wtlb>>

-----------------------------------------------------------------------------
(* simInstr<...>: an instruction returns to simulate() or runs the next    *)
(* one of the block.                                                       *)

Executing(ids) == ctl.mode = "exec" /\ CurrInstr.id \in ids

RunNext == Goto("exec", ctl.bb, ctl.k + 1) /\ UNCHANGED status   \* SIM_NEXT
ReturnOk == Goto("lookup", 0, 0) /\ UNCHANGED status
ReturnStatus(s) == Goto("idle", 0, 0) /\ status' = s

FaultsPastInstr(s) ==    \* seeded fault: pc is incremented before the check
    /\ IF s = "segfault" THEN Crash ELSE ReturnStatus(s)
    /\ pc' = NextPc(pc)
    /\ UNCHANGED <<gpr, mem, seen, icount>>
Faults(s) ==
    /\ IF s = "segfault" THEN Crash ELSE ReturnStatus(s)
    /\ UNCHANGED <<pc, gpr, mem, seen, icount>>

ExecStatusDropped ==    \* seeded fault: the block's status is not returned
    /\ Executing({"SIM_STATUS_INSTR"})
    /\ ReturnOk
    /\ UNCHANGED <<pc, gpr, mem, seen, icount, bbs, rtlb, wtlb, ftlb>>
ExecStatus ==
    /\ Executing({"SIM_STATUS_INSTR"})
    /\ IF CurrInstr.status = "OK" THEN ReturnOk ELSE ReturnStatus(CurrInstr.status)
    /\ UNCHANGED <<pc, gpr, mem, seen, icount, bbs, rtlb, wtlb, ftlb>>

ExecEcall ==
    /\ Executing({"ECALL"})
    /\ Retire(NextPc(pc))
    /\ ReturnStatus("OK")
    /\ UNCHANGED <<gpr, mem, seen, bbs, rtlb, wtlb, ftlb>>

ExecAlu ==
    /\ Executing(AluIds)
    /\ gpr' = GprWrite(gpr, CurrInstr.rd, AluResult(CurrInstr, gpr, pc))
    /\ Retire(NextPc(pc))
    /\ RunNext
    /\ UNCHANGED <<mem, seen, bbs, rtlb, wtlb, ftlb>>

ExecLoad ==
    LET id   == CurrInstr.id
        va   == EffectiveVa(CurrInstr, gpr)
        size == AccessSize(id)
        a    == Access(rtlb, "READ", va, size, "SIM__UNALIGNED_LOAD")
    IN  /\ Executing(LoadIds)
        /\ IF a.status # "OK" THEN Faults(a.status)
           ELSE /\ gpr' = GprWrite(gpr, CurrInstr.rd,
                          LoadedValue(id, FromBytes(mem[a.host], Offset(va), size)))
                /\ Retire(NextPc(pc))
                /\ RunNext
                /\ UNCHANGED <<mem, seen>>
        /\ rtlb' = a.tlb
        /\ UNCHANGED <<bbs, wtlb, ftlb>>

ExecStore ==
    LET va   == EffectiveVa(CurrInstr, gpr)
        size == AccessSize(CurrInstr.id)
        a    == Access(wtlb, "WRITE", va, size, "SIM__UNALIGNED_STORE")
    IN  /\ Executing(StoreIds)
        /\ IF a.status # "OK" THEN Faults(a.status)
           ELSE /\ StoreBytes(a.host, Offset(va), size, gpr[CurrInstr.rs2])
                /\ Retire(NextPc(pc))
                /\ RunNext
                /\ UNCHANGED gpr
        /\ wtlb' = a.tlb
        /\ UNCHANGED <<bbs, rtlb, ftlb>>

ExecJump ==
    LET new == NewPc(CurrInstr, gpr, pc)
    IN  /\ Executing(JumpIds \cup BranchIds)
        /\ IF ~PcAligned(new) THEN Faults("SIM__PC_ALIGN_ERROR")
           ELSE /\ gpr' = IF CurrInstr.id \in JumpIds
                          THEN GprWrite(gpr, CurrInstr.rd, NextPc(pc)) ELSE gpr
                /\ Retire(new)
                /\ ReturnOk
                /\ UNCHANGED <<mem, seen>>
        /\ UNCHANGED <<bbs, rtlb, wtlb, ftlb>>

(* dispatch() has no function for the instruction: nullptr is called. *)
ExecUnimplemented ==
    /\ Executing({"UNIMPLEMENTED"})
    /\ Crash
    /\ UNCHANGED <<pc, gpr, mem, seen, icount, bbs, rtlb, wtlb, ftlb>>

SimStep ==
    /\ \/ Lookup \/ FillFails \/ FillDecodes
       \/ ExecStatus \/ ExecEcall \/ ExecAlu \/ ExecLoad \/ ExecStore \/ ExecJump
       \/ ExecUnimplemented
    /\ UNCHANGED <<space, views>>

Next ==
    \/ \E startPc \in StartPcs : HostCalls(startPc)
    \/ HostActs
    \/ SimStep

(* simulate() runs by itself once it is called. *)
Spec == Init /\ [][Next]_vars /\ WF_vars(SimStep)

-----------------------------------------------------------------------------
(* Properties *)

Tlbs == [0 .. TLB_SIZE - 1 -> [va : Nat, host : Int]]

(* Every variable has its type. *)
TypeOK ==
    /\ pc \in RegValues /\ gpr \in [GprIdx -> RegValues]
    /\ \A p \in DOMAIN mem : mem[p] \in [Offsets -> ByteValues]
    /\ icount \in 0 .. ICOUNT_SIZE - 1
    /\ \A i \in 0 .. BB_CACHE_SIZE - 1 :
        bbs[i].va \in Nat /\ \A k \in 0 .. MAX_SIZE - 1 : bbs[i].instrs[k].id \in Ids
    /\ rtlb \in Tlbs /\ wtlb \in Tlbs /\ ftlb \in Tlbs
    /\ ctl \in [mode : {"idle", "lookup", "fill", "exec", "crashed"},
                bb : 0 .. BB_CACHE_SIZE - 1, k : 0 .. MAX_SIZE - 1]

(* The instruction about to run is the one at pc: the chain of handlers    *)
(* never leaves its block, runs past its terminator into what an older     *)
(* block left there, or lets pc and block drift apart.                     *)
RunsInstrAtPc ==
    ctl.mode = "exec" =>
        /\ pc = Wrap(CurrBb.va + INSTR_CODE_SIZE * ctl.k)
        /\ \/ CurrInstr = statusInstr("OK")
           \/ \E view \in views :
                  IF FetchStatus(view, pc) # "OK"
                  THEN CurrInstr = statusInstr(FetchStatus(view, pc))
                  ELSE \E w \in seen[PhysPage(pc)][WordIdx(pc)] : CurrInstr = Decode[w]

(* A TLB entry that was filled still gives what a translation would give   *)
(* now, for its kind of access only: page, right and RAM.                  *)
Coherent(tlb, access) ==
    \A i \in DOMAIN tlb :
        tlb[i].host # nullptr =>
            /\ Translates(Now, access, tlb[i].va)
            /\ tlb[i].host = PhysPage(tlb[i].va)
            /\ tlb[i].host \in DOMAIN mem
            /\ i = TlbIdx(tlb[i].va)

TlbsCoherent == Coherent(rtlb, "READ") /\ Coherent(wtlb, "WRITE") /\ Coherent(ftlb, "FETCH")

(* The zero register reads zero in every state, between two instructions   *)
(* of a block too.                                                         *)
ZeroIsZero == gpr[0] = 0

(* Blocks, caches and TLBs are invisible: every run is a run of the        *)
(* instruction set, with precise faults (a failing instruction changes     *)
(* nothing and pc points to it) and icount exact.                          *)
Arch == INSTANCE Isa

ImplementsIsa == Arch!Spec

(* simulate() never hangs inside one instruction: it retires another one   *)
(* or ends.                                                                *)
Progress ==
    \A n \in 0 .. ICOUNT_SIZE - 1 :
        (status = "running" /\ icount = n) ~> (status # "running" \/ icount # n)

(* An instruction that is decoded but not implemented is reported with     *)
(* SimStatus::SIM__NOT_IMPLEMENTED_INSTR.                                  *)
UnimplementedReported ==
    [][Executing({"UNIMPLEMENTED"}) => status' = "SIM__NOT_IMPLEMENTED_INSTR"]_vars

(* A memory access ends with a SimStatus, whatever its address. *)
AccessesEndWithStatus ==
    [][Executing(LoadIds \cup StoreIds) \/ ctl.mode = "fill" => status' # "segfault"]_vars
=============================================================================
