-------------------------------- MODULE Isa ---------------------------------
(***************************************************************************)
(* The instruction set the simulator must implement: fetch, decode and     *)
(* execute one instruction at a time, with no basic blocks and no TLBs.    *)
(*                                                                         *)
(* RISC-V lets an instruction fetch see any word that its location held    *)
(* until a FENCE.I, which this simulator does not implement: a fetch takes *)
(* one of the words ever seen there, or a fault that was due there before  *)
(* the host mapped the page.  Loads and stores are exact.                  *)
(***************************************************************************)
EXTENDS Machine

Stop(s) == status' = s /\ UNCHANGED <<pc, gpr, space, mem, seen, views, icount>>

Alu(in) ==
    /\ gpr' = GprWrite(gpr, in.rd, AluResult(in, gpr, pc))
    /\ Retire(NextPc(pc))
    /\ UNCHANGED <<space, mem, seen, views, status>>

Load(in) ==
    LET va   == EffectiveVa(in, gpr)
        size == AccessSize(in.id)
        st   == AccessStatus(Now, "READ", va, size, "SIM__UNALIGNED_LOAD")
    IN  IF st # "OK" THEN Stop(st)
        ELSE /\ gpr' = GprWrite(gpr, in.rd,
                          LoadedValue(in.id, FromBytes(mem[PhysPage(va)], Offset(va), size)))
             /\ Retire(NextPc(pc))
             /\ UNCHANGED <<space, mem, seen, views, status>>

Store(in) ==
    LET va   == EffectiveVa(in, gpr)
        size == AccessSize(in.id)
        st   == AccessStatus(Now, "WRITE", va, size, "SIM__UNALIGNED_STORE")
    IN  IF st # "OK" THEN Stop(st)
        ELSE /\ StoreBytes(PhysPage(va), Offset(va), size, gpr[in.rs2])
             /\ Retire(NextPc(pc))
             /\ UNCHANGED <<gpr, space, views, status>>

Jump(in) ==
    LET new == NewPc(in, gpr, pc)
    IN  IF ~PcAligned(new) THEN Stop("SIM__PC_ALIGN_ERROR")
        ELSE /\ gpr' = IF in.id \in JumpIds THEN GprWrite(gpr, in.rd, NextPc(pc)) ELSE gpr
             /\ Retire(new)
             /\ UNCHANGED <<space, mem, seen, views, status>>

Ecall ==
    /\ Retire(NextPc(pc))
    /\ status' = "OK"
    /\ UNCHANGED <<gpr, space, mem, seen, views>>

Execute(in) ==
    CASE in.id \in AluIds -> Alu(in)
      [] in.id \in LoadIds -> Load(in)
      [] in.id \in StoreIds -> Store(in)
      [] in.id \in JumpIds \cup BranchIds -> Jump(in)
      [] in.id = "ECALL" -> Ecall
      [] OTHER -> Stop("SIM__NOT_IMPLEMENTED_INSTR")

Step ==
    /\ status = "running"
    /\ \E view \in views :
        IF FetchStatus(view, pc) # "OK" THEN Stop(FetchStatus(view, pc))
        ELSE \E w \in seen[PhysPage(pc)][WordIdx(pc)] : Execute(Decode[w])

Next ==
    \/ \E startPc \in StartPcs : simulate(startPc)
    \/ Host
    \/ Step

Spec == MachineInit /\ [][Next]_machineVars
=============================================================================
