-------------------------------- MODULE Hart --------------------------------
(***************************************************************************)
(* What one RISC-V instruction computes (hart.hpp, gpr.hpp, instr.hpp and  *)
(* the bodies of sim_instr.hpp): operators only, shared by the simulator's *)
(* model and by the instruction set it must implement.                     *)
(*                                                                         *)
(* Registers and addresses are numbers modulo REG_SIZE, eight bytes; an    *)
(* instruction code is a number below WORD_SIZE, four bytes; a byte has    *)
(* BYTE_BITS bits.  An immediate is the signed value of m_imm.             *)
(***************************************************************************)
EXTENDS Bits

CONSTANTS BYTE_BITS,           \* 8
          COUNT_BITS,          \* bits of the uint8_t a shift count is read as
          SHIFT_HI, SHIFTW_HI, \* 5 and 4: highest bit of a shift count
          GPR_NUMBER,          \* general purpose registers
          Decode               \* Instr(InstrCode): word -> decoded instruction

INSTR_CODE_SIZE == 4

WORD_BITS == 4 * BYTE_BITS
REG_BITS == 8 * BYTE_BITS
BYTE_SIZE == 2 ^ BYTE_BITS
WORD_SIZE == 2 ^ WORD_BITS
REG_SIZE == 2 ^ REG_BITS

ByteValues == 0 .. BYTE_SIZE - 1
RegValues == 0 .. REG_SIZE - 1
Words == 0 .. WORD_SIZE - 1
GprIdx == 0 .. GPR_NUMBER - 1

ASSUME HartAssumption ==
    /\ BYTE_BITS \in Nat \ {0}
    /\ COUNT_BITS \in Nat /\ COUNT_BITS <= INT_BITS
    /\ SHIFT_HI \in 0 .. COUNT_BITS - 1 /\ SHIFTW_HI \in 0 .. COUNT_BITS - 1
    /\ 2 ^ (SHIFT_HI + 1) = REG_BITS /\ 2 ^ (SHIFTW_HI + 1) = WORD_BITS
    /\ GPR_NUMBER \in Nat \ {0}

(* Instruction classes: the last two are an illegal code and a code that   *)
(* decodes but has no function in the dispatch table.                      *)
RegIds == {"ADD", "SUB", "SLT", "SLTU", "AND", "OR", "XOR", "SLL", "SRL", "SRA",
           "ADDW", "SUBW", "SLLW", "SRLW", "SRAW"}
ShiftImmIds == {"SLLI", "SRLI", "SRAI", "SLLIW", "SRLIW", "SRAIW"}
ImmIds == {"ADDI", "SLTI", "SLTIU", "ANDI", "ORI", "XORI", "ADDIW"} \cup ShiftImmIds
AluIds == RegIds \cup ImmIds \cup {"LUI", "AUIPC"}
LoadIds == {"LD", "LW", "LH", "LB", "LWU", "LHU", "LBU"}
StoreIds == {"SD", "SW", "SH", "SB"}
BranchIds == {"BEQ", "BNE", "BLT", "BLTU", "BGE", "BGEU"}
JumpIds == {"JAL", "JALR"}
Ids == AluIds \cup LoadIds \cup StoreIds \cup BranchIds \cup JumpIds
           \cup {"ECALL", "SIM_STATUS_INSTR", "UNIMPLEMENTED"}

Instr(id, rd, rs1, rs2, imm) ==
    [id |-> id, rd |-> rd, rs1 |-> rs1, rs2 |-> rs2, imm |-> imm, status |-> "none"]

statusInstr(status) ==
    [Instr("SIM_STATUS_INSTR", 0, 0, 0, 0) EXCEPT !.status = status]

IllegalInstr == statusInstr("SIM__NOT_IMPLEMENTED_INSTR")

(* "none", or m_status of a SIM_STATUS_INSTR. *)
InstrStatuses == {"none", "OK", "SIM__NOT_IMPLEMENTED_INSTR", "SIM__UNALIGNED_LOAD",
                  "MMU64__PAGE_FAULT", "PHYS_MEM__ACCESS_FAULT"}

Instrs == [id : Ids, rd : GprIdx, rs1 : GprIdx, rs2 : GprIdx, imm : Int,
           status : InstrStatuses]

ASSUME DecodeAssumption ==
    /\ Decode \in [Words -> Instrs]
    /\ \A w \in Words : Decode[w].id = "SIM_STATUS_INSTR" => Decode[w] = IllegalInstr

Wrap(n) == n % REG_SIZE

(* GPRFile::write: the zero register is cleared after every write. *)
GprWriteKeeps(gpr, rd, v) == [gpr EXCEPT ![rd] = v]   \* seeded fault: x0 kept
GprWrite(gpr, rd, v) == [[gpr EXCEPT ![rd] = v] EXCEPT ![0] = 0]

-----------------------------------------------------------------------------
(* ALU.  The 32-bit operations wrap and are sign-extended by the           *)
(* conversion from int32_t.                                                *)

SextWord(n) == Wrap(Signed(WORD_BITS, n))

LessSigned(a, b) == Signed(REG_BITS, a) < Signed(REG_BITS, b)

(* A shift by the width or more is undefined in C++.  Such counts do occur *)
(* (maskBits leaves a uint8_t as it is); the shift instructions of x86-64  *)
(* and AArch64, which the handlers compile to, take them modulo the width. *)
ShiftCount(w, n) == n % w

RegShift(hi, b) == maskBits(COUNT_BITS, hi, 0, Trunc(COUNT_BITS, b))

Bool(p) == IF p THEN 1 ELSE 0

AluResult(in, gpr, pc) ==
    LET a  == gpr[in.rs1]
        b  == IF in.id \in ImmIds THEN Wrap(in.imm) ELSE gpr[in.rs2]
        n  == ShiftCount(REG_BITS, IF in.id \in ShiftImmIds THEN in.imm
                                   ELSE RegShift(SHIFT_HI, b))
        nw == ShiftCount(WORD_BITS, IF in.id \in ShiftImmIds THEN in.imm
                                    ELSE RegShift(SHIFTW_HI, b))
        A  == BitsOf(REG_BITS, a)
        B  == BitsOf(REG_BITS, b)
    IN  CASE in.id \in {"ADD", "ADDI"}    -> Wrap(a + b)
          [] in.id = "SUB"                -> Wrap(a - b)
          [] in.id \in {"SLT", "SLTI"}    -> Bool(LessSigned(a, b))
          [] in.id \in {"SLTU", "SLTIU"}  -> Bool(a < b)
          [] in.id \in {"AND", "ANDI"}    -> ValueOf(A \cap B)
          [] in.id \in {"OR", "ORI"}      -> ValueOf(A \cup B)
          [] in.id \in {"XOR", "XORI"}    -> ValueOf((A \cup B) \ (A \cap B))
          [] in.id \in {"SLL", "SLLI"}    -> Wrap(a * 2 ^ n)
          [] in.id \in {"SRL", "SRLI"}    -> a \div 2 ^ n
          [] in.id \in {"SRA", "SRAI"}    -> Wrap(Signed(REG_BITS, a) \div 2 ^ n)
          [] in.id \in {"ADDW", "ADDIW"}  -> SextWord(a + b)
          [] in.id = "SUBW"               -> SextWord(a - b)
          [] in.id \in {"SLLW", "SLLIW"}  -> SextWord(Trunc(WORD_BITS, a) * 2 ^ nw)
          [] in.id \in {"SRLW", "SRLIW"}  -> SextWord(Trunc(WORD_BITS, a) \div 2 ^ nw)
          [] in.id \in {"SRAW", "SRAIW"}  -> SextWord(Signed(WORD_BITS, a) \div 2 ^ nw)
          [] in.id = "LUI"                -> SextWord(in.imm)
          [] in.id = "AUIPC"              -> Wrap(pc + Trunc(WORD_BITS, in.imm))

-----------------------------------------------------------------------------
(* simLoadInstr, simStoreInstr: the address, the bytes of an integer (the  *)
(* lowest first), and the value loaded, extended as its type asks.         *)
EffectiveVa(in, gpr) == Wrap(gpr[in.rs1] + in.imm)

AccessSize(id) ==
    CASE id \in {"LD", "SD"} -> 8
      [] id \in {"LW", "LWU", "SW"} -> 4
      [] id \in {"LH", "LHU", "SH"} -> 2
      [] id \in {"LB", "LBU", "SB"} -> 1

ByteOf(n, j) == (n \div 2 ^ (BYTE_BITS * j)) % BYTE_SIZE

FromBytes(page, off, size) ==
    SumFunctionOnSet([j \in 0 .. size - 1 |-> page[off + j] * 2 ^ (BYTE_BITS * j)],
                     0 .. size - 1)

LoadedValue(id, n) ==
    IF id \in {"LD", "LW", "LH", "LB"} THEN Wrap(Signed(BYTE_BITS * AccessSize(id), n))
    ELSE n

(* simCondBranch, JAL, JALR *)
TakenUnsigned(in, gpr) ==    \* seeded fault: BLT and BGE compare unsigned
    LET a == gpr[in.rs1]
        b == gpr[in.rs2]
    IN  CASE in.id = "BEQ"  -> a = b
          [] in.id = "BNE"  -> a # b
          [] in.id \in {"BLT", "BLTU"} -> a < b
          [] in.id \in {"BGE", "BGEU"} -> a >= b
Taken(in, gpr) ==
    LET a == gpr[in.rs1]
        b == gpr[in.rs2]
    IN  CASE in.id = "BEQ"  -> a = b
          [] in.id = "BNE"  -> a # b
          [] in.id = "BLT"  -> LessSigned(a, b)
          [] in.id = "BLTU" -> a < b
          [] in.id = "BGE"  -> ~LessSigned(a, b)
          [] in.id = "BGEU" -> a >= b

NewPc(in, gpr, pc) ==
    CASE in.id = "JAL"  -> Wrap(pc + in.imm)
      [] in.id = "JALR" -> LET t == Wrap(gpr[in.rs1] + in.imm) IN t - (t % 2)
      [] in.id \in BranchIds -> Wrap(pc + (IF Taken(in, gpr) THEN in.imm
                                           ELSE INSTR_CODE_SIZE))

PcAligned(pc) == pc % INSTR_CODE_SIZE = 0

NextPc(pc) == Wrap(pc + INSTR_CODE_SIZE)
=============================================================================
