-------------------------- MODULE SimulatorProofs ---------------------------
(***************************************************************************)
(* The simulator implements the instruction set, for every program, page   *)
(* size, block size, cache size and word width: as long as no null pointer *)
(* is used and no block that was never filled runs, which the runs         *)
(* simulator_unimplemented and simulator_poison show to happen.            *)
(***************************************************************************)
EXTENDS Simulator, ArithmeticProofs

-----------------------------------------------------------------------------
(* The operators of Hart.tla, for every width: every instruction body      *)
(* returns a register value, every byte of an integer is a byte, every     *)
(* four bytes are an instruction code.                                     *)

(* Widths and sizes are positive. *)
LEMMA Sizes ==
    /\ WORD_BITS \in Nat \ {0} /\ REG_BITS \in Nat \ {0}
    /\ BYTE_SIZE \in Nat \ {0} /\ WORD_SIZE \in Nat \ {0}
    /\ REG_SIZE \in Nat \ {0} /\ REG_SIZE > 1
  <1>1. BYTE_BITS \in Nat \ {0} /\ WORD_BITS \in Nat \ {0} /\ REG_BITS \in Nat \ {0}
    BY HartAssumption DEF WORD_BITS, REG_BITS
  <1>2. /\ BYTE_SIZE \in Nat /\ BYTE_SIZE > 0 /\ WORD_SIZE \in Nat /\ WORD_SIZE > 0
        /\ REG_SIZE \in Nat /\ REG_SIZE > 0
    BY <1>1, PowerType DEF BYTE_SIZE, WORD_SIZE, REG_SIZE
  <1>3. REG_SIZE > 1
    <2>1. PICK n \in Nat : REG_BITS = n + 1
      <3>1. REG_BITS - 1 \in Nat /\ REG_BITS = (REG_BITS - 1) + 1
        BY <1>1
      <3> QED BY <3>1
    <2>2. REG_SIZE = 2 * 2 ^ n /\ 2 ^ n \in Nat /\ 2 ^ n > 0
      BY <2>1, PowerStep, PowerType DEF REG_SIZE
    <2> QED BY <2>2
  <1> QED BY <1>1, <1>2, <1>3

(* Arithmetic modulo the register size. *)
LEMMA WrapType ==
    ASSUME NEW n \in Int
    PROVE  Wrap(n) \in RegValues
  BY Sizes, DivMod DEF Wrap, RegValues

(* Wrapping an operand first changes no wrapped sum. *)
LEMMA WrapPlus ==
    ASSUME NEW a \in Int, NEW b \in Int
    PROVE  Wrap(Wrap(a) + b) = Wrap(a + b)
  <1>1. PICK n \in Nat : n = REG_SIZE /\ n > 0
    BY Sizes
  <1>2. ((a % n) + b) % n = (a + b) % n
    BY <1>1, ModPlus
  <1> QED BY <1>1, <1>2 DEF Wrap

(* The low bits of a number, and their signed value, are integers. *)
LEMMA TruncType ==
    ASSUME NEW w \in Nat, NEW n \in Int
    PROVE  Trunc(w, n) \in 0 .. 2 ^ w - 1 /\ Trunc(w, n) \in Int
  <1>1. 2 ^ w \in Nat /\ 2 ^ w > 0
    BY PowerType
  <1>2. n % 2 ^ w \in 0 .. 2 ^ w - 1
    BY <1>1, DivMod
  <1> QED BY <1>1, <1>2 DEF Trunc

(* A signed value is an integer. *)
LEMMA SignedType ==
    ASSUME NEW w \in Nat, NEW n \in Int
    PROVE  Signed(w, n) \in Int
  <1>1. 2 ^ w \in Int /\ Trunc(w, n) \in Int
    BY PowerType, TruncType
  <1> QED BY <1>1 DEF Signed

(* A set of bit positions below w stands for a number below 2 ^ w. *)
LEMMA ValueOfType ==
    ASSUME NEW w \in Nat, NEW S \in SUBSET (0 .. w - 1)
    PROVE  ValueOf(S) \in 0 .. 2 ^ w - 1
  <1> DEFINE f == [i \in S |-> 2 ^ i]
  <1>1. ASSUME NEW j \in S PROVE \E d \in 0 .. 2 ^ 1 - 1 : f[j] = d * 2 ^ (1 * j)
    <2>1. 2 ^ 1 = 2 /\ 1 * j = j
      <3>1. 2 ^ (0 + 1) = 2 * 2 ^ 0 /\ 2 ^ 0 = 1 /\ 0 + 1 = 1
        BY PowerStep
      <3> QED BY <3>1
    <2>2. 2 ^ j \in Nat
      BY PowerType
    <2>3. 1 \in 0 .. 2 ^ 1 - 1 /\ f[j] = 1 * 2 ^ (1 * j)
      BY <2>1, <2>2
    <2> QED BY <2>3
  <1> HIDE DEF f
  <1>2. SumFunctionOnSet(f, S) \in 0 .. 2 ^ (1 * w) - 1
    BY <1>1, DigitsBound
  <1>3. 1 * w = w
    OBVIOUS
  <1> QED BY <1>2, <1>3 DEF f, ValueOf

(* Bytes make a number of as many bytes. *)
LEMMA FromBytesType ==
    ASSUME NEW page, NEW off \in Nat, NEW size \in Nat,
           \A o \in off .. off + size - 1 : page[o] \in ByteValues
    PROVE  FromBytes(page, off, size) \in 0 .. 2 ^ (BYTE_BITS * size) - 1
  <1> DEFINE D == 0 .. size - 1
             f == [j \in D |-> page[off + j] * 2 ^ (BYTE_BITS * j)]
  <1>1. BYTE_BITS \in Nat
    BY HartAssumption
  <1>2. ASSUME NEW j \in D PROVE \E d \in 0 .. 2 ^ BYTE_BITS - 1 : f[j] = d * 2 ^ (BYTE_BITS * j)
    <2>1. page[off + j] \in 0 .. 2 ^ BYTE_BITS - 1
      BY DEF ByteValues, BYTE_SIZE
    <2> QED BY <2>1
  <1> HIDE DEF f
  <1>3. D \in SUBSET (0 .. size - 1)
    OBVIOUS
  <1>4. SumFunctionOnSet(f, D) \in 0 .. 2 ^ (BYTE_BITS * size) - 1
    BY <1>1, <1>2, <1>3, DigitsBound
  <1> QED BY <1>4 DEF f, FromBytes

(* Four bytes are an instruction code. *)
LEMMA WordType ==
    ASSUME NEW page, NEW off \in Nat, \A o \in off .. off + 3 : page[o] \in ByteValues
    PROVE  FromBytes(page, off, INSTR_CODE_SIZE) \in Words
  <1>1. off + 4 - 1 = off + 3 /\ BYTE_BITS * 4 = WORD_BITS
    BY HartAssumption DEF WORD_BITS
  <1>2. FromBytes(page, off, 4) \in 0 .. 2 ^ (BYTE_BITS * 4) - 1
    BY <1>1, FromBytesType
  <1> QED BY <1>1, <1>2 DEF Words, WORD_SIZE, INSTR_CODE_SIZE

(* A byte of a number is a byte. *)
LEMMA ByteOfType ==
    ASSUME NEW n \in Int, NEW j \in Nat
    PROVE  ByteOf(n, j) \in ByteValues
  <1>1. BYTE_BITS * j \in Nat
    BY HartAssumption
  <1>2. 2 ^ (BYTE_BITS * j) \in Nat /\ 2 ^ (BYTE_BITS * j) > 0
    BY <1>1, PowerType
  <1>3. n \div 2 ^ (BYTE_BITS * j) \in Int
    BY <1>2, DivMod
  <1> QED BY <1>3, Sizes, DivMod DEF ByteOf, ByteValues

-----------------------------------------------------------------------------
Gprs == [GprIdx -> RegValues]

(* A shift count is below the width, whatever register or immediate it     *)
(* comes from.                                                             *)
LEMMA ShiftCountType ==
    ASSUME NEW hi \in {SHIFT_HI, SHIFTW_HI}, NEW b \in Int
    PROVE  RegShift(hi, b) \in Int
  <1>1. COUNT_BITS \in Nat /\ hi \in 0 .. COUNT_BITS - 1 /\ INT_BITS \in Nat
    BY HartAssumption, BitsAssumption
  <1>2. PICK left \in Nat : left = COUNT_BITS - hi - 1
    <2>1. COUNT_BITS - hi - 1 \in Nat
      BY <1>1
    <2> QED BY <2>1
  <1>3. PICK t \in Int : t = Trunc(COUNT_BITS, b)
    BY <1>1, TruncType
  <1>4. 2 ^ left \in Nat /\ 2 ^ left > 0 /\ 2 ^ (left + 0) \in Nat /\ 2 ^ (left + 0) > 0
        /\ 2 ^ 0 \in Nat
    BY PowerType
  <1>5. PICK p \in Nat : p = Promoted(COUNT_BITS)
    BY <1>1 DEF Promoted
  <1>6. PICK u \in Int : u = Trunc(p, t * 2 ^ left)
    <2>1. t * 2 ^ left \in Int
      BY <1>4
    <2> QED BY <2>1, TruncType
  <1>7. u \div 2 ^ (left + 0) \in Int
    BY <1>4, DivMod
  <1>8. PICK g \in Int : g = getBitField(COUNT_BITS, hi, 0, t)
    <2>1. Trunc(COUNT_BITS, u \div 2 ^ (left + 0)) \in Int
      BY <1>1, <1>7, TruncType
    <2> QED BY <1>2, <1>5, <1>6, <2>1 DEF getBitField
  <1>9. g * 2 ^ 0 \in Int
    BY <1>4
  <1>10. Trunc(COUNT_BITS, g * 2 ^ 0) \in Int
    BY <1>1, <1>9, TruncType
  <1> QED BY <1>3, <1>8, <1>10 DEF RegShift, maskBits

(* Every instruction body of the ALU gives a register value. *)
LEMMA AluType ==
    ASSUME NEW in \in Instrs, in.id \in AluIds, NEW g \in Gprs, NEW p \in RegValues
    PROVE  AluResult(in, g, p) \in RegValues
  <1> DEFINE a  == g[in.rs1]
             b  == IF in.id \in ImmIds THEN Wrap(in.imm) ELSE g[in.rs2]
             n  == ShiftCount(REG_BITS, IF in.id \in ShiftImmIds THEN in.imm
                                        ELSE RegShift(SHIFT_HI, b))
             nw == ShiftCount(WORD_BITS, IF in.id \in ShiftImmIds THEN in.imm
                                         ELSE RegShift(SHIFTW_HI, b))
             A  == BitsOf(REG_BITS, a)
             B  == BitsOf(REG_BITS, b)
  <1>1. in.imm \in Int /\ in.rs1 \in GprIdx /\ in.rs2 \in GprIdx
    BY DEF Instrs
  <1>2. a \in RegValues /\ b \in RegValues
    BY <1>1, WrapType DEF Gprs
  <1>3. RegValues \subseteq Nat /\ RegValues \subseteq Int /\ 0 \in RegValues /\ 1 \in RegValues
    BY Sizes DEF RegValues
  <1> HIDE DEF a, b
  <1>4. /\ (IF in.id \in ShiftImmIds THEN in.imm ELSE RegShift(SHIFT_HI, b)) \in Int
        /\ (IF in.id \in ShiftImmIds THEN in.imm ELSE RegShift(SHIFTW_HI, b)) \in Int
    BY <1>1, <1>2, <1>3, ShiftCountType
  <1>5. n \in Nat /\ nw \in Nat
    <2>1. \A x \in Int : x % REG_BITS \in Nat /\ x % WORD_BITS \in Nat
      BY Sizes, DivMod
    <2> QED BY <1>4, <2>1 DEF ShiftCount
  <1> HIDE DEF n, nw
  <1>6. 2 ^ n \in Nat /\ 2 ^ n > 0 /\ 2 ^ nw \in Nat /\ 2 ^ nw > 0
    BY <1>5, PowerType
  <1>7. WORD_BITS \in Nat /\ REG_BITS \in Nat
    BY Sizes
  <1>8. \A S \in SUBSET (0 .. REG_BITS - 1) : ValueOf(S) \in RegValues
    BY <1>7, ValueOfType DEF RegValues, REG_SIZE
  <1>9. \A x \in Int : SextWord(x) \in RegValues
    BY <1>7, SignedType, WrapType DEF SextWord
  <1>10. \A c : Bool(c) \in RegValues
    BY <1>3 DEF Bool
  <1>11. A \in SUBSET (0 .. REG_BITS - 1) /\ B \in SUBSET (0 .. REG_BITS - 1)
    BY DEF BitsOf
  <1> HIDE DEF A, B
  <1>12. Wrap(a + b) \in RegValues /\ Wrap(a - b) \in RegValues
    BY <1>2, <1>3, WrapType
  <1>13. /\ ValueOf(A \cap B) \in RegValues /\ ValueOf(A \cup B) \in RegValues
         /\ ValueOf((A \cup B) \ (A \cap B)) \in RegValues
    BY <1>8, <1>11
  <1>14. Wrap(a * 2 ^ n) \in RegValues
    <2>1. a * 2 ^ n \in Int
      BY <1>2, <1>3, <1>6
    <2> QED BY <2>1, WrapType
  <1>15. a \div 2 ^ n \in RegValues
    <2>1. a \div 2 ^ n \in 0 .. a
      BY <1>2, <1>3, <1>6, DivBound
    <2>2. \A x \in 0 .. a : x \in RegValues
      BY <1>2, Sizes DEF RegValues
    <2> QED BY <2>1, <2>2
  <1>16. Wrap(Signed(REG_BITS, a) \div 2 ^ n) \in RegValues
    <2>1. Signed(REG_BITS, a) \in Int
      BY <1>2, <1>3, <1>7, SignedType
    <2>2. Signed(REG_BITS, a) \div 2 ^ n \in Int
      BY <1>6, <2>1, DivMod
    <2> QED BY <2>2, WrapType
  <1>17. SextWord(a + b) \in RegValues /\ SextWord(a - b) \in RegValues
    BY <1>2, <1>3, <1>9
  <1>18. Trunc(WORD_BITS, a) \in Int /\ Signed(WORD_BITS, a) \in Int
         /\ Trunc(WORD_BITS, in.imm) \in Int
    BY <1>1, <1>2, <1>3, <1>7, TruncType, SignedType
  <1>19. /\ Trunc(WORD_BITS, a) * 2 ^ nw \in Int
         /\ Trunc(WORD_BITS, a) \div 2 ^ nw \in Int
         /\ Signed(WORD_BITS, a) \div 2 ^ nw \in Int
    BY <1>6, <1>18, DivMod
  <1>20. /\ SextWord(Trunc(WORD_BITS, a) * 2 ^ nw) \in RegValues
         /\ SextWord(Trunc(WORD_BITS, a) \div 2 ^ nw) \in RegValues
         /\ SextWord(Signed(WORD_BITS, a) \div 2 ^ nw) \in RegValues
         /\ SextWord(in.imm) \in RegValues
    BY <1>1, <1>9, <1>19
  <1>21. Wrap(p + Trunc(WORD_BITS, in.imm)) \in RegValues
    <2>1. p + Trunc(WORD_BITS, in.imm) \in Int
      BY <1>3, <1>18
    <2> QED BY <2>1, WrapType
  <1>22. \A x \in {Wrap(a + b), Wrap(a - b), Bool(LessSigned(a, b)), Bool(a < b),
                   ValueOf(A \cap B), ValueOf(A \cup B), ValueOf((A \cup B) \ (A \cap B)),
                   Wrap(a * 2 ^ n), a \div 2 ^ n, Wrap(Signed(REG_BITS, a) \div 2 ^ n),
                   SextWord(a + b), SextWord(a - b),
                   SextWord(Trunc(WORD_BITS, a) * 2 ^ nw),
                   SextWord(Trunc(WORD_BITS, a) \div 2 ^ nw),
                   SextWord(Signed(WORD_BITS, a) \div 2 ^ nw),
                   SextWord(in.imm), Wrap(p + Trunc(WORD_BITS, in.imm))} : x \in RegValues
    BY <1>10, <1>12, <1>13, <1>14, <1>15, <1>16, <1>17, <1>20, <1>21
  <1> QED BY <1>22 DEF AluResult, AluIds, RegIds, ImmIds, ShiftImmIds, a, b, n, nw, A, B

(* A register write keeps the zero register at zero and the file's type. *)
LEMMA GprWriteType ==
    ASSUME NEW g \in Gprs, NEW rd \in GprIdx, NEW v \in RegValues
    PROVE  GprWrite(g, rd, v) \in Gprs /\ GprWrite(g, rd, v)[0] = 0
  <1>1. 0 \in GprIdx /\ 0 \in RegValues
    BY HartAssumption, Sizes DEF GprIdx, RegValues
  <1> QED BY <1>1 DEF GprWrite, Gprs

(* An access is of one, two, four or eight bytes. *)
LEMMA AccessSizeType ==
    ASSUME NEW id \in LoadIds \cup StoreIds
    PROVE  AccessSize(id) \in {1, 2, 4, 8}
  BY DEF AccessSize, LoadIds, StoreIds

(* The address of a load or store is a register value. *)
LEMMA EffectiveVaType ==
    ASSUME NEW in \in Instrs, NEW g \in Gprs
    PROVE  EffectiveVa(in, g) \in RegValues
  <1>1. RegValues \subseteq Int
    BY Sizes DEF RegValues
  <1>2. PICK x \in Int, y \in Int : x = g[in.rs1] /\ y = in.imm
    BY <1>1 DEF Instrs, Gprs
  <1>3. g[in.rs1] + in.imm \in Int
    BY <1>2
  <1> QED BY <1>3, WrapType DEF EffectiveVa

(* Every load gives a register value. *)
LEMMA LoadedType ==
    ASSUME NEW id \in LoadIds, NEW page, NEW off \in Nat,
           \A o \in off .. off + AccessSize(id) - 1 : page[o] \in ByteValues
    PROVE  LoadedValue(id, FromBytes(page, off, AccessSize(id))) \in RegValues
  <1>1. PICK size \in {1, 2, 4, 8} : size = AccessSize(id)
    BY AccessSizeType
  <1>2. FromBytes(page, off, size) \in 0 .. 2 ^ (BYTE_BITS * size) - 1
    BY <1>1, FromBytesType
  <1>3. PICK k \in Nat, l \in Nat : k = BYTE_BITS * size /\ REG_BITS = k + l
    <2>1. /\ BYTE_BITS * size \in Nat /\ BYTE_BITS * (8 - size) \in Nat
          /\ REG_BITS = BYTE_BITS * size + BYTE_BITS * (8 - size)
      BY HartAssumption DEF REG_BITS
    <2> QED BY <2>1
  <1>4. REG_SIZE >= 2 ^ k
    <2>1. PICK x \in Nat, y \in Nat : x = 2 ^ k /\ y = 2 ^ l /\ y > 0
      BY PowerType
    <2>2. REG_SIZE = x * y
      BY <1>3, <2>1, PowerAdd DEF REG_SIZE
    <2>3. x * y >= x
      BY <2>1
    <2> QED BY <2>1, <2>2, <2>3
  <1>5. PICK n \in Nat : n = FromBytes(page, off, size) /\ n < 2 ^ k
    BY <1>2, <1>3, PowerType
  <1>6. n \in RegValues
    BY <1>4, <1>5, Sizes, PowerType DEF RegValues
  <1>7. Wrap(Signed(k, n)) \in RegValues
    BY SignedType, WrapType
  <1> QED BY <1>1, <1>3, <1>5, <1>6, <1>7 DEF LoadedValue

(* Where an instruction goes on is an address. *)
LEMMA NewPcType ==
    ASSUME NEW in \in Instrs, in.id \in JumpIds \cup BranchIds, NEW g \in Gprs,
           NEW p \in RegValues
    PROVE  NewPc(in, g, p) \in RegValues
  <1>1. RegValues \subseteq Int /\ in.imm \in Int /\ g[in.rs1] \in RegValues
    BY Sizes DEF RegValues, Instrs, Gprs
  <1>2. Wrap(p + in.imm) \in RegValues /\ Wrap(p + INSTR_CODE_SIZE) \in RegValues
    BY <1>1, WrapType DEF INSTR_CODE_SIZE
  <1>3. PICK t \in RegValues : t = Wrap(g[in.rs1] + in.imm)
    <2>1. g[in.rs1] + in.imm \in Int
      BY <1>1
    <2> QED BY <2>1, WrapType
  <1>4. t - (t % 2) \in RegValues
    BY Sizes DEF RegValues
  <1> QED BY <1>2, <1>3, <1>4 DEF NewPc, JumpIds, BranchIds

(* So is the address of the next instruction. *)
LEMMA NextPcType ==
    ASSUME NEW p \in RegValues
    PROVE  NextPc(p) \in RegValues
  <1>1. p + INSTR_CODE_SIZE \in Int
    BY Sizes DEF RegValues, INSTR_CODE_SIZE
  <1> QED BY <1>1, WrapType DEF NextPc

(* The next instruction of a block is one code further. *)
LEMMA NextPcInBlock ==
    ASSUME NEW va \in Nat, NEW k \in Nat
    PROVE  NextPc(Wrap(va + INSTR_CODE_SIZE * k)) = Wrap(va + INSTR_CODE_SIZE * (k + 1))
  <1>1. /\ va + INSTR_CODE_SIZE * k \in Int
        /\ (va + INSTR_CODE_SIZE * k) + INSTR_CODE_SIZE = va + INSTR_CODE_SIZE * (k + 1)
    BY DEF INSTR_CODE_SIZE
  <1> QED BY <1>1, WrapPlus DEF NextPc, INSTR_CODE_SIZE

(* What the decoder makes is an instruction, and so is a status. *)
LEMMA DecodeType ==
    /\ \A w \in Words : Decode[w] \in Instrs
    /\ \A s \in InstrStatuses : statusInstr(s) \in Instrs
  <1>1. \A w \in Words : Decode[w] \in Instrs
    BY DecodeAssumption
  <1>2. 0 \in GprIdx /\ 0 \in Int
    BY HartAssumption DEF GprIdx
  <1>3. \A s \in InstrStatuses : statusInstr(s) \in Instrs
    BY <1>2 DEF statusInstr, Instr, Instrs, Ids
  <1> QED BY <1>1, <1>3

-----------------------------------------------------------------------------
(* The simulator. *)
WordIdxs == 0 .. PAGE_SIZE \div INSTR_CODE_SIZE - 1
BbIdxs == 0 .. BB_CACHE_SIZE - 1
BbSlots == 0 .. MAX_SIZE - 1

-----------------------------------------------------------------------------
(* The inductive invariant. *)

MachineOK ==
    /\ pc \in RegValues /\ gpr \in Gprs /\ gpr[0] = 0
    /\ DOMAIN mem \subseteq Nat /\ mem \in [DOMAIN mem -> Pages]
    /\ icount \in 0 .. ICOUNT_SIZE - 1

(* The ghosts remember: the words in memory were seen, and nothing but     *)
(* words; what was mapped or RAM once is so now.                           *)
SeenOK ==
    \A p \in DOMAIN mem, i \in WordIdxs :
        WordAt(mem[p], i) \in seen[p][i] /\ seen[p][i] \subseteq Words

ViewsOK ==
    /\ Now \in views
    /\ \A view \in views :
        /\ view.ram \subseteq DOMAIN mem
        /\ \A v \in DOMAIN view.space : v \in DOMAIN space /\ view.space[v] = space[v]

TlbsOK == rtlb \in Tlbs /\ wtlb \in Tlbs /\ ftlb \in Tlbs /\ TlbsCoherent

(* An instruction that a fetch at va may give, or once gave. *)
FetchedAt(va, in) ==
    \E view \in views :
        IF FetchStatus(view, va) # "OK"
        THEN in = statusInstr(FetchStatus(view, va))
        ELSE \E w \in seen[PhysPage(va)][WordIdx(va)] : in = Decode[w]

InstrVa(bb, k) == Wrap(bb.va + INSTR_CODE_SIZE * k)

Ends(in) == in.id = "SIM_STATUS_INSTR" \/ isBranch(in.id)

RunsPast(bb, k) == \A j \in 0 .. k - 1 : ~Ends(bb.instrs[j])

SlotOK(bb, k) == bb.instrs[k] = statusInstr("OK") \/ FetchedAt(InstrVa(bb, k), bb.instrs[k])

(* Control that enters a block at its first slot leaves it at an           *)
(* instruction that ends it, and up to there every slot was filled for     *)
(* this block, whatever older blocks left behind it.                       *)
BlockEnds(bb) == \E k \in BbSlots : Ends(bb.instrs[k])
BlockOK(bb) == bb.va # INVALID_VA => \A k \in BbSlots : RunsPast(bb, k) => SlotOK(bb, k)

BbsType == bbs \in [BbIdxs -> [va : Nat, instrs : [BbSlots -> Instrs]]]

(* Neither being filled nor left half filled by a crash. *)
Filled(b) == ctl.mode # "crashed" /\ ~(ctl.mode = "fill" /\ ctl.bb = b)

BlocksOK == \A b \in BbIdxs : Filled(b) => BlockEnds(bbs[b]) /\ BlockOK(bbs[b])

CtlType ==
    ctl \in [mode : {"idle", "lookup", "fill", "exec", "crashed"}, bb : BbIdxs, k : BbSlots]

CtlOK ==
    /\ ctl.mode \in {"lookup", "fill", "exec"} => status = "running"
    /\ ctl.mode = "fill" =>
        /\ pc = CurrBb.va /\ ctl.k < MAX_SIZE - 1
        /\ RunsPast(CurrBb, ctl.k)
        /\ \A j \in 0 .. ctl.k - 1 : SlotOK(CurrBb, j)
    /\ ctl.mode = "exec" => pc = InstrVa(CurrBb, ctl.k) /\ RunsPast(CurrBb, ctl.k)

IInv ==
    /\ MachineOK /\ SeenOK /\ ViewsOK /\ TlbsOK
    /\ BbsType /\ BlocksOK /\ CtlType /\ CtlOK

-----------------------------------------------------------------------------
(* Addresses.  An aligned access stays within its page. *)
LEMMA PageFacts ==
    ASSUME NEW va \in Nat
    PROVE  /\ PageVa(va) \in Nat /\ PageVa(PageVa(va)) = PageVa(va)
           /\ TlbIdx(va) \in 0 .. TLB_SIZE - 1 /\ TlbIdx(PageVa(va)) = TlbIdx(va)
           /\ Offset(va) \in Offsets /\ WordIdx(va) \in WordIdxs
           /\ \A size \in {1, 2, 4, 8} : ~Unaligned(va, size) => Offset(va) + size <= PAGE_SIZE
  <1>1. PICK P \in Nat : P = PAGE_SIZE /\ P > 0 /\ P % 8 = 0
    BY MachineAssumption
  <1>2. PICK d \in Int, m \in 0 .. P - 1 :
            d = va \div P /\ m = va % P /\ va = P * d + m
    BY <1>1, DivMod
  <1>3. PICK x \in Int : x = P * d
    BY <1>1, <1>2
  <1>4. PageVa(va) = x /\ Offset(va) = m
    BY <1>1, <1>2, <1>3 DEF PageVa, Offset
  <1>5. x >= 0
    BY <1>1, <1>2, <1>3, DivBound
  <1>6. x = P * d + 0 /\ 0 \in 0 .. P - 1
    BY <1>1, <1>3
  <1>7. d = x \div P /\ 0 = x % P
    BY <1>1, <1>2, <1>6, DivModUnique
  <1>8. PageVa(x) = x
    BY <1>1, <1>3, <1>7 DEF PageVa
  <1>9. TlbIdx(va) = d % TLB_SIZE /\ TlbIdx(x) = d % TLB_SIZE
    BY <1>1, <1>2, <1>7 DEF TlbIdx
  <1>10. d % TLB_SIZE \in 0 .. TLB_SIZE - 1
    BY SimulatorAssumption, DivMod
  <1>11. WordIdx(va) \in WordIdxs
    <2>1. m \div 4 \in 0 .. P \div 4 - 1
      BY <1>1, <1>2
    <2> QED BY <1>1, <1>4, <2>1 DEF WordIdx, WordIdxs, INSTR_CODE_SIZE
  <1>12. ASSUME NEW size \in {1, 2, 4, 8}, ~Unaligned(va, size)
         PROVE  m + size <= P
    <2>1. va % size = 0 /\ va = x + m
      BY <1>2, <1>3, <1>12 DEF Unaligned
    <2>2. PICK q \in Int : P = 8 * q
      <3>1. P = 8 * (P \div 8) + (P % 8) /\ P \div 8 \in Int
        BY <1>1
      <3> QED BY <1>1, <3>1
    <2>3. PICK y \in Int : y = q * d
      BY <1>2, <2>2
    <2>4. x = 8 * y
      <3>1. (8 * q) * d = 8 * (q * d)
        OBVIOUS
      <3> QED BY <1>3, <2>2, <2>3, <3>1
    <2> QED BY <1>2, <2>1, <2>2, <2>4
  <1> QED BY <1>1, <1>3, <1>4, <1>5, <1>8, <1>9, <1>10, <1>11, <1>12 DEF Offsets

(* A word of a page is an instruction code. *)
LEMMA WordAtType ==
    ASSUME NEW page \in Pages, NEW i \in WordIdxs
    PROVE  WordAt(page, i) \in Words
  <1>1. PICK P \in Nat : P = PAGE_SIZE /\ P > 0 /\ P % 8 = 0
    BY MachineAssumption
  <1>2. i \in 0 .. P \div 4 - 1
    BY <1>1 DEF WordIdxs, INSTR_CODE_SIZE
  <1>3. i * 4 \in Nat /\ i * 4 + 3 < P
    BY <1>1, <1>2
  <1>4. \A o \in i * 4 .. i * 4 + 3 : page[o] \in ByteValues
    BY <1>1, <1>3 DEF Pages, Offsets
  <1>5. FromBytes(page, i * 4, INSTR_CODE_SIZE) \in Words
    BY <1>3, <1>4, WordType
  <1> QED BY <1>5 DEF WordAt, INSTR_CODE_SIZE

-----------------------------------------------------------------------------
(* Address space, RAM and the ghosts only grow. *)
Grown ==
    /\ views \subseteq views'
    /\ \A v \in DOMAIN space : v \in DOMAIN space' /\ space'[v] = space[v]
    /\ DOMAIN mem \subseteq DOMAIN mem'
    /\ \A p \in DOMAIN mem, i \in WordIdxs : seen[p][i] \subseteq seen'[p][i]

(* So what a TLB entry or a block slot says stays true. *)
LEMMA CoherentStays ==
    ASSUME Grown, NEW t, NEW access, Coherent(t, access)
    PROVE  Coherent(t, access)'
  BY DEF Grown, Coherent, Translates, Now, View, PhysPage

(* What a fetch gave, it could still have given after a step. *)
LEMMA FetchedStays ==
    ASSUME Grown, ViewsOK, NEW va \in Nat, NEW in, FetchedAt(va, in)
    PROVE  FetchedAt(va, in)'
  <1>1. PICK view \in views :
            IF FetchStatus(view, va) # "OK"
            THEN in = statusInstr(FetchStatus(view, va))
            ELSE \E w \in seen[PhysPage(va)][WordIdx(va)] : in = Decode[w]
    BY DEF FetchedAt
  <1>2. view \in views'
    BY DEF Grown
  <1>3. CASE FetchStatus(view, va) # "OK"
    BY <1>1, <1>2, <1>3 DEF FetchedAt
  <1>4. CASE FetchStatus(view, va) = "OK"
    <2>1. PageVa(va) \in DOMAIN view.space /\ view.space[PageVa(va)].ppn \in view.ram
      BY <1>4 DEF FetchStatus, AccessStatus, Translates
    <2>2. PageVa(va) \in DOMAIN space /\ space'[PageVa(va)] = space[PageVa(va)]
          /\ PhysPage(va) \in DOMAIN mem
      BY <2>1 DEF ViewsOK, Grown, PhysPage
    <2>3. WordIdx(va) \in WordIdxs
      BY PageFacts
    <2>4. seen[PhysPage(va)][WordIdx(va)] \subseteq seen'[PhysPage(va)][WordIdx(va)]
      BY <2>2, <2>3 DEF Grown
    <2>5. PhysPage(va)' = PhysPage(va)
      BY <2>2 DEF PhysPage
    <2> QED BY <1>1, <1>2, <1>4, <2>4, <2>5 DEF FetchedAt
  <1> QED BY <1>3, <1>4

(* So a slot of a block stays right, *)
LEMMA SlotStays ==
    ASSUME Grown, ViewsOK, NEW bb, bb.va \in Nat, NEW k \in BbSlots, SlotOK(bb, k)
    PROVE  SlotOK(bb, k)'
  <1>1. InstrVa(bb, k) \in Nat
    <2>1. bb.va + INSTR_CODE_SIZE * k \in Int
      BY SimulatorAssumption DEF BbSlots, INSTR_CODE_SIZE
    <2>2. Wrap(bb.va + INSTR_CODE_SIZE * k) \in RegValues
      BY <2>1, WrapType
    <2> QED BY <2>2, Sizes DEF InstrVa, RegValues
  <1> QED BY <1>1, FetchedStays DEF SlotOK

(* and a block does. *)
LEMMA BlockStays ==
    ASSUME Grown, ViewsOK, NEW bb, bb.va \in Nat, BlockOK(bb)
    PROVE  BlockOK(bb)'
  BY SlotStays DEF BlockOK

(* What an access through a coherent TLB does: what the tables and RAM     *)
(* say, or a null pointer is used; the TLB stays coherent.                 *)
LEMMA AccessOK ==
    ASSUME NEW t \in Tlbs, NEW access, Coherent(t, access), DOMAIN mem \subseteq Nat,
           NEW va \in Nat, NEW size \in {1, 2, 4, 8},
           NEW unaligned, unaligned \notin {"OK", "segfault"}
    PROVE  LET a  == Access(t, access, va, size, unaligned)
               st == AccessStatus(Now, access, va, size, unaligned)
           IN  /\ a.tlb \in Tlbs /\ Coherent(a.tlb, access)
               /\ a.status = "OK" =>
                      /\ st = "OK" /\ a.host = PhysPage(va) /\ a.host \in DOMAIN mem
                      /\ Offset(va) \in Nat /\ Offset(va) + size <= PAGE_SIZE
               /\ a.status \notin {"OK", "segfault"} => a.status = st
  <1> DEFINE a  == Access(t, access, va, size, unaligned)
             st == AccessStatus(Now, access, va, size, unaligned)
             i  == TlbIdx(va)
             v  == PageVa(va)
  <1>1. /\ v \in Nat /\ PageVa(v) = v /\ i \in 0 .. TLB_SIZE - 1 /\ TlbIdx(v) = i
        /\ Offset(va) \in Nat
        /\ ~Unaligned(va, size) => Offset(va) + size <= PAGE_SIZE
    <2>1. Offsets \subseteq Nat
      BY DEF Offsets
    <2> QED BY <2>1, PageFacts
  <1>2. st = "OK" <=> /\ ~Unaligned(va, size) /\ Translates(Now, access, va)
                      /\ PhysPage(va) \in DOMAIN mem
    BY DEF AccessStatus, Now, View, PhysPage
  <1>3. st # "segfault"
    BY DEF AccessStatus
  <1>4. CASE Unaligned(va, size)
    <2>1. a = [status |-> unaligned, host |-> nullptr, tlb |-> t] /\ st = unaligned
      BY <1>4 DEF Access, AccessStatus
    <2> HIDE DEF a, st
    <2> QED BY <2>1 DEF a, st
  <1>5. CASE ~Unaligned(va, size) /\ TlbHit(t, va)
    <2>1. a = [status |-> IF t[i].host = nullptr THEN "segfault" ELSE "OK",
               host |-> t[i].host, tlb |-> t]
      BY <1>5 DEF Access
    <2>2. t[i].va = v /\ i \in DOMAIN t
      BY <1>1, <1>5 DEF TlbHit, Tlbs
    <2>3. ASSUME t[i].host # nullptr
          PROVE  st = "OK" /\ t[i].host = PhysPage(va) /\ t[i].host \in DOMAIN mem
      <3>1. Translates(Now, access, v) /\ t[i].host = PhysPage(v) /\ t[i].host \in DOMAIN mem
        BY <2>2, <2>3 DEF Coherent
      <3>2. Translates(Now, access, va) /\ PhysPage(v) = PhysPage(va)
        BY <1>1, <3>1 DEF Translates, PhysPage
      <3> QED BY <1>2, <1>5, <3>1, <3>2
    <2> HIDE DEF a, st, i
    <2>4. a.tlb = t /\ a.host = t[i].host /\ a.status \in {"OK", "segfault"}
          /\ (a.status = "OK" => t[i].host # nullptr)
      BY <2>1
    <2> QED BY <1>1, <1>5, <2>3, <2>4 DEF a, st
  <1>6. CASE ~Unaligned(va, size) /\ ~TlbHit(t, va) /\ st # "OK"
    <2>1. a = [status |-> st, host |-> nullptr, tlb |-> t]
      BY <1>6 DEF Access
    <2> HIDE DEF a, st
    <2> QED BY <1>6, <2>1 DEF a, st
  <1>7. CASE ~Unaligned(va, size) /\ ~TlbHit(t, va) /\ st = "OK"
    <2> DEFINE u == TlbUpdate(t, va, PhysPage(va))
    <2>1. a = [status |-> "OK", host |-> PhysPage(va), tlb |-> u]
      BY <1>7 DEF Access
    <2>2. Translates(Now, access, v) /\ PhysPage(v) = PhysPage(va) /\ PhysPage(va) \in DOMAIN mem
      BY <1>1, <1>2, <1>7 DEF Translates, PhysPage
    <2>3. u = [t EXCEPT ![i] = [va |-> v, host |-> PhysPage(va)]]
      BY DEF TlbUpdate
    <2> HIDE DEF a, st, u, i, v
    <2>4. u \in Tlbs
      BY <1>1, <2>2, <2>3 DEF Tlbs
    <2>5. Coherent(u, access)
      <3> SUFFICES ASSUME NEW j \in DOMAIN u, u[j].host # nullptr
                   PROVE  /\ Translates(Now, access, u[j].va)
                          /\ u[j].host = PhysPage(u[j].va)
                          /\ u[j].host \in DOMAIN mem /\ j = TlbIdx(u[j].va)
        BY DEF Coherent
      <3>1. CASE j = i
        <4>1. u[j] = [va |-> v, host |-> PhysPage(va)]
          BY <1>1, <2>3, <3>1 DEF Tlbs
        <4> QED BY <1>1, <2>2, <3>1, <4>1
      <3>2. CASE j # i
        <4>1. j \in DOMAIN t /\ u[j] = t[j]
          BY <2>3, <3>2 DEF Tlbs
        <4> QED BY <4>1 DEF Coherent
      <3> QED BY <3>1, <3>2
    <2> QED BY <1>1, <1>7, <2>1, <2>2, <2>4, <2>5 DEF a, st
  <1> QED BY <1>4, <1>5, <1>6, <1>7

-----------------------------------------------------------------------------
(* Memory.  Whatever becomes of it, the words in it are noted. *)
LEMMA SeenGrows ==
    ASSUME SeenOK, DOMAIN mem \subseteq DOMAIN mem', mem' \in [DOMAIN mem' -> Pages],
           seen' = SeenIn(mem')
    PROVE  /\ SeenOK'
           /\ \A p \in DOMAIN mem, i \in WordIdxs : seen[p][i] \subseteq seen'[p][i]
  <1>1. \A p \in DOMAIN mem', i \in WordIdxs :
            seen'[p][i] = {WordAt(mem'[p], i)} \cup IF p \in DOMAIN mem THEN seen[p][i] ELSE {}
    BY DEF SeenIn, WordIdxs
  <1>2. \A p \in DOMAIN mem', i \in WordIdxs : WordAt(mem'[p], i) \in Words
    BY WordAtType
  <1>3. SeenOK'
    BY <1>1, <1>2 DEF SeenOK
  <1> QED BY <1>1, <1>3

(* A store keeps the memory typed and the words seen noted. *)
LEMMA StoreOK ==
    ASSUME MachineOK, SeenOK, NEW p, NEW off \in Nat, NEW size \in Nat, NEW v \in Int,
           StoreBytes(p, off, size, v)
    PROVE  /\ DOMAIN mem' = DOMAIN mem /\ mem' \in [DOMAIN mem -> Pages]
           /\ SeenOK'
           /\ \A q \in DOMAIN mem, i \in WordIdxs : seen[q][i] \subseteq seen'[q][i]
  <1> DEFINE page == [o \in Offsets |-> IF o \in off .. off + size - 1
                                        THEN ByteOf(v, o - off) ELSE mem[p][o]]
  <1>1. mem' = [mem EXCEPT ![p] = page]
    BY DEF StoreBytes
  <1>2. p \in DOMAIN mem => page \in Pages
    <2> SUFFICES ASSUME p \in DOMAIN mem, NEW o \in Offsets
                 PROVE  page[o] \in ByteValues
      BY DEF Pages
    <2>1. CASE o \in off .. off + size - 1
      <3>1. o - off \in Nat
        BY <2>1
      <3> QED BY <2>1, <3>1, ByteOfType
    <2>2. CASE o \notin off .. off + size - 1
      BY <2>2 DEF MachineOK, Pages
    <2> QED BY <2>1, <2>2
  <1> HIDE DEF page
  <1>3. DOMAIN mem' = DOMAIN mem /\ mem' \in [DOMAIN mem -> Pages]
    BY <1>1, <1>2 DEF MachineOK
  <1>4. seen' = SeenIn(mem')
    BY DEF StoreBytes
  <1> QED BY <1>3, <1>4, SeenGrows

-----------------------------------------------------------------------------
(* The steps.  What the host does leaves the machine in order, and larger. *)
LEMMA HostOK ==
    ASSUME MachineOK, SeenOK, ViewsOK, Host
    PROVE  MachineOK' /\ SeenOK' /\ ViewsOK' /\ Grown
  <1>1. CASE \E w \in HostWrites : HostWrite(w)
    <2>1. PICK w \in HostWrites : HostWrite(w)
      BY <1>1
    <2>2. w[2] \in Nat /\ w[3] \in Int
      BY MachineAssumption, Sizes DEF Words
    <2>3. PICK off \in Nat : off = w[2] * INSTR_CODE_SIZE
      BY <2>2 DEF INSTR_CODE_SIZE
    <2>4. StoreBytes(w[1], off, INSTR_CODE_SIZE, w[3])
          /\ UNCHANGED <<pc, gpr, space, views, icount, status>>
      BY <2>1, <2>3 DEF HostWrite
    <2>5. /\ DOMAIN mem' = DOMAIN mem /\ mem' \in [DOMAIN mem -> Pages] /\ SeenOK'
          /\ \A q \in DOMAIN mem, i \in WordIdxs : seen[q][i] \subseteq seen'[q][i]
      BY <2>2, <2>4, StoreOK DEF INSTR_CODE_SIZE
    <2>6. MachineOK'
      BY <2>4, <2>5 DEF MachineOK
    <2>7. ViewsOK'
      BY <2>4, <2>5 DEF ViewsOK, Now, View
    <2>8. Grown
      BY <2>4, <2>5 DEF Grown
    <2> QED BY <2>5, <2>6, <2>7, <2>8
  <1>2. CASE \E m \in HostMaps : HostMap(m)
    <2>1. PICK m \in HostMaps : HostMap(m)
      BY <1>2
    <2>2. /\ m.va \notin DOMAIN space
          /\ space' = [v \in DOMAIN space \cup {m.va} |->
                          IF v = m.va THEN [ppn |-> m.ppn, rights |-> m.rights] ELSE space[v]]
          /\ views' = views \cup {View(space', DOMAIN mem)}
          /\ UNCHANGED <<pc, gpr, mem, seen, icount, status>>
      BY <2>1 DEF HostMap
    <2>3. \A v \in DOMAIN space : v \in DOMAIN space' /\ space'[v] = space[v]
      BY <2>2
    <2>4. MachineOK' /\ SeenOK'
      BY <2>2 DEF MachineOK, SeenOK
    <2>5. ViewsOK'
      BY <2>2, <2>3 DEF ViewsOK, Now, View
    <2>6. Grown
      BY <2>2, <2>3 DEF Grown
    <2> QED BY <2>4, <2>5, <2>6
  <1>3. CASE \E p \in HostPages : HostAddPage(p)
    <2>1. PICK p \in HostPages : HostAddPage(p)
      BY <1>3
    <2>2. /\ p \notin DOMAIN mem
          /\ mem' = [q \in DOMAIN mem \cup {p} |->
                        IF q = p THEN [o \in Offsets |-> 0] ELSE mem[q]]
          /\ seen' = SeenIn(mem')
          /\ views' = views \cup {View(space, DOMAIN mem')}
          /\ UNCHANGED <<pc, gpr, space, icount, status>>
      BY <2>1 DEF HostAddPage
    <2>3. DOMAIN mem \subseteq DOMAIN mem'
      BY <2>2
    <2>4. [o \in Offsets |-> 0] \in Pages
      BY Sizes DEF Pages, ByteValues
    <2>5. SeenOK' /\ \A q \in DOMAIN mem, i \in WordIdxs : seen[q][i] \subseteq seen'[q][i]
      <3>1. mem' \in [DOMAIN mem' -> Pages]
        BY <2>2, <2>4 DEF MachineOK
      <3> QED BY <2>2, <2>3, <3>1, SeenGrows
    <2>6. MachineOK'
      BY <2>2, <2>4, MachineAssumption DEF MachineOK
    <2>7. ViewsOK'
      BY <2>2, <2>3 DEF ViewsOK, Now, View
    <2>8. Grown
      BY <2>2, <2>3, <2>5 DEF Grown
    <2> QED BY <2>5, <2>6, <2>7, <2>8
  <1> QED BY <1>1, <1>2, <1>3 DEF Host

(* A step that leaves the machine alone takes nothing away. *)
LEMMA SameGrows ==
    ASSUME UNCHANGED <<space, views, mem, seen>>
    PROVE  Grown
  BY DEF Grown

(* When the machine only grows, what the caches hold stays in order. *)
LEMMA TlbsStay ==
    ASSUME Grown, NEW r \in Tlbs, NEW w \in Tlbs, NEW f \in Tlbs,
           Coherent(r, "READ"), Coherent(w, "WRITE"), Coherent(f, "FETCH"),
           rtlb' = r, wtlb' = w, ftlb' = f
    PROVE  TlbsOK'
  <1>1. Coherent(r, "READ")' /\ Coherent(w, "WRITE")' /\ Coherent(f, "FETCH")'
    BY CoherentStays
  <1>2. Tlbs' = Tlbs
    BY DEF Tlbs
  <1> QED BY <1>1, <1>2 DEF TlbsOK, TlbsCoherent

(* A block that is left alone stays right and closed. *)
LEMMA BlocksStay ==
    ASSUME BbsType, ViewsOK, Grown, NEW b \in BbIdxs, BlockEnds(bbs[b]), BlockOK(bbs[b]),
           bbs'[b] = bbs[b]
    PROVE  BlockEnds(bbs[b])' /\ BlockOK(bbs[b])'
  <1>1. PICK bb : bb = bbs[b]
    OBVIOUS
  <1>2. bb.va \in Nat
    BY <1>1 DEF BbsType
  <1>3. BlockOK(bb)'
    BY <1>1, <1>2, BlockStays
  <1> QED BY <1>1, <1>3

(* A step between two instructions, or one that leaves the guest: the      *)
(* blocks are as they were.                                                *)
LEMMA SameBlocks ==
    ASSUME IInv, Grown, UNCHANGED bbs, ctl.mode # "fill", ctl'.mode # "fill",
           ctl.mode # "crashed"
    PROVE  BbsType' /\ BlocksOK'
  <1>1. BbsType'
    BY DEF IInv, BbsType
  <1>2. ASSUME NEW b \in BbIdxs PROVE BlockEnds(bbs[b])' /\ BlockOK(bbs[b])'
    <2>1. BlockEnds(bbs[b]) /\ BlockOK(bbs[b])
      BY DEF IInv, BlocksOK, Filled
    <2> QED BY <2>1, BlocksStay DEF IInv
  <1> QED BY <1>1, <1>2 DEF BlocksOK

(* Any execution of an instruction that does its part for the machine and  *)
(* the TLBs keeps the rest: it runs the next instruction if it does not    *)
(* end its block, or returns.                                              *)
LEMMA ExecKeeps ==
    ASSUME IInv, ctl.mode = "exec", Grown, UNCHANGED <<bbs, space, views>>,
           MachineOK', SeenOK', TlbsOK', DOMAIN mem' = DOMAIN mem,
           \/ RunNext /\ pc' = NextPc(pc) /\ ~Ends(CurrInstr)
           \/ ReturnOk
           \/ ctl' = [mode |-> "idle", bb |-> 0, k |-> 0]
           \/ ctl' = [mode |-> "crashed", bb |-> 0, k |-> 0]
    PROVE  IInv'
  <1>1. ViewsOK'
    BY DEF IInv, ViewsOK, Now, View
  <1>2. ctl.bb \in BbIdxs /\ ctl.k \in BbSlots /\ 0 \in BbIdxs /\ 0 \in BbSlots
    BY SimulatorAssumption DEF IInv, CtlType, BbIdxs, BbSlots
  <1>3. ctl'.mode # "fill"
    BY DEF RunNext, ReturnOk, Goto
  <1>4. BbsType' /\ BlocksOK'
    BY <1>3, SameBlocks
  <1>5. CASE RunNext /\ pc' = NextPc(pc) /\ ~Ends(CurrInstr)
    <2>1. ctl' = [mode |-> "exec", bb |-> ctl.bb, k |-> ctl.k + 1] /\ status' = status
      BY <1>5 DEF RunNext, Goto
    <2>2. RunsPast(CurrBb, ctl.k) /\ pc = InstrVa(CurrBb, ctl.k) /\ status = "running"
      BY DEF IInv, CtlOK
    <2>3. PICK bb : bb = CurrBb
      OBVIOUS
    <2>4. bb.va \in Nat /\ BlockEnds(bb)
      BY <1>2, <2>3 DEF IInv, BbsType, BlocksOK, Filled, CurrBb
    <2>5. PICK k \in Nat : k = ctl.k
      BY <1>2 DEF BbSlots
    <2>6. RunsPast(bb, k + 1)
      <3>1. ~Ends(bb.instrs[k])
        BY <1>5, <2>3, <2>5 DEF CurrInstr
      <3>2. \A j \in 0 .. (k + 1) - 1 : j \in 0 .. k - 1 \/ j = k
        OBVIOUS
      <3> QED BY <2>2, <2>3, <2>5, <3>1, <3>2 DEF RunsPast
    <2>7. k + 1 \in BbSlots
      <3>1. PICK e \in BbSlots : Ends(bb.instrs[e])
        BY <2>4 DEF BlockEnds
      <3>2. e \notin 0 .. k
        BY <2>6, <3>1 DEF RunsPast
      <3> QED BY <3>1, <3>2, SimulatorAssumption DEF BbSlots
    <2>8. pc' = InstrVa(bb, k + 1)
      BY <1>5, <2>2, <2>3, <2>4, <2>5, NextPcInBlock DEF InstrVa
    <2>9. CurrBb' = bb
      BY <2>1, <2>3 DEF CurrBb
    <2>10. CtlType'
      BY <1>2, <2>1, <2>5, <2>7 DEF CtlType
    <2>11. CtlOK'
      BY <2>1, <2>2, <2>5, <2>6, <2>8, <2>9 DEF CtlOK
    <2> QED BY <1>1, <1>4, <2>10, <2>11 DEF IInv
  <1>6. CASE ReturnOk
    <2>1. ctl' = [mode |-> "lookup", bb |-> 0, k |-> 0] /\ status' = status
      BY <1>6 DEF ReturnOk, Goto
    <2>2. CtlType' /\ CtlOK'
      BY <1>2, <2>1 DEF CtlType, CtlOK, IInv
    <2> QED BY <1>1, <1>4, <2>2 DEF IInv
  <1>7. CASE ctl' = [mode |-> "idle", bb |-> 0, k |-> 0] \/ ctl' = [mode |-> "crashed", bb |-> 0, k |-> 0]
    <2>1. CtlType' /\ CtlOK'
      BY <1>2, <1>7 DEF CtlType, CtlOK
    <2> QED BY <1>1, <1>4, <2>1 DEF IInv
  <1> QED BY <1>5, <1>6, <1>7

(* The current instruction is one, and a fetch at pc may give it. *)
LEMMA CurrInstrType ==
    ASSUME IInv
    PROVE  CurrInstr \in Instrs /\ CurrInstr.rd \in GprIdx /\ CurrInstr.rs2 \in GprIdx
  <1>1. ctl.bb \in BbIdxs /\ ctl.k \in BbSlots
    BY DEF IInv, CtlType
  <1>2. CurrInstr \in Instrs
    BY <1>1 DEF IInv, BbsType, CurrInstr, CurrBb
  <1> QED BY <1>2 DEF Instrs

(* The status instruction that ends a block keeps the invariant. *)
LEMMA ExecStatusInv ==
    ASSUME IInv, ExecStatus, UNCHANGED <<space, views>>
    PROVE  IInv'
  <1>1. UNCHANGED <<pc, gpr, mem, seen, icount, bbs, rtlb, wtlb, ftlb>> /\ ctl.mode = "exec"
    BY DEF ExecStatus, Executing
  <1>2. Grown
    BY <1>1, SameGrows
  <1>3. MachineOK' /\ SeenOK'
    BY <1>1 DEF IInv, MachineOK, SeenOK
  <1>4. TlbsOK'
    BY <1>1, <1>2, TlbsStay DEF IInv, TlbsOK, TlbsCoherent
  <1>5. ReturnOk \/ ctl' = [mode |-> "idle", bb |-> 0, k |-> 0]
    BY DEF ExecStatus, ReturnStatus, Goto
  <1> QED BY <1>1, <1>2, <1>3, <1>4, <1>5, ExecKeeps

(* Retiring keeps the counter in its width. *)
LEMMA RetireType ==
    ASSUME MachineOK, NEW p, Retire(p)
    PROVE  pc' = p /\ icount' \in 0 .. ICOUNT_SIZE - 1
  <1>1. icount + 1 \in Int /\ ICOUNT_SIZE \in Nat /\ ICOUNT_SIZE > 0
    BY MachineAssumption DEF MachineOK
  <1>2. (icount + 1) % ICOUNT_SIZE \in 0 .. ICOUNT_SIZE - 1
    BY <1>1, DivMod
  <1> QED BY <1>2 DEF Retire

(* ECALL keeps the invariant. *)
LEMMA ExecEcallInv ==
    ASSUME IInv, ExecEcall, UNCHANGED <<space, views>>
    PROVE  IInv'
  <1>1. UNCHANGED <<gpr, mem, seen, bbs, rtlb, wtlb, ftlb>> /\ ctl.mode = "exec"
    BY DEF ExecEcall, Executing
  <1>2. Grown
    BY <1>1, SameGrows
  <1>3. MachineOK' /\ SeenOK'
    BY <1>1, NextPcType, RetireType DEF ExecEcall, IInv, MachineOK, SeenOK
  <1>4. TlbsOK'
    BY <1>1, <1>2, TlbsStay DEF IInv, TlbsOK, TlbsCoherent
  <1>5. ctl' = [mode |-> "idle", bb |-> 0, k |-> 0]
    BY DEF ExecEcall, ReturnStatus, Goto
  <1> QED BY <1>1, <1>2, <1>3, <1>4, <1>5, ExecKeeps

(* So does an arithmetic instruction, *)
LEMMA ExecAluInv ==
    ASSUME IInv, ExecAlu, UNCHANGED <<space, views>>
    PROVE  IInv'
  <1>1. /\ UNCHANGED <<mem, seen, bbs, rtlb, wtlb, ftlb>> /\ ctl.mode = "exec"
        /\ CurrInstr.id \in AluIds
        /\ gpr' = GprWrite(gpr, CurrInstr.rd, AluResult(CurrInstr, gpr, pc))
        /\ Retire(NextPc(pc)) /\ RunNext
    BY DEF ExecAlu, Executing
  <1>2. Grown
    BY <1>1, SameGrows
  <1>3. AluResult(CurrInstr, gpr, pc) \in RegValues
    BY <1>1, CurrInstrType, AluType DEF IInv, MachineOK
  <1>4. gpr' \in Gprs /\ gpr'[0] = 0
    BY <1>1, <1>3, CurrInstrType, GprWriteType DEF IInv, MachineOK
  <1>5. MachineOK' /\ SeenOK'
    BY <1>1, <1>4, NextPcType, RetireType DEF IInv, MachineOK, SeenOK
  <1>6. TlbsOK'
    BY <1>1, <1>2, TlbsStay DEF IInv, TlbsOK, TlbsCoherent
  <1>7. ~Ends(CurrInstr) /\ pc' = NextPc(pc)
    <2>1. CurrInstr.id \notin BranchIds \cup JumpIds /\ CurrInstr.id # "SIM_STATUS_INSTR"
      BY <1>1 DEF AluIds, RegIds, ImmIds, ShiftImmIds, BranchIds, JumpIds
    <2> QED BY <1>1, <2>1 DEF Ends, isBranch, Retire
  <1> QED BY <1>1, <1>2, <1>5, <1>6, <1>7, ExecKeeps

(* a jump or a branch, *)
LEMMA ExecJumpInv ==
    ASSUME IInv, ExecJump, UNCHANGED <<space, views>>
    PROVE  IInv'
  <1> DEFINE new == NewPc(CurrInstr, gpr, pc)
  <1>1. /\ UNCHANGED <<mem, seen, bbs, rtlb, wtlb, ftlb>> /\ ctl.mode = "exec"
        /\ CurrInstr.id \in JumpIds \cup BranchIds
    BY DEF ExecJump, Executing, Faults
  <1>2. Grown
    BY <1>1, SameGrows
  <1>3. TlbsOK'
    BY <1>1, <1>2, TlbsStay DEF IInv, TlbsOK, TlbsCoherent
  <1>4. new \in RegValues /\ NextPc(pc) \in RegValues
    BY <1>1, CurrInstrType, NewPcType, NextPcType DEF IInv, MachineOK
  <1>5. CASE ~PcAligned(new)
    <2>1. UNCHANGED <<pc, gpr, icount>> /\ ctl' = [mode |-> "idle", bb |-> 0, k |-> 0]
      BY <1>5 DEF ExecJump, Faults, ReturnStatus, Goto
    <2>2. MachineOK' /\ SeenOK'
      BY <1>1, <2>1 DEF IInv, MachineOK, SeenOK
    <2> QED BY <1>1, <1>2, <1>3, <2>1, <2>2, ExecKeeps
  <1>6. CASE PcAligned(new)
    <2>1. /\ gpr' = IF CurrInstr.id \in JumpIds
                    THEN GprWrite(gpr, CurrInstr.rd, NextPc(pc)) ELSE gpr
          /\ Retire(new) /\ ReturnOk
      BY <1>6 DEF ExecJump
    <2>2. gpr' \in Gprs /\ gpr'[0] = 0
      BY <1>4, <2>1, CurrInstrType, GprWriteType DEF IInv, MachineOK
    <2>3. MachineOK' /\ SeenOK'
      BY <1>1, <1>4, <2>1, <2>2, RetireType DEF IInv, MachineOK, SeenOK
    <2> QED BY <1>1, <1>2, <1>3, <2>1, <2>3, ExecKeeps
  <1> QED BY <1>5, <1>6

(* an instruction without a handler, *)
LEMMA ExecUnimplementedInv ==
    ASSUME IInv, ExecUnimplemented, UNCHANGED <<space, views>>
    PROVE  IInv'
  <1>1. /\ UNCHANGED <<pc, gpr, mem, seen, icount, bbs, rtlb, wtlb, ftlb>> /\ ctl.mode = "exec"
        /\ ctl' = [mode |-> "crashed", bb |-> 0, k |-> 0]
    BY DEF ExecUnimplemented, Executing, Crash, Goto
  <1>2. Grown
    BY <1>1, SameGrows
  <1>3. MachineOK' /\ SeenOK'
    BY <1>1 DEF IInv, MachineOK, SeenOK
  <1>4. TlbsOK'
    BY <1>1, <1>2, TlbsStay DEF IInv, TlbsOK, TlbsCoherent
  <1> QED BY <1>1, <1>2, <1>3, <1>4, ExecKeeps

(* Loads and stores, through their TLBs. *)
LEMMA ExecLoadInv ==
    ASSUME IInv, ExecLoad, UNCHANGED <<space, views>>
    PROVE  IInv'
  <1> DEFINE id   == CurrInstr.id
             va   == EffectiveVa(CurrInstr, gpr)
             size == AccessSize(id)
             a    == Access(rtlb, "READ", va, size, "SIM__UNALIGNED_LOAD")
  <1>1. /\ ctl.mode = "exec" /\ id \in LoadIds /\ rtlb' = a.tlb
        /\ UNCHANGED <<bbs, wtlb, ftlb>>
        /\ IF a.status # "OK" THEN Faults(a.status)
           ELSE /\ gpr' = GprWrite(gpr, CurrInstr.rd,
                          LoadedValue(id, FromBytes(mem[a.host], Offset(va), size)))
                /\ Retire(NextPc(pc))
                /\ RunNext
                /\ UNCHANGED <<mem, seen>>
    BY DEF ExecLoad, Executing
  <1>2. UNCHANGED <<mem, seen>>
    BY <1>1 DEF Faults
  <1>3. Grown
    BY <1>2, SameGrows
  <1>4. va \in RegValues /\ va \in Nat
    BY CurrInstrType, EffectiveVaType, Sizes DEF IInv, MachineOK, RegValues
  <1>5. size \in {1, 2, 4, 8}
    BY <1>1, AccessSizeType
  <1> HIDE DEF va, size, id
  <1>6. /\ a.tlb \in Tlbs /\ Coherent(a.tlb, "READ")
        /\ a.status = "OK" =>
               /\ a.host \in DOMAIN mem
               /\ Offset(va) \in Nat /\ Offset(va) + size <= PAGE_SIZE
    <2>1. /\ rtlb \in Tlbs /\ Coherent(rtlb, "READ") /\ DOMAIN mem \subseteq Nat
          /\ "SIM__UNALIGNED_LOAD" \notin {"OK", "segfault"}
      BY DEF IInv, MachineOK, TlbsOK, TlbsCoherent
    <2> QED BY <1>4, <1>5, <2>1, AccessOK
  <1> HIDE DEF a
  <1>7. TlbsOK'
    <2>1. PICK t \in Tlbs : t = a.tlb
      BY <1>6
    <2> QED BY <1>1, <1>3, <1>6, <2>1, TlbsStay DEF IInv, TlbsOK, TlbsCoherent
  <1>8. CASE a.status # "OK"
    <2>1. /\ UNCHANGED <<pc, gpr, icount>>
          /\ \/ ctl' = [mode |-> "idle", bb |-> 0, k |-> 0]
             \/ ctl' = [mode |-> "crashed", bb |-> 0, k |-> 0]
      BY <1>1, <1>8 DEF Faults, Crash, ReturnStatus, Goto
    <2>2. MachineOK' /\ SeenOK'
      BY <1>2, <2>1 DEF IInv, MachineOK, SeenOK
    <2> QED BY <1>1, <1>2, <1>3, <1>7, <2>1, <2>2, ExecKeeps
  <1>9. CASE a.status = "OK"
    <2> DEFINE v == LoadedValue(id, FromBytes(mem[a.host], Offset(va), size))
    <2>1. gpr' = GprWrite(gpr, CurrInstr.rd, v) /\ Retire(NextPc(pc)) /\ RunNext
      BY <1>1, <1>9
    <2>2. \A o \in Offset(va) .. Offset(va) + size - 1 : mem[a.host][o] \in ByteValues
      <3>1. mem[a.host] \in Pages
        BY <1>6, <1>9 DEF IInv, MachineOK
      <3>2. \A o \in Offset(va) .. Offset(va) + size - 1 : o \in Offsets
        BY <1>5, <1>6, <1>9, MachineAssumption DEF Offsets
      <3> QED BY <3>1, <3>2 DEF Pages
    <2>3. v \in RegValues
      BY <1>1, <1>6, <1>9, <2>2, LoadedType DEF size
    <2> HIDE DEF v
    <2>4. gpr' \in Gprs /\ gpr'[0] = 0
      BY <2>1, <2>3, CurrInstrType, GprWriteType DEF IInv, MachineOK
    <2>5. MachineOK' /\ SeenOK'
      BY <1>2, <2>1, <2>4, NextPcType, RetireType DEF IInv, MachineOK, SeenOK
    <2>6. ~Ends(CurrInstr) /\ pc' = NextPc(pc)
      <3>1. CurrInstr.id \notin BranchIds \cup JumpIds /\ CurrInstr.id # "SIM_STATUS_INSTR"
        BY <1>1 DEF id, LoadIds, BranchIds, JumpIds
      <3> QED BY <2>1, <3>1 DEF Ends, isBranch, Retire
    <2> QED BY <1>1, <1>2, <1>3, <1>7, <2>1, <2>5, <2>6, ExecKeeps
  <1> QED BY <1>8, <1>9

(* a store, through the TLB or past it, *)
LEMMA ExecStoreInv ==
    ASSUME IInv, ExecStore, UNCHANGED <<space, views>>
    PROVE  IInv'
  <1> DEFINE va   == EffectiveVa(CurrInstr, gpr)
             size == AccessSize(CurrInstr.id)
             a    == Access(wtlb, "WRITE", va, size, "SIM__UNALIGNED_STORE")
  <1>1. /\ ctl.mode = "exec" /\ CurrInstr.id \in StoreIds /\ wtlb' = a.tlb
        /\ UNCHANGED <<bbs, rtlb, ftlb>>
        /\ IF a.status # "OK" THEN Faults(a.status)
           ELSE /\ StoreBytes(a.host, Offset(va), size, gpr[CurrInstr.rs2])
                /\ Retire(NextPc(pc))
                /\ RunNext
                /\ UNCHANGED gpr
    BY DEF ExecStore, Executing
  <1>2. va \in RegValues /\ va \in Nat
    BY CurrInstrType, EffectiveVaType, Sizes DEF IInv, MachineOK, RegValues
  <1>3. size \in {1, 2, 4, 8}
    BY <1>1, AccessSizeType
  <1> HIDE DEF va, size
  <1>4. /\ a.tlb \in Tlbs /\ Coherent(a.tlb, "WRITE")
        /\ a.status = "OK" => Offset(va) \in Nat
    BY <1>2, <1>3, AccessOK DEF IInv, MachineOK, TlbsOK, TlbsCoherent
  <1> HIDE DEF a
  <1>5. ASSUME Grown PROVE TlbsOK'
    <2>1. PICK t \in Tlbs : t = a.tlb
      BY <1>4
    <2> QED BY <1>1, <1>4, <1>5, <2>1, TlbsStay DEF IInv, TlbsOK, TlbsCoherent
  <1>6. CASE a.status # "OK"
    <2>1. /\ UNCHANGED <<pc, gpr, icount, mem, seen>>
          /\ \/ ctl' = [mode |-> "idle", bb |-> 0, k |-> 0]
             \/ ctl' = [mode |-> "crashed", bb |-> 0, k |-> 0]
      BY <1>1, <1>6 DEF Faults, Crash, ReturnStatus, Goto
    <2>2. MachineOK' /\ SeenOK' /\ Grown
      BY <2>1, SameGrows DEF IInv, MachineOK, SeenOK
    <2> QED BY <1>1, <1>5, <2>1, <2>2, ExecKeeps
  <1>7. CASE a.status = "OK"
    <2>1. /\ StoreBytes(a.host, Offset(va), size, gpr[CurrInstr.rs2])
          /\ Retire(NextPc(pc)) /\ RunNext /\ UNCHANGED gpr
      BY <1>1, <1>7
    <2>2. gpr[CurrInstr.rs2] \in Int /\ size \in Nat
      BY <1>3, CurrInstrType, Sizes DEF IInv, MachineOK, Gprs, RegValues
    <2>3. /\ DOMAIN mem' = DOMAIN mem /\ mem' \in [DOMAIN mem -> Pages] /\ SeenOK'
          /\ \A q \in DOMAIN mem, i \in WordIdxs : seen[q][i] \subseteq seen'[q][i]
      BY <1>4, <1>7, <2>1, <2>2, StoreOK DEF IInv
    <2>4. Grown
      BY <2>3 DEF Grown
    <2>5. MachineOK'
      BY <2>1, <2>3, NextPcType, RetireType DEF IInv, MachineOK
    <2>6. ~Ends(CurrInstr) /\ pc' = NextPc(pc)
      <3>1. CurrInstr.id \notin BranchIds \cup JumpIds /\ CurrInstr.id # "SIM_STATUS_INSTR"
        BY <1>1 DEF StoreIds, BranchIds, JumpIds
      <3> QED BY <2>1, <3>1 DEF Ends, isBranch, Retire
    <2> QED BY <1>1, <1>5, <2>1, <2>3, <2>4, <2>5, <2>6, ExecKeeps
  <1> QED BY <1>6, <1>7

(* pc is the address of the first slot of the block that begins at pc. *)
LEMMA EntryPc ==
    ASSUME MachineOK
    PROVE  pc \in Nat /\ pc = Wrap(pc + INSTR_CODE_SIZE * 0)
  <1>1. pc \in Nat /\ pc + INSTR_CODE_SIZE * 0 = pc /\ pc < REG_SIZE /\ REG_SIZE \in Nat
    BY Sizes DEF MachineOK, RegValues, INSTR_CODE_SIZE
  <1>2. pc = REG_SIZE * 0 + pc
    BY <1>1
  <1>3. pc = pc % REG_SIZE
    BY <1>1, <1>2, DivModUnique
  <1> QED BY <1>1, <1>3 DEF Wrap

(* The head of the loop: a block that is not this one is given up. *)
LEMMA LookupInv ==
    ASSUME IInv, Lookup, UNCHANGED <<space, views>>
    PROVE  IInv'
  <1> DEFINE i == BbIdx(pc)
  <1>1. ctl.mode = "lookup" /\ UNCHANGED <<machineVars, rtlb, wtlb, ftlb>>
    BY DEF Lookup
  <1>2. UNCHANGED <<pc, gpr, space, mem, seen, views, icount, status>>
    BY <1>1 DEF machineVars
  <1>3. Grown
    BY <1>2, SameGrows
  <1>4. MachineOK' /\ SeenOK' /\ ViewsOK'
    BY <1>2 DEF IInv, MachineOK, SeenOK, ViewsOK, Now, View
  <1>5. TlbsOK'
    BY <1>1, <1>3, TlbsStay DEF IInv, TlbsOK, TlbsCoherent
  <1>6. i \in BbIdxs
    <2>1. \A n \in Int : n % BB_CACHE_SIZE \in 0 .. BB_CACHE_SIZE - 1
      BY SimulatorAssumption, DivMod
    <2>2. pc \div INSTR_CODE_SIZE \in Int
      BY Sizes DEF IInv, MachineOK, RegValues, INSTR_CODE_SIZE
    <2> QED BY <2>1, <2>2 DEF BbIdx, BbIdxs
  <1>7. /\ pc \in Nat /\ pc = Wrap(pc + INSTR_CODE_SIZE * 0)
        /\ 0 \in BbSlots /\ 0 < MAX_SIZE - 1 /\ status = "running"
    BY <1>1, EntryPc, SimulatorAssumption DEF BbSlots, IInv, CtlOK
  <1>8. \A b \in BbIdxs : BlockEnds(bbs[b]) /\ BlockOK(bbs[b])
    BY <1>1 DEF IInv, BlocksOK, Filled
  <1>9. RunsPast(bbs'[i], 0)
    BY DEF RunsPast
  <1> HIDE DEF i
  <1>10. CASE BbMiss(bbs[i])
    <2>1. /\ bbs' = [bbs EXCEPT ![i].va = pc]
          /\ ctl' = [mode |-> "fill", bb |-> i, k |-> 0]
      BY <1>10 DEF Lookup, Goto, i
    <2>2. BbsType'
      BY <1>7, <2>1 DEF IInv, BbsType
    <2>3. ASSUME NEW b \in BbIdxs, Filled(b)' PROVE BlockEnds(bbs[b])' /\ BlockOK(bbs[b])'
      <3>1. b # i
        BY <2>1, <2>3 DEF Filled
      <3>2. bbs'[b] = bbs[b]
        BY <2>1, <3>1 DEF IInv, BbsType
      <3> QED BY <1>3, <1>8, <3>2, BlocksStay DEF IInv
    <2>4. CtlType'
      BY <1>6, <1>7, <2>1 DEF CtlType
    <2>5. CurrBb'.va = pc /\ CurrBb' = bbs'[i]
      BY <1>6, <2>1 DEF CurrBb, IInv, BbsType
    <2>6. CtlOK'
      BY <1>2, <1>7, <1>9, <2>1, <2>5 DEF CtlOK
    <2> QED BY <1>4, <1>5, <2>2, <2>3, <2>4, <2>6 DEF IInv, BlocksOK
  <1>11. CASE ~BbMiss(bbs[i])
    <2>1. UNCHANGED bbs /\ ctl' = [mode |-> "exec", bb |-> i, k |-> 0]
      BY <1>11 DEF Lookup, Goto, i
    <2>2. BbsType' /\ BlocksOK'
      BY <1>1, <1>3, <2>1, SameBlocks
    <2>3. CtlType'
      BY <1>6, <1>7, <2>1 DEF CtlType
    <2>4. CurrBb' = bbs'[i] /\ bbs'[i].va = pc
      BY <1>11, <2>1 DEF CurrBb, BbMiss
    <2>5. CtlOK'
      BY <1>2, <1>7, <1>9, <2>1, <2>4 DEF CtlOK, InstrVa
    <2> QED BY <1>4, <1>5, <2>2, <2>3, <2>5 DEF IInv
  <1> QED BY <1>10, <1>11

(* Bb::update fills a slot with what a fetch gives: the slots up to it are *)
(* those of the new block.                                                 *)
LEMMA FillSlot ==
    ASSUME IInv, ctl.mode = "fill", NEW nb, nb.va = CurrBb.va,
           FetchedAt(InstrVa(CurrBb, ctl.k), nb.instrs[ctl.k]),
           \A j \in 0 .. ctl.k - 1 : nb.instrs[j] = CurrBb.instrs[j]
    PROVE  RunsPast(nb, ctl.k) /\ \A j \in 0 .. ctl.k : SlotOK(nb, j)
  <1>1. RunsPast(CurrBb, ctl.k) /\ \A j \in 0 .. ctl.k - 1 : SlotOK(CurrBb, j)
    BY DEF IInv, CtlOK
  <1>2. RunsPast(nb, ctl.k)
    BY <1>1 DEF RunsPast
  <1>3. \A j : InstrVa(nb, j) = InstrVa(CurrBb, j)
    BY DEF InstrVa
  <1>4. \A j \in 0 .. ctl.k - 1 : SlotOK(nb, j)
    BY <1>1, <1>3 DEF SlotOK
  <1>5. SlotOK(nb, ctl.k)
    BY <1>3 DEF SlotOK
  <1>6. \A j \in 0 .. ctl.k : j \in 0 .. ctl.k - 1 \/ j = ctl.k
    BY DEF IInv, CtlType, BbSlots
  <1> QED BY <1>2, <1>4, <1>5, <1>6

(* A slot that ends the block closes it. *)
LEMMA ClosedBlock ==
    ASSUME NEW nb, NEW k \in BbSlots, Ends(nb.instrs[k]), \A j \in 0 .. k : SlotOK(nb, j)
    PROVE  BlockEnds(nb) /\ BlockOK(nb)
  <1>1. BlockEnds(nb)
    BY DEF BlockEnds
  <1>2. ASSUME NEW j \in BbSlots, RunsPast(nb, j) PROVE SlotOK(nb, j)
    <2>1. k \notin 0 .. j - 1
      BY <1>2 DEF RunsPast
    <2>2. j \in 0 .. k
      BY <2>1, SimulatorAssumption DEF BbSlots
    <2> QED BY <2>2
  <1> QED BY <1>1, <1>2 DEF BlockOK

(* The fetch of the next slot, through the fetch TLB. *)
LEMMA FetchOK ==
    ASSUME IInv, ctl.mode = "fill"
    PROVE  LET va == InstrVa(CurrBb, ctl.k)
           IN  /\ ctl.k \in BbSlots /\ ctl.bb \in BbIdxs /\ va \in Nat
               /\ Fetched.tlb \in Tlbs /\ Coherent(Fetched.tlb, "FETCH")
               /\ Fetched.status = "OK" =>
                      /\ FetchStatus(Now, va) = "OK"
                      /\ Fetched.host = PhysPage(va) /\ Fetched.host \in DOMAIN mem
               /\ Fetched.status \notin {"OK", "segfault"} =>
                      Fetched.status = FetchStatus(Now, va)
  <1> DEFINE va == InstrVa(CurrBb, ctl.k)
  <1>1. ctl.k \in BbSlots /\ ctl.bb \in BbIdxs
    BY DEF IInv, CtlType
  <1>2. CurrBb.va \in Nat
    BY <1>1 DEF IInv, BbsType, CurrBb
  <1>3. va \in Nat
    <2>1. CurrBb.va + INSTR_CODE_SIZE * ctl.k \in Int
      BY <1>1, <1>2, SimulatorAssumption DEF BbSlots, INSTR_CODE_SIZE
    <2>2. va \in RegValues
      BY <2>1, WrapType DEF InstrVa
    <2> QED BY <2>2, Sizes DEF RegValues
  <1>4. Fetched = Access(ftlb, "FETCH", va, INSTR_CODE_SIZE, "SIM__UNALIGNED_LOAD")
    BY DEF Fetched, InstrVa
  <1>5. /\ ftlb \in Tlbs /\ Coherent(ftlb, "FETCH") /\ DOMAIN mem \subseteq Nat
        /\ "SIM__UNALIGNED_LOAD" \notin {"OK", "segfault"} /\ INSTR_CODE_SIZE \in {1, 2, 4, 8}
    BY DEF IInv, MachineOK, TlbsOK, TlbsCoherent, INSTR_CODE_SIZE
  <1> HIDE DEF va
  <1>6. /\ Fetched.tlb \in Tlbs /\ Coherent(Fetched.tlb, "FETCH")
        /\ Fetched.status = "OK" =>
               /\ FetchStatus(Now, va) = "OK"
               /\ Fetched.host = PhysPage(va) /\ Fetched.host \in DOMAIN mem
        /\ Fetched.status \notin {"OK", "segfault"} =>
               Fetched.status = FetchStatus(Now, va)
    BY <1>3, <1>4, <1>5, AccessOK DEF FetchStatus
  <1> QED BY <1>1, <1>3, <1>6 DEF va

(* The block is complete: it runs from its first slot. *)
LEMMA FillDone ==
    ASSUME IInv, ctl.mode = "fill", Grown, MachineOK', SeenOK', ViewsOK', TlbsOK',
           pc' = pc, status' = status,
           NEW nb \in [va : Nat, instrs : [BbSlots -> Instrs]],
           nb.va = CurrBb.va, BlockEnds(nb), BlockOK(nb),
           bbs' = [bbs EXCEPT ![ctl.bb] = nb],
           ctl' = [mode |-> "exec", bb |-> ctl.bb, k |-> 0]
    PROVE  IInv'
  <1>1. PICK b : b = ctl.bb
    OBVIOUS
  <1>2. b \in BbIdxs /\ 0 \in BbSlots
    BY <1>1, SimulatorAssumption DEF IInv, CtlType, BbSlots
  <1>3. BbsType' /\ bbs'[b] = nb /\ \A c \in BbIdxs : c # b => bbs'[c] = bbs[c]
    BY <1>1, <1>2 DEF IInv, BbsType
  <1>4. BlockEnds(nb)' /\ BlockOK(nb)'
    BY BlockStays DEF IInv
  <1>5. BlocksOK'
    <2> SUFFICES ASSUME NEW c \in BbIdxs PROVE BlockEnds(bbs[c])' /\ BlockOK(bbs[c])'
      BY DEF BlocksOK
    <2>1. CASE c = b
      BY <1>3, <1>4, <2>1
    <2>2. CASE c # b
      <3>1. BlockEnds(bbs[c]) /\ BlockOK(bbs[c])
        BY <1>1, <2>2 DEF IInv, BlocksOK, Filled
      <3> QED BY <1>3, <2>2, <3>1, BlocksStay DEF IInv
    <2> QED BY <2>1, <2>2
  <1>6. CtlType'
    BY <1>1, <1>2 DEF CtlType
  <1>7. CtlOK'
    <2>1. CurrBb' = nb
      BY <1>1, <1>3 DEF CurrBb
    <2>2. pc = nb.va /\ status = "running"
      BY DEF IInv, CtlOK
    <2>3. pc = Wrap(nb.va + INSTR_CODE_SIZE * 0)
      BY <2>2, EntryPc DEF IInv
    <2>4. RunsPast(nb, 0)
      BY DEF RunsPast
    <2> QED BY <2>1, <2>2, <2>3, <2>4 DEF CtlOK, InstrVa
  <1> QED BY <1>3, <1>5, <1>6, <1>7 DEF IInv

(* a block that cannot be fetched, *)
LEMMA FillFailsInv ==
    ASSUME IInv, FillFails, UNCHANGED <<space, views>>
    PROVE  IInv'
  <1>1. /\ ctl.mode = "fill" /\ Fetched.status # "OK"
        /\ UNCHANGED <<pc, gpr, mem, seen, icount, rtlb, wtlb, ftlb>>
    BY DEF FillFails
  <1>2. Grown
    BY <1>1, SameGrows
  <1>3. MachineOK' /\ SeenOK' /\ ViewsOK'
    BY <1>1 DEF IInv, MachineOK, SeenOK, ViewsOK, Now, View
  <1>4. TlbsOK'
    BY <1>1, <1>2, TlbsStay DEF IInv, TlbsOK, TlbsCoherent
  <1>5. 0 \in BbSlots /\ 0 \in BbIdxs
    BY SimulatorAssumption DEF BbSlots, BbIdxs
  <1>6. CASE Fetched.status = "segfault"
    <2>1. UNCHANGED bbs /\ ctl' = [mode |-> "crashed", bb |-> 0, k |-> 0]
      BY <1>6 DEF FillFails, Crash, Goto
    <2>2. BbsType' /\ BlocksOK'
      BY <2>1 DEF IInv, BbsType, BlocksOK, Filled
    <2>3. CtlType' /\ CtlOK'
      BY <1>5, <2>1 DEF CtlType, CtlOK
    <2> QED BY <1>3, <1>4, <2>2, <2>3 DEF IInv
  <1>7. CASE Fetched.status # "segfault"
    <2> DEFINE in == statusInstr(Fetched.status)
               nb == [CurrBb EXCEPT !.instrs = [@ EXCEPT ![ctl.k] = in]]
    <2>1. CurrBb \in [va : Nat, instrs : [BbSlots -> Instrs]] /\ ctl.k \in BbSlots
          /\ Fetched.status = FetchStatus(Now, InstrVa(CurrBb, ctl.k))
      BY <1>1, <1>7, FetchOK DEF IInv, BbsType, CurrBb
    <2>2. /\ bbs' = [bbs EXCEPT ![ctl.bb] = nb]
          /\ ctl' = [mode |-> "exec", bb |-> ctl.bb, k |-> 0] /\ UNCHANGED status
      BY <1>7 DEF FillFails, SetInstr, Goto, CurrBb
    <2>3. in \in Instrs /\ Ends(in)
      <3>1. Fetched.status \in {"SIM__UNALIGNED_LOAD", "MMU64__PAGE_FAULT",
                                "PHYS_MEM__ACCESS_FAULT", "OK"}
        BY <2>1 DEF FetchStatus, AccessStatus
      <3>2. Fetched.status \in InstrStatuses
        BY <3>1 DEF InstrStatuses
      <3>3. in.id = "SIM_STATUS_INSTR"
        BY DEF statusInstr, Instr
      <3> QED BY <3>2, <3>3, DecodeType DEF Ends
    <2>4. FetchedAt(InstrVa(CurrBb, ctl.k), in)
      BY <1>1, <2>1 DEF FetchedAt, IInv, ViewsOK
    <2> HIDE DEF in
    <2>5. /\ nb \in [va : Nat, instrs : [BbSlots -> Instrs]]
          /\ nb.va = CurrBb.va /\ nb.instrs[ctl.k] = in
          /\ \A j \in 0 .. ctl.k - 1 : nb.instrs[j] = CurrBb.instrs[j]
      <3>1. PICK bb \in [va : Nat, instrs : [BbSlots -> Instrs]], k \in BbSlots :
                bb = CurrBb /\ k = ctl.k
        BY <2>1
      <3>2. nb = [bb EXCEPT !.instrs = [@ EXCEPT ![k] = in]]
        BY <3>1
      <3>3. \A j \in 0 .. k - 1 : j \in BbSlots /\ j # k
        BY SimulatorAssumption DEF BbSlots
      <3> HIDE DEF nb
      <3>4. /\ nb \in [va : Nat, instrs : [BbSlots -> Instrs]]
            /\ nb.va = bb.va /\ nb.instrs[k] = in
        BY <2>3, <3>2
      <3>5. \A j \in 0 .. k - 1 : nb.instrs[j] = bb.instrs[j]
        BY <3>2, <3>3
      <3> QED BY <3>1, <3>4, <3>5
    <2> HIDE DEF nb
    <2>6. \A j \in 0 .. ctl.k : SlotOK(nb, j)
      BY <1>1, <2>4, <2>5, FillSlot
    <2>7. BlockEnds(nb) /\ BlockOK(nb)
      BY <2>1, <2>3, <2>5, <2>6, ClosedBlock
    <2>8. PICK b : b = nb
      OBVIOUS
    <2> QED BY <1>1, <1>2, <1>3, <1>4, <2>2, <2>5, <2>7, <2>8, FillDone
  <1> QED BY <1>6, <1>7

(* a block that is decoded, *)
LEMMA FillDecodesInv ==
    ASSUME IInv, FillDecodes, UNCHANGED <<space, views>>
    PROVE  IInv'
  <1> DEFINE va   == InstrVa(CurrBb, ctl.k)
             in   == Decode[WordAt(mem[Fetched.host], WordIdx(va))]
             full == ctl.k + 1 = MAX_SIZE - 1
             last == ~Ends(in) /\ full
             new  == [CurrBb.instrs EXCEPT
                         ![ctl.k] = in,
                         ![MAX_SIZE - 1] = IF last THEN statusInstr("OK") ELSE @]
             Bbs  == [va : Nat, instrs : [BbSlots -> Instrs]]
  <1>1. ctl.mode = "fill" /\ Fetched.status = "OK" /\ ftlb' = Fetched.tlb
        /\ UNCHANGED <<pc, gpr, space, mem, seen, views, icount, status, rtlb, wtlb>>
    BY DEF FillDecodes, machineVars
  <1>2. /\ bbs' = [bbs EXCEPT ![ctl.bb].instrs = new]
        /\ IF Ends(in) \/ full THEN ctl' = [mode |-> "exec", bb |-> ctl.bb, k |-> 0]
           ELSE ctl' = [mode |-> "fill", bb |-> ctl.bb, k |-> ctl.k + 1]
    BY DEF FillDecodes, Goto, Ends, InstrVa
  <1>3. Grown
    BY <1>1, SameGrows
  <1>4. MachineOK' /\ SeenOK' /\ ViewsOK'
    BY <1>1 DEF IInv, MachineOK, SeenOK, ViewsOK, Now, View
  <1>5. /\ ctl.k \in BbSlots /\ ctl.bb \in BbIdxs /\ va \in Nat
        /\ Fetched.tlb \in Tlbs /\ Coherent(Fetched.tlb, "FETCH")
        /\ FetchStatus(Now, va) = "OK"
        /\ Fetched.host = PhysPage(va) /\ Fetched.host \in DOMAIN mem
    BY <1>1, FetchOK
  <1>6. TlbsOK'
    <2>1. PICK t \in Tlbs : t = Fetched.tlb
      BY <1>5
    <2> QED BY <1>1, <1>3, <1>5, <2>1, TlbsStay DEF IInv, TlbsOK, TlbsCoherent
  <1>7. WordIdx(va) \in WordIdxs
    BY <1>5, PageFacts
  <1>8. in \in Instrs
    <2>1. mem[Fetched.host] \in Pages
      BY <1>5 DEF IInv, MachineOK
    <2> QED BY <1>7, <2>1, WordAtType, DecodeType
  <1>9. FetchedAt(va, in)
    <2>1. WordAt(mem[Fetched.host], WordIdx(va)) \in seen[PhysPage(va)][WordIdx(va)]
      BY <1>5, <1>7 DEF IInv, SeenOK
    <2>2. Now \in views
      BY DEF IInv, ViewsOK
    <2> QED BY <1>5, <2>1, <2>2 DEF FetchedAt
  <1> HIDE DEF in
  <1>10. PICK bb \in Bbs, k \in BbSlots : bb = CurrBb /\ k = ctl.k
    BY <1>5 DEF IInv, BbsType, CurrBb
  <1>11. k < MAX_SIZE - 1 /\ MAX_SIZE - 1 \in BbSlots /\ k \in Nat /\ k + 1 \in BbSlots
    BY <1>1, <1>10, SimulatorAssumption DEF IInv, CtlOK, BbSlots
  <1>12. PICK f : f = [bb.instrs EXCEPT ![k] = in,
                                        ![MAX_SIZE - 1] = IF last THEN statusInstr("OK") ELSE @]
    OBVIOUS
  <1>13. PICK nb : nb = [bb EXCEPT !.instrs = f] /\ bbs' = [bbs EXCEPT ![ctl.bb] = nb]
    <2>1. new = f
      BY <1>10, <1>12
    <2> HIDE DEF new
    <2>2. bbs' = [bbs EXCEPT ![ctl.bb] = [bb EXCEPT !.instrs = f]]
      BY <1>2, <1>10, <2>1 DEF CurrBb
    <2> QED BY <2>2
  <1>14. statusInstr("OK") \in Instrs /\ Ends(statusInstr("OK"))
    <2>1. "OK" \in InstrStatuses /\ statusInstr("OK").id = "SIM_STATUS_INSTR"
      BY DEF InstrStatuses, statusInstr, Instr
    <2> QED BY <2>1, DecodeType DEF Ends
  <1> HIDE DEF last, full, va
  <1>15. /\ nb \in Bbs /\ nb.va = bb.va /\ nb.instrs[k] = in
         /\ last => nb.instrs[MAX_SIZE - 1] = statusInstr("OK")
    <2>1. PICK n \in BbSlots : n = MAX_SIZE - 1 /\ n # k
      BY <1>11, SimulatorAssumption
    <2>2. PICK x \in Instrs : x = IF last THEN statusInstr("OK") ELSE bb.instrs[n]
      BY <1>14
    <2>3. bb.instrs \in [BbSlots -> Instrs] /\ bb.va \in Nat
      OBVIOUS
    <2>4. f \in [BbSlots -> Instrs] /\ f[k] = in /\ f[n] = x
      BY <1>8, <1>12, <1>14, <2>1, <2>2, <2>3
    <2>5. nb \in Bbs /\ nb.va = bb.va /\ nb.instrs = f
      BY <1>13, <2>4
    <2> QED BY <2>1, <2>2, <2>4, <2>5
  <1>16. \A j \in 0 .. k - 1 : nb.instrs[j] = bb.instrs[j]
    <2>1. \A j \in 0 .. k - 1 : j \in BbSlots /\ j # k /\ j # MAX_SIZE - 1
      BY <1>11, SimulatorAssumption DEF BbSlots
    <2> QED BY <1>12, <1>13, <2>1
  <1>17. RunsPast(nb, k) /\ \A j \in 0 .. k : SlotOK(nb, j)
    BY <1>1, <1>9, <1>10, <1>15, <1>16, FillSlot DEF va
  <1>18. CASE Ends(in)
    <2>1. BlockEnds(nb) /\ BlockOK(nb)
      BY <1>15, <1>17, <1>18, ClosedBlock
    <2> QED BY <1>1, <1>2, <1>3, <1>4, <1>6, <1>10, <1>13, <1>15, <1>18, <2>1, FillDone
  <1>19. CASE ~Ends(in) /\ full
    <2>1. nb.instrs[MAX_SIZE - 1] = statusInstr("OK") /\ k + 1 = MAX_SIZE - 1
      BY <1>10, <1>15, <1>19 DEF last, full
    <2>2. \A j \in 0 .. MAX_SIZE - 1 : j \in 0 .. k \/ j = MAX_SIZE - 1
      BY <1>11, <2>1, SimulatorAssumption
    <2>3. \A j \in 0 .. MAX_SIZE - 1 : SlotOK(nb, j)
      BY <1>17, <2>1, <2>2 DEF SlotOK
    <2>4. BlockEnds(nb) /\ BlockOK(nb)
      BY <1>11, <1>14, <2>1, <2>3, ClosedBlock
    <2> QED BY <1>1, <1>2, <1>3, <1>4, <1>6, <1>10, <1>13, <1>15, <1>19, <2>4, FillDone
  <1>20. CASE ~Ends(in) /\ ~full
    <2>1. ctl' = [mode |-> "fill", bb |-> ctl.bb, k |-> k + 1]
      BY <1>2, <1>10, <1>20
    <2>2. PICK b \in BbIdxs : b = ctl.bb
      BY <1>5
    <2>3. BbsType' /\ bbs'[b] = nb /\ \A c \in BbIdxs : c # b => bbs'[c] = bbs[c]
      BY <1>13, <1>15, <2>2 DEF IInv, BbsType
    <2>4. BlocksOK'
      <3> SUFFICES ASSUME NEW c \in BbIdxs, Filled(c)'
                   PROVE  BlockEnds(bbs[c])' /\ BlockOK(bbs[c])'
        BY DEF BlocksOK
      <3>1. c # b
        BY <2>1, <2>2 DEF Filled
      <3>2. BlockEnds(bbs[c]) /\ BlockOK(bbs[c])
        BY <1>1, <2>2, <3>1 DEF IInv, BlocksOK, Filled
      <3> QED BY <1>3, <2>3, <3>1, <3>2, BlocksStay DEF IInv
    <2>5. CtlType'
      BY <1>11, <2>1, <2>2 DEF CtlType
    <2>6. RunsPast(nb, k + 1) /\ \A j \in 0 .. (k + 1) - 1 : SlotOK(nb, j)'
      <3>1. \A j \in 0 .. (k + 1) - 1 : j \in 0 .. k /\ (j \in 0 .. k - 1 \/ j = k) /\ j \in BbSlots
        BY <1>11, SimulatorAssumption DEF BbSlots
      <3>2. RunsPast(nb, k + 1)
        BY <1>15, <1>17, <1>20, <3>1 DEF RunsPast
      <3> QED BY <1>3, <1>15, <1>17, <3>1, <3>2, SlotStays DEF IInv
    <2>7. CtlOK'
      <3>1. CurrBb' = nb /\ ctl'.k = k + 1
        BY <2>1, <2>2, <2>3 DEF CurrBb
      <3>2. pc = nb.va /\ status = "running"
        BY <1>1, <1>10, <1>15 DEF IInv, CtlOK
      <3>3. k + 1 < MAX_SIZE - 1
        BY <1>10, <1>11, <1>20, SimulatorAssumption DEF full
      <3>4. ASSUME NEW j \in 0 .. (k + 1) - 1 PROVE SlotOK(CurrBb, j)'
        BY <2>6, <3>1
      <3> QED BY <1>1, <2>1, <2>6, <3>1, <3>2, <3>3, <3>4 DEF CtlOK
    <2> QED BY <1>4, <1>6, <2>3, <2>4, <2>5, <2>7 DEF IInv
  <1> QED BY <1>18, <1>19, <1>20

(* The host's steps: no block is being filled, no instruction runs. *)
LEMMA HostCallsInv ==
    ASSUME IInv, NEW startPc \in StartPcs, HostCalls(startPc)
    PROVE  IInv'
  <1>1. /\ ctl.mode = "idle" /\ ctl' = [mode |-> "lookup", bb |-> 0, k |-> 0]
        /\ pc' = startPc /\ icount' = 0 /\ status' = "running"
        /\ UNCHANGED <<gpr, space, mem, seen, views, bbs, rtlb, wtlb, ftlb>>
    BY DEF HostCalls, simulate, Goto
  <1>2. Grown
    BY <1>1, SameGrows
  <1>3. MachineOK' /\ SeenOK' /\ ViewsOK'
    BY <1>1, MachineAssumption DEF IInv, MachineOK, SeenOK, ViewsOK, Now, View
  <1>4. TlbsOK'
    BY <1>1, <1>2, TlbsStay DEF IInv, TlbsOK, TlbsCoherent
  <1>5. BbsType' /\ BlocksOK'
    BY <1>1, <1>2, SameBlocks
  <1>6. CtlType' /\ CtlOK'
    BY <1>1, SimulatorAssumption DEF CtlType, CtlOK, BbIdxs, BbSlots
  <1> QED BY <1>3, <1>4, <1>5, <1>6 DEF IInv

(* and what the host does between runs. *)
LEMMA HostActsInv ==
    ASSUME IInv, HostActs
    PROVE  IInv'
  <1>1. ctl.mode = "idle" /\ Host /\ UNCHANGED <<bbs, rtlb, wtlb, ftlb, ctl>>
    BY DEF HostActs, simVars
  <1>2. MachineOK' /\ SeenOK' /\ ViewsOK' /\ Grown
    BY <1>1, HostOK DEF IInv
  <1>3. TlbsOK'
    BY <1>1, <1>2, TlbsStay DEF IInv, TlbsOK, TlbsCoherent
  <1>4. BbsType' /\ BlocksOK'
    BY <1>1, <1>2, SameBlocks
  <1>5. CtlType' /\ CtlOK'
    BY <1>1 DEF IInv, CtlType, CtlOK
  <1> QED BY <1>2, <1>3, <1>4, <1>5 DEF IInv

-----------------------------------------------------------------------------
(* A new simulator has the invariant. *)
LEMMA InitInv == Init => IInv
  <1> SUFFICES ASSUME Init PROVE IInv
    OBVIOUS
  <1>1. MachineOK
    BY MachineAssumption, Sizes DEF Init, MachineInit, MachineOK, RegValues, Gprs
  <1>2. SeenOK /\ ViewsOK
    <2>1. \A p \in DOMAIN mem, i \in WordIdxs : seen[p][i] = {WordAt(mem[p], i)}
      BY DEF Init, MachineInit, WordIdxs
    <2>2. \A p \in DOMAIN mem, i \in WordIdxs : WordAt(mem[p], i) \in Words
      BY <1>1, WordAtType DEF MachineOK
    <2> QED BY <2>1, <2>2 DEF Init, MachineInit, SeenOK, ViewsOK, Now, View
  <1>3. TlbsOK
    <2>1. EmptyTlb \in Tlbs /\ \A access : Coherent(EmptyTlb, access)
      BY SimulatorAssumption DEF EmptyTlb, Tlbs, Coherent, nullptr
    <2> QED BY <2>1 DEF Init, TlbsOK, TlbsCoherent
  <1>4. IllegalInstr \in Instrs /\ Ends(IllegalInstr)
    <2>1. /\ "SIM__NOT_IMPLEMENTED_INSTR" \in InstrStatuses
          /\ IllegalInstr.id = "SIM_STATUS_INSTR"
      BY DEF InstrStatuses, IllegalInstr, statusInstr, Instr
    <2> QED BY <2>1, DecodeType DEF Ends, IllegalInstr
  <1>5. BbsType /\ \A b \in BbIdxs : bbs[b] = EmptyBb
    BY <1>4, SimulatorAssumption DEF Init, BbsType, BbIdxs, BbSlots, EmptyBb
  <1>6. BlocksOK
    <2>1. EmptyBb.va = INVALID_VA /\ EmptyBb.instrs[0] = IllegalInstr /\ 0 \in BbSlots
      BY SimulatorAssumption DEF EmptyBb, BbSlots
    <2>2. BlockEnds(EmptyBb) /\ BlockOK(EmptyBb)
      BY <1>4, <2>1 DEF BlockEnds, BlockOK
    <2> QED BY <1>5, <2>2 DEF BlocksOK
  <1>7. CtlType /\ CtlOK
    BY SimulatorAssumption DEF Init, CtlType, CtlOK, BbIdxs, BbSlots
  <1> QED BY <1>1, <1>2, <1>3, <1>5, <1>6, <1>7 DEF IInv

(* Every step keeps it. *)
LEMMA NextInv == IInv /\ [Next]_vars => IInv'
  <1> SUFFICES ASSUME IInv, [Next]_vars PROVE IInv'
    OBVIOUS
  <1>1. CASE \E startPc \in StartPcs : HostCalls(startPc)
    BY <1>1, HostCallsInv
  <1>2. CASE HostActs
    BY <1>2, HostActsInv
  <1>3. CASE SimStep
    BY <1>3, LookupInv, FillFailsInv, FillDecodesInv, ExecStatusInv, ExecEcallInv,
       ExecAluInv, ExecLoadInv, ExecStoreInv, ExecJumpInv, ExecUnimplementedInv DEF SimStep
  <1>4. CASE UNCHANGED vars
    <2>1. UNCHANGED <<pc, gpr, space, mem, seen, views, icount, status, bbs, rtlb, wtlb, ftlb, ctl>>
      BY <1>4 DEF vars
    <2>2. Grown
      BY <2>1, SameGrows
    <2>3. MachineOK' /\ SeenOK' /\ ViewsOK'
      BY <2>1 DEF IInv, MachineOK, SeenOK, ViewsOK, Now, View
    <2>4. TlbsOK'
      BY <2>1, <2>2, TlbsStay DEF IInv, TlbsOK, TlbsCoherent
    <2>5. BbsType' /\ CtlType'
      BY <2>1 DEF IInv, BbsType, CtlType
    <2>6. BlocksOK'
      <3> SUFFICES ASSUME NEW b \in BbIdxs, Filled(b)'
                   PROVE  BlockEnds(bbs[b])' /\ BlockOK(bbs[b])'
        BY DEF BlocksOK
      <3>1. BlockEnds(bbs[b]) /\ BlockOK(bbs[b])
        BY <2>1 DEF IInv, BlocksOK, Filled
      <3> QED BY <2>1, <2>2, <3>1, BlocksStay DEF IInv
    <2>7. CtlOK'
      <3>1. CurrBb' = CurrBb
        BY <2>1 DEF CurrBb
      <3>2. CurrBb.va \in Nat
        BY DEF IInv, BbsType, CtlType, CurrBb
      <3>3. ASSUME ctl.mode = "fill", NEW j \in 0 .. ctl.k - 1 PROVE SlotOK(CurrBb, j)'
        <4>1. SlotOK(CurrBb, j)
          BY <3>3 DEF IInv, CtlOK
        <4>2. ctl.k \in 0 .. MAX_SIZE - 1
          BY DEF IInv, CtlType, BbSlots
        <4>3. j \in BbSlots
          BY <4>2, SimulatorAssumption DEF BbSlots
        <4>4. PICK bb : bb = CurrBb
          OBVIOUS
        <4>5. SlotOK(bb, j)'
          BY <2>2, <3>2, <4>1, <4>3, <4>4, SlotStays DEF IInv
        <4> QED BY <3>1, <4>4, <4>5
      <3> QED BY <2>1, <3>1, <3>3 DEF IInv, CtlOK
    <2> QED BY <2>3, <2>4, <2>5, <2>6, <2>7 DEF IInv
  <1> QED BY <1>1, <1>2, <1>3, <1>4 DEF Next

(* It holds in every state. *)
LEMMA SpecIInv == Spec => []IInv
  BY InitInv, NextInv, PTL DEF Spec

(* simulate(), its caches and the hart keep their types, whatever program  *)
(* runs and however wide the registers are: no handler computes a value    *)
(* that is not a register's, no chain of handlers runs past the end of its *)
(* block's array.                                                          *)
THEOREM TypeCorrect == Spec => []TypeOK
  <1>1. IInv => TypeOK
    BY DEF IInv, TypeOK, MachineOK, TlbsOK, BbsType, CtlType, Gprs, Pages, Instrs, BbIdxs, BbSlots
  <1> QED BY <1>1, SpecIInv, PTL

(* x0 reads zero in every state (GPRFile::write clears it). *)
THEOREM ZeroAlwaysZero == Spec => []ZeroIsZero
  <1>1. IInv => ZeroIsZero
    BY DEF IInv, MachineOK, ZeroIsZero
  <1> QED BY <1>1, SpecIInv, PTL

(* The three TLBs are never invalidated and never stale (tlb.hpp). *)
THEOREM TlbsAlwaysCoherent == Spec => []TlbsCoherent
  <1>1. IInv => TlbsCoherent
    BY DEF IInv, TlbsOK
  <1> QED BY <1>1, SpecIInv, PTL

(* The instruction about to run is one that a fetch at pc gives or gave,   *)
(* in every block that was ever filled (Bb::update, SIM_NEXT); an empty    *)
(* block runs only at the address that marks it, INVALID_VA.               *)
THEOREM AlwaysRunsInstrAtPc == Spec => [](CurrBb.va # INVALID_VA => RunsInstrAtPc)
  <1>1. IInv => (CurrBb.va # INVALID_VA => RunsInstrAtPc)
    <2> SUFFICES ASSUME IInv, CurrBb.va # INVALID_VA, ctl.mode = "exec"
                 PROVE  RunsInstrAtPc
      BY DEF RunsInstrAtPc
    <2>1. pc = InstrVa(CurrBb, ctl.k) /\ RunsPast(CurrBb, ctl.k) /\ ctl.k \in BbSlots
      BY DEF IInv, CtlOK, CtlType
    <2>2. BlockOK(CurrBb)
      BY DEF IInv, BlocksOK, Filled, CtlType, CurrBb
    <2>3. SlotOK(CurrBb, ctl.k)
      BY <2>1, <2>2 DEF BlockOK
    <2> QED BY <2>1, <2>3 DEF RunsInstrAtPc, SlotOK, FetchedAt, InstrVa, CurrInstr
  <1> QED BY <1>1, SpecIInv, PTL

-----------------------------------------------------------------------------
(* The refinement.  Isa.tla takes its operators from the same modules, so  *)
(* the instance's operators are this module's.                             *)
LEMMA IsaSizes ==
    /\ Arch!INSTR_CODE_SIZE = INSTR_CODE_SIZE /\ Arch!WORD_BITS = WORD_BITS
    /\ Arch!REG_BITS = REG_BITS /\ Arch!BYTE_SIZE = BYTE_SIZE /\ Arch!REG_SIZE = REG_SIZE
    /\ Arch!ImmIds = ImmIds /\ Arch!ShiftImmIds = ShiftImmIds /\ Arch!AluIds = AluIds
    /\ Arch!LoadIds = LoadIds /\ Arch!StoreIds = StoreIds
    /\ Arch!BranchIds = BranchIds /\ Arch!JumpIds = JumpIds /\ Arch!Offsets = Offsets
  BY DEF Arch!INSTR_CODE_SIZE, INSTR_CODE_SIZE, Arch!WORD_BITS, WORD_BITS, Arch!REG_BITS,
     REG_BITS, Arch!BYTE_SIZE, BYTE_SIZE, Arch!REG_SIZE, REG_SIZE, Arch!ImmIds, ImmIds,
     Arch!ShiftImmIds, ShiftImmIds, Arch!AluIds, AluIds, Arch!RegIds, RegIds, Arch!LoadIds,
     LoadIds, Arch!StoreIds, StoreIds, Arch!BranchIds, BranchIds, Arch!JumpIds, JumpIds,
     Arch!Offsets, Offsets

(* The specification Isa uses the same bit helpers, *)
LEMMA IsaBits ==
    /\ \A w, n : Arch!Trunc(w, n) = Trunc(w, n) /\ Arch!Signed(w, n) = Signed(w, n)
    /\ \A w, n : Arch!BitsOf(w, n) = BitsOf(w, n)
    /\ \A S : Arch!ValueOf(S) = ValueOf(S)
    /\ \A w, hi, lo, v : Arch!maskBits(w, hi, lo, v) = maskBits(w, hi, lo, v)
  <1>1. \A w, n : Arch!Trunc(w, n) = Trunc(w, n)
    BY DEF Arch!Trunc, Trunc
  <1>2. \A w, n : Arch!Signed(w, n) = Signed(w, n)
    BY <1>1 DEF Arch!Signed, Signed
  <1>3. \A w, n : Arch!BitsOf(w, n) = BitsOf(w, n)
    BY DEF Arch!BitsOf, BitsOf
  <1>4. \A f, S : Arch!SumFunctionOnSet(f, S) = SumFunctionOnSet(f, S)
    BY DEF Arch!SumFunctionOnSet, Arch!FoldFunctionOnSet, Arch!MapThenFoldSet,
       SumFunctionOnSet, FoldFunctionOnSet, MapThenFoldSet
  <1>5. \A S : Arch!ValueOf(S) = ValueOf(S)
    BY <1>4 DEF Arch!ValueOf, ValueOf
  <1>6. \A w, hi, lo, v : Arch!getBitField(w, hi, lo, v) = getBitField(w, hi, lo, v)
    BY <1>1 DEF Arch!getBitField, getBitField, Arch!Promoted, Promoted
  <1>7. \A w, hi, lo, v : Arch!maskBits(w, hi, lo, v) = maskBits(w, hi, lo, v)
    BY <1>1, <1>6 DEF Arch!maskBits, maskBits
  <1> QED BY <1>1, <1>2, <1>3, <1>5, <1>7

(* the same register file and bytes, *)
LEMMA IsaHart ==
    /\ \A n : Arch!Wrap(n) = Wrap(n)
    /\ \A g, rd, v : Arch!GprWrite(g, rd, v) = GprWrite(g, rd, v)
    /\ \A in, g : Arch!EffectiveVa(in, g) = EffectiveVa(in, g)
    /\ \A id : Arch!AccessSize(id) = AccessSize(id)
    /\ \A n, j : Arch!ByteOf(n, j) = ByteOf(n, j)
    /\ \A page, off, size : Arch!FromBytes(page, off, size) = FromBytes(page, off, size)
    /\ \A id, n : Arch!LoadedValue(id, n) = LoadedValue(id, n)
    /\ \A in, g, p : Arch!NewPc(in, g, p) = NewPc(in, g, p)
    /\ \A p : Arch!PcAligned(p) = PcAligned(p) /\ Arch!NextPc(p) = NextPc(p)
  <1>1. \A n : Arch!Wrap(n) = Wrap(n)
    BY IsaSizes DEF Arch!Wrap, Wrap
  <1>2. \A g, rd, v : Arch!GprWrite(g, rd, v) = GprWrite(g, rd, v)
    BY DEF Arch!GprWrite, GprWrite
  <1>3. \A in, g : Arch!EffectiveVa(in, g) = EffectiveVa(in, g)
    BY <1>1 DEF Arch!EffectiveVa, EffectiveVa
  <1>4. \A id : Arch!AccessSize(id) = AccessSize(id)
    BY DEF Arch!AccessSize, AccessSize
  <1>5. \A n, j : Arch!ByteOf(n, j) = ByteOf(n, j)
    BY IsaSizes DEF Arch!ByteOf, ByteOf
  <1>6. \A page, off, size : Arch!FromBytes(page, off, size) = FromBytes(page, off, size)
    BY DEF Arch!SumFunctionOnSet, Arch!FoldFunctionOnSet, Arch!MapThenFoldSet,
       SumFunctionOnSet, FoldFunctionOnSet, MapThenFoldSet, Arch!FromBytes, FromBytes
  <1>7. \A id, n : Arch!LoadedValue(id, n) = LoadedValue(id, n)
    BY <1>1, <1>4, IsaBits DEF Arch!LoadedValue, LoadedValue
  <1>8. \A a, b : Arch!LessSigned(a, b) = LessSigned(a, b)
    BY IsaBits, IsaSizes DEF Arch!LessSigned, LessSigned
  <1>9. \A in, g : Arch!Taken(in, g) = Taken(in, g)
    BY <1>8 DEF Arch!Taken, Taken
  <1>10. \A in, g, p : Arch!NewPc(in, g, p) = NewPc(in, g, p)
    BY <1>1, <1>9, IsaSizes DEF Arch!NewPc, NewPc
  <1>11. \A p : Arch!PcAligned(p) = PcAligned(p) /\ Arch!NextPc(p) = NextPc(p)
    BY <1>1, IsaSizes DEF Arch!PcAligned, PcAligned, Arch!NextPc, NextPc
  <1> QED BY <1>1, <1>2, <1>3, <1>4, <1>5, <1>6, <1>7, <1>10, <1>11

(* the same arithmetic, *)
LEMMA IsaAlu == \A in, g, p : Arch!AluResult(in, g, p) = AluResult(in, g, p)
  BY DEF Arch!AluResult, AluResult, Arch!RegShift, RegShift, Arch!SextWord, SextWord,
     Arch!LessSigned, LessSigned, Arch!ShiftCount, ShiftCount, Arch!Bool, Bool,
     Arch!Wrap, Wrap, Arch!Trunc, Trunc, Arch!Signed, Signed, Arch!BitsOf, BitsOf,
     Arch!ValueOf, ValueOf, Arch!maskBits, maskBits, Arch!getBitField, getBitField,
     Arch!Promoted, Promoted, Arch!SumFunctionOnSet, SumFunctionOnSet,
     Arch!FoldFunctionOnSet, FoldFunctionOnSet, Arch!MapThenFoldSet, MapThenFoldSet,
     Arch!ImmIds, ImmIds, Arch!ShiftImmIds, ShiftImmIds, Arch!REG_BITS, REG_BITS,
     Arch!WORD_BITS, WORD_BITS, Arch!REG_SIZE, REG_SIZE

(* the same address space and faults, *)
LEMMA IsaMachine ==
    /\ \A va : Arch!PageVa(va) = PageVa(va) /\ Arch!Offset(va) = Offset(va)
               /\ Arch!WordIdx(va) = WordIdx(va) /\ Arch!PhysPage(va) = PhysPage(va)
    /\ \A view, access, va, size, unaligned :
           Arch!AccessStatus(view, access, va, size, unaligned)
               = AccessStatus(view, access, va, size, unaligned)
    /\ \A view, va : Arch!FetchStatus(view, va) = FetchStatus(view, va)
    /\ Arch!Now = Now
  BY DEF Arch!PageVa, PageVa, Arch!Offset, Offset, Arch!WordIdx, WordIdx, Arch!PhysPage,
     PhysPage, Arch!AccessStatus, AccessStatus, Arch!Unaligned, Unaligned, Arch!Translates,
     Translates, Arch!FetchStatus, FetchStatus, Arch!Now, Now, Arch!View, View,
     Arch!INSTR_CODE_SIZE, INSTR_CODE_SIZE

(* the same stores, *)
LEMMA IsaStores ==
    ASSUME NEW p, NEW off, NEW size, NEW v
    PROVE  Arch!StoreBytes(p, off, size, v) <=> StoreBytes(p, off, size, v)
  BY DEF Arch!StoreBytes, StoreBytes, Arch!SeenIn, SeenIn, Arch!WordAt, WordAt,
     Arch!FromBytes, FromBytes, Arch!ByteOf, ByteOf, Arch!SumFunctionOnSet,
     SumFunctionOnSet, Arch!FoldFunctionOnSet, FoldFunctionOnSet, Arch!MapThenFoldSet,
     MapThenFoldSet, Arch!BYTE_SIZE, BYTE_SIZE, Arch!Offsets, Offsets,
     Arch!INSTR_CODE_SIZE, INSTR_CODE_SIZE

(* and the same host. *)
LEMMA IsaHost ==
    /\ Arch!Host <=> Host
    /\ \A p : Arch!simulate(p) <=> simulate(p)
    /\ Arch!MachineInit <=> MachineInit
  BY DEF Arch!Host, Host, Arch!HostWrite, HostWrite, Arch!HostMap, HostMap,
     Arch!HostAddPage, HostAddPage, Arch!simulate, simulate, Arch!MachineInit, MachineInit,
     Arch!StoreBytes, StoreBytes, Arch!SeenIn, SeenIn, Arch!WordAt, WordAt,
     Arch!FromBytes, FromBytes, Arch!ByteOf, ByteOf, Arch!SumFunctionOnSet,
     SumFunctionOnSet, Arch!FoldFunctionOnSet, FoldFunctionOnSet, Arch!MapThenFoldSet,
     MapThenFoldSet, Arch!BYTE_SIZE, BYTE_SIZE, Arch!Offsets, Offsets, Arch!View, View,
     Arch!Now, Now, Arch!INSTR_CODE_SIZE, INSTR_CODE_SIZE

(* The instruction set's step, in this module's operators. *)
LEMMA IsaExecute ==
    ASSUME NEW in
    PROVE  /\ Arch!Alu(in) <=> /\ gpr' = GprWrite(gpr, in.rd, AluResult(in, gpr, pc))
                               /\ Retire(NextPc(pc))
                               /\ UNCHANGED <<space, mem, seen, views, status>>
           /\ \A s : Arch!Stop(s) <=> 
                  status' = s /\ UNCHANGED <<pc, gpr, space, mem, seen, views, icount>>
           /\ Arch!Ecall <=> /\ Retire(NextPc(pc)) /\ status' = "OK"
                             /\ UNCHANGED <<gpr, space, mem, seen, views>>
  BY IsaAlu, IsaHart DEF Arch!Alu, Arch!Retire, Retire, Arch!Stop, Arch!Ecall

(* Its loads and stores are these. *)
LEMMA IsaMemory ==
    ASSUME NEW in
    PROVE  /\ LET va   == EffectiveVa(in, gpr)
                  size == AccessSize(in.id)
                  st   == AccessStatus(Now, "READ", va, size, "SIM__UNALIGNED_LOAD")
              IN  Arch!Load(in) <=>
                    IF st # "OK" THEN Arch!Stop(st)
                    ELSE /\ gpr' = GprWrite(gpr, in.rd,
                                LoadedValue(in.id, FromBytes(mem[PhysPage(va)], Offset(va), size)))
                         /\ Retire(NextPc(pc))
                         /\ UNCHANGED <<space, mem, seen, views, status>>
           /\ LET va   == EffectiveVa(in, gpr)
                  size == AccessSize(in.id)
                  st   == AccessStatus(Now, "WRITE", va, size, "SIM__UNALIGNED_STORE")
              IN  Arch!Store(in) <=>
                    IF st # "OK" THEN Arch!Stop(st)
                    ELSE /\ StoreBytes(PhysPage(va), Offset(va), size, gpr[in.rs2])
                         /\ Retire(NextPc(pc))
                         /\ UNCHANGED <<gpr, space, views, status>>
           /\ Arch!Jump(in) <=>
                    IF ~PcAligned(NewPc(in, gpr, pc)) THEN Arch!Stop("SIM__PC_ALIGN_ERROR")
                    ELSE /\ gpr' = IF in.id \in JumpIds THEN GprWrite(gpr, in.rd, NextPc(pc))
                                   ELSE gpr
                         /\ Retire(NewPc(in, gpr, pc))
                         /\ UNCHANGED <<space, mem, seen, views, status>>
  BY IsaHart, IsaMachine, IsaStores, IsaSizes
     DEF Arch!Load, Arch!Store, Arch!Jump, Arch!Retire, Retire

(* Its instruction classes do not overlap. *)
LEMMA IsaCases ==
    ASSUME NEW in
    PROVE  /\ in.id \in AluIds /\ Arch!Alu(in) => Arch!Execute(in)
           /\ in.id \in LoadIds /\ Arch!Load(in) => Arch!Execute(in)
           /\ in.id \in StoreIds /\ Arch!Store(in) => Arch!Execute(in)
           /\ in.id \in JumpIds \cup BranchIds /\ Arch!Jump(in) => Arch!Execute(in)
           /\ in.id = "ECALL" /\ Arch!Ecall => Arch!Execute(in)
           /\ in.id = "SIM_STATUS_INSTR" /\ Arch!Stop("SIM__NOT_IMPLEMENTED_INSTR")
                  => Arch!Execute(in)
  <1>1. /\ in.id \in AluIds => in.id \notin LoadIds \cup StoreIds \cup JumpIds \cup BranchIds \cup {"ECALL"}
        /\ in.id \in LoadIds => in.id \notin AluIds \cup StoreIds \cup JumpIds \cup BranchIds \cup {"ECALL"}
        /\ in.id \in StoreIds => in.id \notin AluIds \cup LoadIds \cup JumpIds \cup BranchIds \cup {"ECALL"}
        /\ in.id \in JumpIds \cup BranchIds => in.id \notin AluIds \cup LoadIds \cup StoreIds \cup {"ECALL"}
        /\ in.id = "ECALL" => in.id \notin AluIds \cup LoadIds \cup StoreIds \cup JumpIds \cup BranchIds
        /\ in.id = "SIM_STATUS_INSTR" =>
               in.id \notin AluIds \cup LoadIds \cup StoreIds \cup JumpIds \cup BranchIds \cup {"ECALL"}
    BY DEF AluIds, RegIds, ImmIds, ShiftImmIds, LoadIds, StoreIds, JumpIds, BranchIds
  <1> QED BY <1>1, IsaSizes DEF Arch!Execute

(* What the chain of handlers runs, a fetch at pc gives. *)
LEMMA IsaFetches ==
    ASSUME IInv, ctl.mode = "exec", CurrBb.va # INVALID_VA,
           NEW in, in = CurrInstr, in # statusInstr("OK")
    PROVE  /\ Arch!Execute(in) /\ in.id # "SIM_STATUS_INSTR" => Arch!Step
           /\ in.id = "SIM_STATUS_INSTR" /\ Arch!Stop(in.status) => Arch!Step
  <1>1. status = "running" /\ ctl.k \in BbSlots /\ ctl.bb \in BbIdxs
    BY DEF IInv, CtlOK, CtlType
  <1>2. SlotOK(CurrBb, ctl.k) /\ pc = InstrVa(CurrBb, ctl.k)
    BY <1>1 DEF IInv, BlocksOK, BlockOK, Filled, CtlOK, CurrBb
  <1>3. PICK view \in views :
            IF FetchStatus(view, pc) # "OK"
            THEN in = statusInstr(FetchStatus(view, pc))
            ELSE \E w \in seen[PhysPage(pc)][WordIdx(pc)] : in = Decode[w]
    BY <1>2 DEF SlotOK, FetchedAt, CurrInstr
  <1>4. CASE FetchStatus(view, pc) # "OK"
    <2>1. in.id = "SIM_STATUS_INSTR" /\ in.status = FetchStatus(view, pc)
      BY <1>3, <1>4 DEF statusInstr, Instr
    <2>2. Arch!Stop(in.status) => Arch!Step
      BY <1>1, <1>4, <2>1, IsaMachine DEF Arch!Step
    <2> QED BY <2>1, <2>2
  <1>5. CASE FetchStatus(view, pc) = "OK"
    <2>1. PICK w \in seen[PhysPage(pc)][WordIdx(pc)] : in = Decode[w]
      BY <1>3, <1>5
    <2>2. Arch!Execute(in) => Arch!Step
      BY <1>1, <1>5, <2>1, IsaMachine DEF Arch!Step
    <2>3. in.id = "SIM_STATUS_INSTR" => in.status = "SIM__NOT_IMPLEMENTED_INSTR"
      <3>1. PageVa(pc) \in DOMAIN view.space /\ view.space[PageVa(pc)].ppn \in view.ram
        BY <1>5 DEF FetchStatus, AccessStatus, Translates
      <3>2. PhysPage(pc) \in DOMAIN mem
        BY <3>1 DEF IInv, ViewsOK, PhysPage
      <3>3. WordIdx(pc) \in WordIdxs
        BY PageFacts, Sizes DEF IInv, MachineOK, RegValues
      <3>4. w \in Words
        BY <2>1, <3>2, <3>3 DEF IInv, SeenOK
      <3> QED BY <2>1, <3>4, DecodeAssumption DEF IllegalInstr, statusInstr, Instr
    <2> QED BY <2>2, <2>3, IsaCases
  <1> QED BY <1>4, <1>5

(* No null pointer was used, and no block runs at the address that marks   *)
(* blocks which were never filled.                                         *)
NoPoison == status # "segfault" /\ (ctl.mode = "exec" => CurrBb.va # INVALID_VA)

(* The current instruction, executed by the book, is a step of the book. *)
LEMMA ExecutesStep ==
    ASSUME IInv, ctl.mode = "exec", NoPoison, NEW in, in = CurrInstr,
           \/ in.id \in AluIds /\ Arch!Alu(in)
           \/ in.id \in LoadIds /\ Arch!Load(in)
           \/ in.id \in StoreIds /\ Arch!Store(in)
           \/ in.id \in JumpIds \cup BranchIds /\ Arch!Jump(in)
           \/ in.id = "ECALL" /\ Arch!Ecall
    PROVE  Arch!Step
  <1>1. in.id # "SIM_STATUS_INSTR"
    BY DEF AluIds, RegIds, ImmIds, ShiftImmIds, LoadIds, StoreIds, JumpIds, BranchIds
  <1>2. in # statusInstr("OK")
    BY <1>1 DEF statusInstr, Instr
  <1>3. Arch!Execute(in)
    BY IsaCases
  <1> QED BY <1>1, <1>2, <1>3, IsaFetches DEF NoPoison

(* A load, through the read TLB, is a load by the book. *)
LEMMA LoadRefines ==
    ASSUME IInv, NoPoison, NoPoison', ExecLoad, UNCHANGED <<space, views>>
    PROVE  Arch!Step
  <1>1. PICK in : in = CurrInstr
    OBVIOUS
  <1> DEFINE va   == EffectiveVa(in, gpr)
             size == AccessSize(in.id)
             a    == Access(rtlb, "READ", va, size, "SIM__UNALIGNED_LOAD")
             st   == AccessStatus(Now, "READ", va, size, "SIM__UNALIGNED_LOAD")
  <1>2. /\ ctl.mode = "exec" /\ in.id \in LoadIds
        /\ IF a.status # "OK" THEN Faults(a.status)
           ELSE /\ gpr' = GprWrite(gpr, in.rd,
                          LoadedValue(in.id, FromBytes(mem[a.host], Offset(va), size)))
                /\ Retire(NextPc(pc))
                /\ RunNext
                /\ UNCHANGED <<mem, seen>>
    BY <1>1 DEF ExecLoad, Executing
  <1>3. va \in Nat
    BY <1>1, CurrInstrType, EffectiveVaType, Sizes DEF IInv, MachineOK, RegValues
  <1>4. size \in {1, 2, 4, 8}
    BY <1>2, AccessSizeType
  <1> HIDE DEF va, size
  <1>5. /\ a.status = "OK" => st = "OK" /\ a.host = PhysPage(va)
        /\ a.status \notin {"OK", "segfault"} => a.status = st
    <2>1. /\ rtlb \in Tlbs /\ Coherent(rtlb, "READ") /\ DOMAIN mem \subseteq Nat
          /\ "SIM__UNALIGNED_LOAD" \notin {"OK", "segfault"}
      BY DEF IInv, MachineOK, TlbsOK, TlbsCoherent
    <2> QED BY <1>3, <1>4, <2>1, AccessOK
  <1> HIDE DEF a, st
  <1>6. CASE a.status # "OK"
    <2>1. a.status # "segfault"
      BY <1>2, <1>6 DEF Faults, Crash, NoPoison
    <2>2. Arch!Stop(st) /\ st # "OK"
      BY <1>2, <1>5, <1>6, <2>1, IsaExecute DEF Faults, ReturnStatus
    <2>3. Arch!Load(in)
      BY <2>2, IsaMemory DEF va, size, st
    <2> QED BY <1>1, <1>2, <2>3, ExecutesStep
  <1>7. CASE a.status = "OK"
    <2>1. /\ gpr' = GprWrite(gpr, in.rd,
                       LoadedValue(in.id, FromBytes(mem[PhysPage(va)], Offset(va), size)))
          /\ Retire(NextPc(pc)) /\ UNCHANGED <<space, mem, seen, views, status>> /\ st = "OK"
      BY <1>2, <1>5, <1>7 DEF RunNext
    <2>2. Arch!Load(in)
      BY <2>1, IsaMemory DEF va, size, st
    <2> QED BY <1>1, <1>2, <2>2, ExecutesStep
  <1> QED BY <1>6, <1>7

(* A store, through the write TLB, is a store by the book. *)
LEMMA StoreRefines ==
    ASSUME IInv, NoPoison, NoPoison', ExecStore, UNCHANGED <<space, views>>
    PROVE  Arch!Step
  <1>1. PICK in : in = CurrInstr
    OBVIOUS
  <1> DEFINE va   == EffectiveVa(in, gpr)
             size == AccessSize(in.id)
             a    == Access(wtlb, "WRITE", va, size, "SIM__UNALIGNED_STORE")
             st   == AccessStatus(Now, "WRITE", va, size, "SIM__UNALIGNED_STORE")
  <1>2. /\ ctl.mode = "exec" /\ in.id \in StoreIds
        /\ IF a.status # "OK" THEN Faults(a.status)
           ELSE /\ StoreBytes(a.host, Offset(va), size, gpr[in.rs2])
                /\ Retire(NextPc(pc))
                /\ RunNext
                /\ UNCHANGED gpr
    BY <1>1 DEF ExecStore, Executing
  <1>3. va \in Nat
    BY <1>1, CurrInstrType, EffectiveVaType, Sizes DEF IInv, MachineOK, RegValues
  <1>4. size \in {1, 2, 4, 8}
    BY <1>2, AccessSizeType
  <1> HIDE DEF va, size
  <1>5. /\ a.status = "OK" => st = "OK" /\ a.host = PhysPage(va)
        /\ a.status \notin {"OK", "segfault"} => a.status = st
    <2>1. /\ wtlb \in Tlbs /\ Coherent(wtlb, "WRITE") /\ DOMAIN mem \subseteq Nat
          /\ "SIM__UNALIGNED_STORE" \notin {"OK", "segfault"}
      BY DEF IInv, MachineOK, TlbsOK, TlbsCoherent
    <2> QED BY <1>3, <1>4, <2>1, AccessOK
  <1> HIDE DEF a, st
  <1>6. CASE a.status # "OK"
    <2>1. a.status # "segfault"
      BY <1>2, <1>6 DEF Faults, Crash, NoPoison
    <2>2. Arch!Stop(st) /\ st # "OK"
      BY <1>2, <1>5, <1>6, <2>1, IsaExecute DEF Faults, ReturnStatus
    <2>3. Arch!Store(in)
      BY <2>2, IsaMemory DEF va, size, st
    <2> QED BY <1>1, <1>2, <2>3, ExecutesStep
  <1>7. CASE a.status = "OK"
    <2>1. /\ StoreBytes(PhysPage(va), Offset(va), size, gpr[in.rs2])
          /\ Retire(NextPc(pc)) /\ UNCHANGED <<gpr, space, views, status>> /\ st = "OK"
      BY <1>2, <1>5, <1>7 DEF RunNext
    <2>2. Arch!Store(in)
      BY <2>1, IsaMemory DEF va, size, st
    <2> QED BY <1>1, <1>2, <2>2, ExecutesStep
  <1> QED BY <1>6, <1>7

(* A jump or a branch is one by the book. *)
LEMMA JumpRefines ==
    ASSUME IInv, NoPoison, ExecJump, UNCHANGED <<space, views>>
    PROVE  Arch!Step
  <1>1. PICK in : in = CurrInstr
    OBVIOUS
  <1> DEFINE new == NewPc(in, gpr, pc)
  <1>2. /\ ctl.mode = "exec" /\ in.id \in JumpIds \cup BranchIds
        /\ IF ~PcAligned(new) THEN Faults("SIM__PC_ALIGN_ERROR")
           ELSE /\ gpr' = IF in.id \in JumpIds
                          THEN GprWrite(gpr, in.rd, NextPc(pc)) ELSE gpr
                /\ Retire(new)
                /\ ReturnOk
                /\ UNCHANGED <<mem, seen>>
    BY <1>1 DEF ExecJump, Executing
  <1>3. CASE ~PcAligned(new)
    <2>1. Arch!Stop("SIM__PC_ALIGN_ERROR")
      BY <1>2, <1>3, IsaExecute DEF Faults, ReturnStatus
    <2>2. Arch!Jump(in)
      BY <1>3, <2>1, IsaMemory
    <2> QED BY <1>1, <1>2, <2>2, ExecutesStep
  <1>4. CASE PcAligned(new)
    <2>1. Arch!Jump(in)
      BY <1>2, <1>4, IsaMemory DEF ReturnOk
    <2> QED BY <1>1, <1>2, <2>1, ExecutesStep
  <1> QED BY <1>3, <1>4

(* The status of a block that could not be fetched or decoded is the       *)
(* book's; that of one cut off at MAX_SIZE is none, and nothing happens.   *)
LEMMA StatusRefines ==
    ASSUME IInv, NoPoison, ExecStatus, UNCHANGED <<space, views>>
    PROVE  Arch!Step \/ UNCHANGED Arch!machineVars
  <1>1. PICK in : in = CurrInstr
    OBVIOUS
  <1>2. /\ ctl.mode = "exec" /\ in.id = "SIM_STATUS_INSTR"
        /\ IF in.status = "OK" THEN ReturnOk ELSE ReturnStatus(in.status)
        /\ UNCHANGED <<pc, gpr, space, mem, seen, views, icount>>
    BY <1>1 DEF ExecStatus, Executing
  <1>3. CASE in.status = "OK"
    BY <1>2, <1>3 DEF ReturnOk, Arch!machineVars
  <1>4. CASE in.status # "OK"
    <2>1. Arch!Stop(in.status)
      BY <1>2, <1>4, IsaExecute DEF ReturnStatus
    <2>2. in # statusInstr("OK")
      BY <1>4 DEF statusInstr, Instr
    <2> QED BY <1>1, <1>2, <2>1, <2>2, IsaFetches DEF NoPoison
  <1> QED BY <1>3, <1>4

(* Looking up and filling a block is invisible; every handler is a step of *)
(* the instruction set.                                                    *)
LEMMA StepRefines ==
    ASSUME IInv, NoPoison, NoPoison', SimStep
    PROVE  Arch!Step \/ UNCHANGED Arch!machineVars
  <1>1. UNCHANGED <<space, views>>
    BY DEF SimStep
  <1>2. CASE Lookup
    BY <1>2 DEF Lookup, machineVars, Arch!machineVars
  <1>3. CASE FillFails
    <2>1. Fetched.status # "segfault"
      BY <1>3 DEF FillFails, Crash, NoPoison
    <2> QED BY <1>1, <1>3, <2>1 DEF FillFails, Arch!machineVars
  <1>4. CASE FillDecodes
    BY <1>4 DEF FillDecodes, machineVars, Arch!machineVars
  <1>5. CASE ExecStatus
    BY <1>1, <1>5, StatusRefines
  <1>6. CASE ExecEcall
    <2>1. PICK in : in = CurrInstr /\ in.id = "ECALL" /\ ctl.mode = "exec"
      BY <1>6 DEF ExecEcall, Executing
    <2>2. Arch!Ecall
      BY <1>1, <1>6, IsaExecute DEF ExecEcall, ReturnStatus
    <2> QED BY <2>1, <2>2, ExecutesStep
  <1>7. CASE ExecAlu
    <2>1. PICK in : in = CurrInstr /\ in.id \in AluIds /\ ctl.mode = "exec"
      BY <1>7 DEF ExecAlu, Executing
    <2>2. Arch!Alu(in)
      BY <1>1, <1>7, <2>1, IsaExecute DEF ExecAlu, RunNext
    <2> QED BY <2>1, <2>2, ExecutesStep
  <1>8. CASE ExecLoad
    BY <1>1, <1>8, LoadRefines
  <1>9. CASE ExecStore
    BY <1>1, <1>9, StoreRefines
  <1>10. CASE ExecJump
    BY <1>1, <1>10, JumpRefines
  <1>11. CASE ExecUnimplemented
    BY <1>11 DEF ExecUnimplemented, Crash, NoPoison
  <1> QED BY <1>2, <1>3, <1>4, <1>5, <1>6, <1>7, <1>8, <1>9, <1>10, <1>11 DEF SimStep

(* Every step of the simulator is one of the instruction set, or none. *)
LEMMA NextRefines ==
    IInv /\ NoPoison /\ NoPoison' /\ [Next]_vars => [Arch!Next]_(Arch!machineVars)
  <1> SUFFICES ASSUME IInv, NoPoison, NoPoison', [Next]_vars
               PROVE  Arch!Next \/ UNCHANGED Arch!machineVars
    OBVIOUS
  <1>1. CASE \E startPc \in StartPcs : HostCalls(startPc)
    BY <1>1, IsaHost DEF HostCalls, Arch!Next
  <1>2. CASE HostActs
    BY <1>2, IsaHost DEF HostActs, Arch!Next
  <1>3. CASE SimStep
    BY <1>3, StepRefines DEF Arch!Next
  <1>4. CASE UNCHANGED vars
    BY <1>4 DEF vars, Arch!machineVars
  <1> QED BY <1>1, <1>2, <1>3, <1>4 DEF Next

(* Blocks, block cache and TLBs are invisible (Simulator::simulate): every *)
(* run that uses no null pointer and no block that was never filled is one *)
(* of the instruction set, with precise faults and an exact icount.        *)
THEOREM SimulatorImplementsIsa == Spec /\ []NoPoison => ImplementsIsa
  <1>1. Init => Arch!MachineInit
    BY IsaHost DEF Init
  <1> QED BY <1>1, SpecIInv, NextRefines, PTL DEF Spec, ImplementsIsa, Arch!Spec

-----------------------------------------------------------------------------
(* The only guests that a null pointer or an empty block meets are those   *)
(* that run at INVALID_VA, touch the page that begins there, or reach an   *)
(* instruction without a handler.                                          *)
AvoidsPoison ==
    /\ ctl.mode = "lookup" => pc # INVALID_VA
    /\ ctl.mode = "fill" => PageVa(InstrVa(CurrBb, ctl.k)) # INVALID_VA
    /\ Executing(LoadIds \cup StoreIds) => PageVa(EffectiveVa(CurrInstr, gpr)) # INVALID_VA
    /\ ~Executing({"UNIMPLEMENTED"})

(* An entry without a host page still has the tag it was created with. *)
EmptyMarked(tlb) == \A i \in 0 .. TLB_SIZE - 1 : tlb[i].host = nullptr => tlb[i].va = INVALID_VA

PoisonInv ==
    /\ NoPoison /\ (ctl.mode = "fill" => CurrBb.va # INVALID_VA)
    /\ EmptyMarked(rtlb) /\ EmptyMarked(wtlb) /\ EmptyMarked(ftlb)

(* An access that does not touch that page finds no such entry. *)
LEMMA AccessAvoids ==
    ASSUME NEW t \in Tlbs, EmptyMarked(t), NEW access, DOMAIN mem \subseteq Nat,
           NEW va \in Nat, PageVa(va) # INVALID_VA, NEW size,
           NEW unaligned, unaligned \notin {"OK", "segfault"}
    PROVE  LET a == Access(t, access, va, size, unaligned)
           IN  a.status # "segfault" /\ EmptyMarked(a.tlb)
  <1> DEFINE a  == Access(t, access, va, size, unaligned)
             st == AccessStatus(Now, access, va, size, unaligned)
             i  == TlbIdx(va)
  <1>1. i \in 0 .. TLB_SIZE - 1
    BY PageFacts
  <1>2. st # "segfault" /\ (st = "OK" => PhysPage(va) \in DOMAIN mem)
    <2>1. st # "segfault"
      BY DEF AccessStatus
    <2>2. st = "OK" => PhysPage(va) \in DOMAIN mem
      BY DEF AccessStatus, Now, View, PhysPage
    <2> QED BY <2>1, <2>2
  <1>3. CASE Unaligned(va, size)
    <2>1. a = [status |-> unaligned, host |-> nullptr, tlb |-> t]
      BY <1>3 DEF Access
    <2> QED BY <2>1
  <1>4. CASE ~Unaligned(va, size) /\ TlbHit(t, va)
    <2>1. t[i].host # nullptr
      BY <1>1, <1>4 DEF TlbHit, EmptyMarked
    <2>2. a = [status |-> "OK", host |-> t[i].host, tlb |-> t]
      BY <1>4, <2>1 DEF Access
    <2> QED BY <2>2
  <1>5. CASE ~Unaligned(va, size) /\ ~TlbHit(t, va) /\ st # "OK"
    <2>1. a = [status |-> st, host |-> nullptr, tlb |-> t]
      BY <1>5 DEF Access
    <2> QED BY <1>2, <2>1
  <1>6. CASE ~Unaligned(va, size) /\ ~TlbHit(t, va) /\ st = "OK"
    <2> DEFINE u == TlbUpdate(t, va, PhysPage(va))
    <2>1. a = [status |-> "OK", host |-> PhysPage(va), tlb |-> u]
      BY <1>6 DEF Access
    <2>2. u = [t EXCEPT ![i] = [va |-> PageVa(va), host |-> PhysPage(va)]]
      BY DEF TlbUpdate
    <2>3. PhysPage(va) # nullptr
      BY <1>2, <1>6 DEF nullptr
    <2> HIDE DEF u, i
    <2>4. EmptyMarked(u)
      BY <1>1, <2>2, <2>3 DEF EmptyMarked, Tlbs
    <2> QED BY <2>1, <2>4
  <1> QED BY <1>3, <1>4, <1>5, <1>6

(* A new simulator has used no poisoned entry. *)
LEMMA PoisonInit == Init => PoisonInv
  BY DEF Init, MachineInit, PoisonInv, NoPoison, EmptyMarked, EmptyTlb

(* What the fetch, the load or the store of this step does. *)
LEMMA PoisonAccess ==
    ASSUME IInv, PoisonInv, AvoidsPoison
    PROVE  /\ ctl.mode = "fill" => Fetched.status # "segfault" /\ EmptyMarked(Fetched.tlb)
           /\ ExecLoad => EmptyMarked(rtlb') /\ status' # "segfault"
           /\ ExecStore => EmptyMarked(wtlb') /\ status' # "segfault"
  <1>1. /\ rtlb \in Tlbs /\ wtlb \in Tlbs /\ ftlb \in Tlbs /\ DOMAIN mem \subseteq Nat
        /\ EmptyMarked(rtlb) /\ EmptyMarked(wtlb) /\ EmptyMarked(ftlb)
        /\ status # "segfault"
    BY DEF IInv, MachineOK, TlbsOK, PoisonInv, NoPoison
  <1>2. ASSUME ctl.mode = "fill"
        PROVE  Fetched.status # "segfault" /\ EmptyMarked(Fetched.tlb)
    <2> DEFINE va == InstrVa(CurrBb, ctl.k)
    <2>1. va \in Nat
      BY <1>2, FetchOK
    <2>2. Fetched = Access(ftlb, "FETCH", va, INSTR_CODE_SIZE, "SIM__UNALIGNED_LOAD")
      BY DEF Fetched, InstrVa
    <2>3. PageVa(va) # INVALID_VA
      BY <1>2 DEF AvoidsPoison
    <2> HIDE DEF va
    <2> QED BY <1>1, <2>1, <2>2, <2>3, AccessAvoids
  <1>3. EffectiveVa(CurrInstr, gpr) \in Nat
    BY CurrInstrType, EffectiveVaType, Sizes DEF IInv, MachineOK, RegValues
  <1>4. ASSUME ExecLoad
        PROVE  EmptyMarked(rtlb') /\ status' # "segfault"
    <2> DEFINE va == EffectiveVa(CurrInstr, gpr)
               a  == Access(rtlb, "READ", va, AccessSize(CurrInstr.id), "SIM__UNALIGNED_LOAD")
    <2>1. PageVa(va) # INVALID_VA
      BY <1>4 DEF ExecLoad, Executing, AvoidsPoison
    <2>2. a.status # "segfault" /\ EmptyMarked(a.tlb)
      BY <1>1, <1>3, <2>1, AccessAvoids
    <2> QED BY <1>1, <1>4, <2>2 DEF ExecLoad, Faults, ReturnStatus, RunNext
  <1>5. ASSUME ExecStore
        PROVE  EmptyMarked(wtlb') /\ status' # "segfault"
    <2> DEFINE va == EffectiveVa(CurrInstr, gpr)
               a  == Access(wtlb, "WRITE", va, AccessSize(CurrInstr.id), "SIM__UNALIGNED_STORE")
    <2>1. PageVa(va) # INVALID_VA
      BY <1>5 DEF ExecStore, Executing, AvoidsPoison
    <2>2. a.status # "segfault" /\ EmptyMarked(a.tlb)
      BY <1>1, <1>3, <2>1, AccessAvoids
    <2> QED BY <1>1, <1>5, <2>2 DEF ExecStore, Faults, ReturnStatus, RunNext
  <1> QED BY <1>2, <1>4, <1>5

(* A guest that stays away from INVALID_VA never uses one. *)
LEMMA PoisonNext == IInv /\ IInv' /\ PoisonInv /\ AvoidsPoison /\ [Next]_vars => PoisonInv'
  <1> SUFFICES ASSUME IInv, IInv', PoisonInv, AvoidsPoison, [Next]_vars
               PROVE  PoisonInv'
    OBVIOUS
  <1>1. /\ status # "segfault" /\ EmptyMarked(rtlb) /\ EmptyMarked(wtlb) /\ EmptyMarked(ftlb)
        /\ ctl.mode \in {"fill", "exec"} => CurrBb.va # INVALID_VA
    BY DEF PoisonInv, NoPoison
  <1>2. CASE (\E startPc \in StartPcs : HostCalls(startPc)) \/ HostActs \/ UNCHANGED vars
    <2>1. UNCHANGED <<rtlb, wtlb, ftlb>>
      BY <1>2 DEF HostCalls, HostActs, simVars, vars
    <2>2. status' # "segfault"
      BY <1>1, <1>2 DEF HostCalls, simulate, HostActs, Host, HostWrite, HostMap,
         HostAddPage, vars
    <2>3. ctl'.mode \in {"fill", "exec"} => CurrBb'.va # INVALID_VA
      BY <1>1, <1>2 DEF HostCalls, HostActs, simVars, vars, Goto, CurrBb
    <2> QED BY <1>1, <2>1, <2>2, <2>3 DEF PoisonInv, NoPoison
  <1>3. CASE Lookup
    <2> DEFINE i == BbIdx(pc)
    <2>1. UNCHANGED <<status, rtlb, wtlb, ftlb>> /\ pc # INVALID_VA
      BY <1>3 DEF Lookup, machineVars, AvoidsPoison
    <2>2. ctl'.bb = i /\ ctl'.bb \in BbIdxs
      BY <1>3 DEF Lookup, Goto, IInv, CtlType
    <2>3. bbs'[i].va = pc
      <3>1. CASE BbMiss(bbs[i])
        <4>1. bbs' = [bbs EXCEPT ![i].va = pc]
          BY <1>3, <3>1 DEF Lookup
        <4> QED BY <2>2, <4>1 DEF IInv, BbsType
      <3>2. CASE ~BbMiss(bbs[i])
        BY <1>3, <3>2 DEF Lookup, BbMiss
      <3> QED BY <3>1, <3>2
    <2>4. CurrBb'.va # INVALID_VA
      BY <2>1, <2>2, <2>3 DEF CurrBb
    <2> QED BY <1>1, <2>1, <2>4 DEF PoisonInv, NoPoison
  <1>4. CASE FillFails \/ FillDecodes
    <2>1. ctl.mode = "fill" /\ UNCHANGED <<rtlb, wtlb>>
      BY <1>4 DEF FillFails, FillDecodes
    <2>2. /\ Fetched.status # "segfault" /\ EmptyMarked(Fetched.tlb)
          /\ ctl.bb \in BbIdxs
      BY <2>1, PoisonAccess, FetchOK
    <2>3. EmptyMarked(ftlb')
      BY <1>1, <1>4, <2>2 DEF FillFails, FillDecodes
    <2>4. UNCHANGED status /\ ctl'.bb = ctl.bb
      BY <1>4, <2>2 DEF FillFails, FillDecodes, machineVars, Goto
    <2>5. bbs'[ctl.bb].va = bbs[ctl.bb].va
      BY <1>4, <2>2 DEF FillFails, FillDecodes, SetInstr, IInv, BbsType
    <2>6. CurrBb'.va # INVALID_VA
      BY <1>1, <2>1, <2>4, <2>5 DEF CurrBb
    <2> QED BY <1>1, <2>1, <2>3, <2>4, <2>6 DEF PoisonInv, NoPoison
  <1>5. CASE \/ ExecStatus \/ ExecEcall \/ ExecAlu \/ ExecLoad \/ ExecStore \/ ExecJump
             \/ ExecUnimplemented
    <2>1. ctl.mode = "exec" /\ UNCHANGED <<bbs, ftlb>>
      BY <1>5 DEF ExecStatus, ExecEcall, ExecAlu, ExecLoad, ExecStore, ExecJump,
         ExecUnimplemented, Executing
    <2>2. EmptyMarked(rtlb') /\ EmptyMarked(wtlb')
      BY <1>1, <1>5, PoisonAccess DEF ExecStatus, ExecEcall, ExecAlu, ExecLoad, ExecStore,
         ExecJump, ExecUnimplemented
    <2>3. status' # "segfault"
      <3>1. CASE ExecStatus
        <4>1. CurrInstr.status # "segfault"
          BY CurrInstrType DEF Instrs, InstrStatuses
        <4> QED BY <1>1, <3>1, <4>1 DEF ExecStatus, ReturnOk, ReturnStatus
      <3>2. CASE ExecLoad \/ ExecStore
        BY <3>2, PoisonAccess
      <3>3. CASE ExecEcall \/ ExecAlu \/ ExecJump
        BY <1>1, <3>3 DEF ExecEcall, ExecAlu, ExecJump, ReturnStatus, RunNext, ReturnOk, Faults
      <3>4. CASE ExecUnimplemented
        BY <3>4 DEF ExecUnimplemented, AvoidsPoison
      <3> QED BY <1>5, <3>1, <3>2, <3>3, <3>4
    <2>4. ctl'.mode \in {"fill", "exec"} => ctl'.mode = "exec" /\ ctl'.bb = ctl.bb
      BY <1>5 DEF ExecStatus, ExecEcall, ExecAlu, ExecLoad, ExecStore, ExecJump,
         ExecUnimplemented, Faults, Crash, ReturnStatus, ReturnOk, RunNext, Goto
    <2>5. ctl'.mode \in {"fill", "exec"} => CurrBb'.va # INVALID_VA
      BY <1>1, <2>1, <2>4 DEF CurrBb
    <2> QED BY <1>1, <2>1, <2>2, <2>3, <2>5 DEF PoisonInv, NoPoison
  <1> QED BY <1>2, <1>3, <1>4, <1>5 DEF Next, SimStep

(* Said of the guest instead of the caches: a guest that stays away from   *)
(* the page at INVALID_VA and from instructions without a handler runs by  *)
(* the book, and no null pointer is used.                                  *)
THEOREM AvoidingGuestsImplementIsa ==
    Spec /\ []AvoidsPoison => ImplementsIsa /\ [](status # "segfault")
  <1>1. PoisonInv => NoPoison /\ status # "segfault"
    BY DEF PoisonInv, NoPoison
  <1>2. Spec /\ []AvoidsPoison => []PoisonInv
    BY SpecIInv, PoisonInit, PoisonNext, PTL DEF Spec
  <1> QED BY <1>1, <1>2, SimulatorImplementsIsa, PTL
=============================================================================
