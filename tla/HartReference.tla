--------------------------- MODULE HartReference ----------------------------
(***************************************************************************)
(* The instruction bodies against the RISC-V unprivileged manual (RV64I),  *)
(* read as operations on bit positions, for every pair of operands.        *)
(***************************************************************************)
EXTENDS Hart

CONSTANTS Lefts, Rights,   \* operands, in registers 1 and 2
          Pcs              \* where the instruction is

ASSUME ReferenceAssumption ==
    Lefts \subseteq RegValues /\ Rights \subseteq RegValues /\ Pcs \subseteq RegValues

VARIABLES regs, pc,   \* operands and where the instruction is
          out         \* what each instruction computes

refVars == <<regs, pc, out>>

(* The immediate form takes its operand from the right register's value,   *)
(* cut to the immediate's range.                                           *)
Imm(id, gpr) ==
    CASE id \in {"SLLI", "SRLI", "SRAI"} -> gpr[2] % REG_BITS
      [] id \in {"SLLIW", "SRLIW", "SRAIW"} -> gpr[2] % WORD_BITS
      [] OTHER -> Signed(WORD_BITS, gpr[2])

Example(id, gpr) == Instr(id, 0, 1, 2, Imm(id, gpr))

Computed(id, gpr, p) ==
    IF id \in AluIds THEN AluResult(Example(id, gpr), gpr, p)
    ELSE IF id \in BranchIds THEN Bool(Taken(Example(id, gpr), gpr))
    ELSE LoadedValue(id, Trunc(BYTE_BITS * AccessSize(id), gpr[1]))

Nothing == [id \in {} |-> 0]

RefInit ==
    /\ regs \in {[r \in 0 .. 2 |-> IF r = 0 THEN 0 ELSE IF r = 1 THEN a ELSE b] :
                    a \in Lefts, b \in Rights}
    /\ pc \in Pcs
    /\ out = Nothing

Execute ==
    /\ out = Nothing
    /\ out' = [id \in AluIds \cup BranchIds \cup LoadIds |-> Computed(id, regs, pc)]
    /\ UNCHANGED <<regs, pc>>

RefSpec == RefInit /\ [][Execute]_refVars

-----------------------------------------------------------------------------
Bit(n, i) == (n \div 2 ^ i) % 2

(* The number whose bit i is one when P(i). *)
Built(P(_)) == ValueOf({i \in 0 .. REG_BITS - 1 : P(i)})

(* Bits 0 .. w-1 of n, the highest one repeated above them. *)
Sext(w, n) == Built(LAMBDA i : Bit(n, IF i < w THEN i ELSE w - 1) = 1)
Zext(w, n) == Built(LAMBDA i : i < w /\ Bit(n, i) = 1)

(* n shifted within w bits, with fill coming in from the left. *)
Left(w, n, c) == Built(LAMBDA i : i < w /\ i >= c /\ Bit(n, i - c) = 1)
Right(w, n, c, fill) ==
    Built(LAMBDA i : i < w /\ (IF i + c < w THEN Bit(n, i + c) ELSE fill) = 1)

(* Two's complement: flipping the sign bits orders as unsigned. *)
Bias(n) == Built(LAMBDA i : (Bit(n, i) = 1) # (i = REG_BITS - 1))

Manual(id, gpr, p) ==
    LET x  == gpr[1]
        y  == IF id \in ImmIds THEN Sext(WORD_BITS, Imm(id, gpr)) ELSE gpr[2]
        c  == y % REG_BITS
        cw == y % WORD_BITS
    IN  CASE id \in {"ADD", "ADDI"} -> (x + y) % REG_SIZE
          [] id = "SUB" -> (REG_SIZE + x - y) % REG_SIZE
          [] id \in {"SLT", "SLTI", "BLT"} -> Bool(Bias(x) < Bias(y))
          [] id \in {"SLTU", "SLTIU", "BLTU"} -> Bool(x < y)
          [] id \in {"AND", "ANDI"} -> Built(LAMBDA i : Bit(x, i) + Bit(y, i) = 2)
          [] id \in {"OR", "ORI"} -> Built(LAMBDA i : Bit(x, i) + Bit(y, i) > 0)
          [] id \in {"XOR", "XORI"} -> Built(LAMBDA i : Bit(x, i) + Bit(y, i) = 1)
          [] id \in {"SLL", "SLLI"} -> Left(REG_BITS, x, c)
          [] id \in {"SRL", "SRLI"} -> Right(REG_BITS, x, c, 0)
          [] id \in {"SRA", "SRAI"} -> Right(REG_BITS, x, c, Bit(x, REG_BITS - 1))
          [] id \in {"ADDW", "ADDIW"} -> Sext(WORD_BITS, (x + y) % WORD_SIZE)
          [] id = "SUBW" -> Sext(WORD_BITS, (REG_SIZE + x - y) % WORD_SIZE)
          [] id \in {"SLLW", "SLLIW"} -> Sext(WORD_BITS, Left(WORD_BITS, x, cw))
          [] id \in {"SRLW", "SRLIW"} -> Sext(WORD_BITS, Right(WORD_BITS, x, cw, 0))
          [] id \in {"SRAW", "SRAIW"} ->
                Sext(WORD_BITS, Right(WORD_BITS, x, cw, Bit(x, WORD_BITS - 1)))
          [] id = "LUI" -> Sext(WORD_BITS, Imm(id, gpr) % WORD_SIZE)
          [] id = "AUIPC" -> (p + Sext(WORD_BITS, Imm(id, gpr) % WORD_SIZE)) % REG_SIZE
          [] id = "BEQ" -> Bool(\A i \in 0 .. REG_BITS - 1 : Bit(x, i) = Bit(y, i))
          [] id = "BNE" -> Bool(\E i \in 0 .. REG_BITS - 1 : Bit(x, i) # Bit(y, i))
          [] id = "BGE" -> Bool(Bias(x) >= Bias(y))
          [] id = "BGEU" -> Bool(x >= y)
          [] id \in {"LD", "LW", "LH", "LB"} -> Sext(BYTE_BITS * AccessSize(id), x)
          [] id \in {"LWU", "LHU", "LBU"} -> Zext(BYTE_BITS * AccessSize(id), x)

(* Every instruction but AUIPC computes what the manual says: operands of  *)
(* either sign, wrap-around, counts of the width and more, the 32-bit      *)
(* forms' truncation and sign extension.                                   *)
FollowsManual == \A id \in DOMAIN out \ {"AUIPC"} : out[id] = Manual(id, regs, pc)

(* "Toy RISC-V CPU simulator": AUIPC adds the sign-extended immediate. *)
AuipcFollowsManual == "AUIPC" \in DOMAIN out => out["AUIPC"] = Manual("AUIPC", regs, pc)
=============================================================================
