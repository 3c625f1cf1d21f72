------------------------------- MODULE Decoder ------------------------------
(***************************************************************************)
(* Instr::Instr(InstrCode), which gen_decode.py generates from the fields, *)
(* the instructions and the decodertree of risc-v.yaml: nested switches    *)
(* over bit ranges of the code, and at a leaf the assignments of the       *)
(* instruction's fields.                                                   *)
(*                                                                         *)
(* A code, a register index and an immediate are sets of the bits that are *)
(* one.  m_rm is left out: only floating point instructions have it.       *)
(***************************************************************************)
EXTENDS Bits, Sequences

CONSTANTS Fields,        \* field -> the sections of the code it is put together from
          Instructions,  \* mnemonic -> [fixed bits, fields]
          Tree,          \* path of case labels -> range to switch over, or mnemonic
          Format,        \* mnemonic -> format of the immediate in the RISC-V manual
          Codes,         \* codes that are decoded
          LooseIds       \* mnemonics whose leaf leaves some fixed bits untested

KNOWN_REGS == {"rd", "rs1", "rs2"}
KNOWN_IMMS == {"imm12", "imm20", "jimm20", "storeimm", "bimm", "shamt", "shamtw"}
IMMS_NO_EXTEND == {"shamt", "shamtw"}

CodeBits == 0 .. 31

VARIABLES code,    \* instr_code
          at,      \* the case labels passed so far
          instr,   \* the Instr under construction
          done     \* the constructor has returned

decoderVars == <<code, at, instr, done>>

IsLeaf(node) == "mnemonic" \in DOMAIN node

Default == [id |-> "SIM_STATUS_INSTR", rd |-> {}, rs1 |-> {}, rs2 |-> {}, imm |-> {}]

DecoderInit ==
    /\ code \in Codes
    /\ at = <<>> /\ instr = Default /\ done = FALSE

-----------------------------------------------------------------------------
Section(msb, lsb) == {b - lsb : b \in code \cap (lsb .. msb)}

GenerateGetBinValueInPlace(s) ==    \* seeded fault: the section stays where it was
    code \cap (s.lsb .. s.msb)
GenerateGetBinValue(s) == {b + s.to : b \in Section(s.msb, s.lsb)}

(* The largest "from" of the field's sections is its sign bit. *)
ExtendFrom(f) == Max({s.from : s \in Fields[f]})

ExtendedAlways(f) == f \in KNOWN_IMMS   \* seeded fault: shift amounts have a sign
Extended(f) == f \notin IMMS_NO_EXTEND /\ ExtendFrom(f) <= 30

signExtend(sign, bits) ==
    (bits \cap (0 .. sign)) \cup IF sign \in bits THEN sign .. 31 ELSE {}

Immediate(f) ==
    LET raw == UNION {GenerateGetBinValue(s) : s \in Fields[f]}
    IN  IF Extended(f) THEN signExtend(ExtendFrom(f), raw) ELSE raw

Register(r, fields) ==
    IF r \in fields THEN UNION {GenerateGetBinValue(s) : s \in Fields[r]} ELSE {}

GenerateFieldAssigning ==
    LET fields == Instructions[Tree[at].mnemonic].fields
    IN  /\ IsLeaf(Tree[at])
        /\ instr' = [id  |-> Tree[at].mnemonic,
                     rd  |-> Register("rd", fields),
                     rs1 |-> Register("rs1", fields),
                     rs2 |-> Register("rs2", fields),
                     imm |-> UNION {Immediate(f) : f \in fields \cap KNOWN_IMMS}]
        /\ done' = TRUE
        /\ UNCHANGED <<code, at>>

NextLabelNarrow ==    \* seeded fault: the range ends one bit too low
    Append(at, ValueOf(Section(Tree[at].msb - 1, Tree[at].lsb)))
NextLabel == Append(at, ValueOf(Section(Tree[at].msb, Tree[at].lsb)))

HandleCase ==
    /\ ~IsLeaf(Tree[at]) /\ NextLabel \in DOMAIN Tree
    /\ at' = NextLabel
    /\ UNCHANGED <<code, instr, done>>

HandleDefault ==
    /\ ~IsLeaf(Tree[at]) /\ NextLabel \notin DOMAIN Tree
    /\ done' = TRUE
    /\ UNCHANGED <<code, at, instr>>

GenerateHandleNode ==
    /\ ~done
    /\ HandleCase \/ HandleDefault \/ GenerateFieldAssigning

DecoderSpec == DecoderInit /\ [][GenerateHandleNode]_decoderVars

-----------------------------------------------------------------------------
(* The immediates of the RISC-V manual: pairs of a code bit and the        *)
(* immediate's bit it is, and the immediate's sign.                        *)
From(lo, hi, shift) == {<<b, b - shift>> : b \in lo .. hi}

ManualImm(format) ==
    CASE format = "I"      -> [sign |-> 11, bits |-> From(20, 31, 20)]
      [] format = "S"      -> [sign |-> 11, bits |-> From(25, 31, 20) \cup From(7, 11, 7)]
      [] format = "B"      -> [sign |-> 12, bits |-> {<<31, 12>>, <<7, 11>>}
                                 \cup From(25, 30, 20) \cup From(8, 11, 7)]
      [] format = "U"      -> [sign |-> 31, bits |-> From(12, 31, 0)]
      [] format = "J"      -> [sign |-> 20, bits |-> {<<31, 20>>, <<20, 11>>}
                                 \cup From(21, 30, 20) \cup From(12, 19, 0)]
      [] format = "SHIFT"  -> [sign |-> 32, bits |-> From(20, 25, 20)]
      [] format = "SHIFTW" -> [sign |-> 32, bits |-> From(20, 24, 20)]
      [] format = "none"   -> [sign |-> 32, bits |-> {}]

-----------------------------------------------------------------------------
(* What is assumed of risc-v.yaml; none of it runs the decoder.            *)
InCode(range) == range.msb \in CodeBits /\ range.lsb \in 0 .. range.msb

(* Pairs of a code bit and the field's bit it is. *)
Places(f) == UNION {{<<b, b - s.lsb + s.to>> : b \in s.lsb .. s.msb} : s \in Fields[f]}

(* An instruction's fields are where the manual puts them. *)
FieldsPlaced(i) ==
    LET fields == Instructions[i].fields
        imm    == ManualImm(Format[i])
        imms   == fields \cap KNOWN_IMMS
    IN  /\ Format[i] \in {"I", "S", "B", "U", "J", "SHIFT", "SHIFTW", "none"}
        /\ \A f \in fields : \A s \in Fields[f] : InCode(s) /\ s.to \in Nat
        /\ "rd" \in fields => Places("rd") = From(7, 11, 7)
        /\ "rs1" \in fields => Places("rs1") = From(15, 19, 15)
        /\ "rs2" \in fields => Places("rs2") = From(20, 24, 20)
        /\ imms = {} => imm.bits = {} /\ imm.sign = 32
        /\ \A f \in imms :
            /\ imms = {f} /\ Places(f) = imm.bits
            /\ imm.sign = IF f \in IMMS_NO_EXTEND THEN 32 ELSE ExtendFrom(f)

(* Pairs of a bit and its digit: a code whose range is value has these, *)
Demands(range, value) ==
    {<<b, (value \div 2 ^ (b - range.lsb)) % 2>> : b \in range.lsb .. range.msb}

(* an instruction's code these, *)
FixedBits(i) == UNION {Demands(t, t.value) : t \in Instructions[i].fixed}

(* and a code that gets to path these. *)
Above(path) ==
    {q \in DOMAIN Tree : Len(q) < Len(path) /\ \A k \in 1 .. Len(q) : q[k] = path[k]}
PathBits(path) == UNION {Demands(Tree[q], path[Len(q) + 1]) : q \in Above(path)}

Conflict(A, B) == \E x \in A : <<x[1], 1 - x[2]>> \in B

(* The switches above a leaf test every fixed bit of its instruction. *)
LeafTests(p) ==
    IsLeaf(Tree[p]) /\ Tree[p].mnemonic \notin LooseIds
        => FixedBits(Tree[p].mnemonic) \subseteq PathBits(p)

(* Where an instruction's code may get, it is at its leaf or has a case. *)
LeadsOn(p) ==
    LET path == PathBits(p)
    IN  \A i \in DOMAIN Instructions : LET fixed == FixedBits(i) IN
            Conflict(fixed, path)
            \/ IF IsLeaf(Tree[p]) THEN Tree[p].mnemonic = i
               ELSE \A v \in 0 .. 2 ^ (1 + Tree[p].msb - Tree[p].lsb) - 1 :
                        Append(p, v) \in DOMAIN Tree \/ Conflict(Demands(Tree[p], v), fixed)

ASSUME DecoderAssumption ==
    /\ <<>> \in DOMAIN Tree /\ DOMAIN Tree \subseteq Seq(Nat)
    /\ \A c \in Codes : c \subseteq CodeBits
    /\ DOMAIN Format = DOMAIN Instructions /\ "SIM_STATUS_INSTR" \notin DOMAIN Instructions
    /\ \A i \in DOMAIN Instructions :
        /\ FieldsPlaced(i)
        /\ \A t \in Instructions[i].fixed :
            InCode(t) /\ t.value \in 0 .. 2 ^ (1 + t.msb - t.lsb) - 1
    /\ \A p \in DOMAIN Tree :
        /\ IF IsLeaf(Tree[p]) THEN Tree[p].mnemonic \in DOMAIN Instructions ELSE InCode(Tree[p])
        /\ LeafTests(p) /\ LeadsOn(p)

-----------------------------------------------------------------------------
(* The code has the fixed bits that risc-v.yaml declares for instruction i. *)
Matches(i) == \A t \in Instructions[i].fixed : ValueOf(Section(t.msb, t.lsb)) = t.value

(* The members of Instr hold what their types can. *)
InstrTypeOK ==
    /\ instr.id \in DOMAIN Instructions \cup {"SIM_STATUS_INSTR"}
    /\ \A r \in KNOWN_REGS : instr[r] \subseteq 0 .. 4
    /\ instr.imm \subseteq CodeBits

(* Every code with the fixed bits of an instruction is decoded to that     *)
(* instruction, whichever way the tree's switches reach it, with the       *)
(* registers and the sign-extended immediate of its format in the RISC-V   *)
(* manual, and is never taken for another one or refused.                  *)
ValidCodesDecoded ==
    \A i \in DOMAIN Instructions : done /\ Matches(i) =>
        LET imm == ManualImm(Format[i])
        IN  /\ instr.id = i
            /\ instr.imm = {p[2] : p \in {q \in imm.bits : q[1] \in code}}
                               \cup IF 31 \in code THEN imm.sign .. 31 ELSE {}
            /\ \A r \in KNOWN_REGS \cap Instructions[i].fields :
                   instr[r] = CASE r = "rd"  -> Section(11, 7)
                                [] r = "rs1" -> Section(19, 15)
                                [] r = "rs2" -> Section(24, 20)

(* Nothing else is decoded: a code that is taken for an instruction has    *)
(* the fixed bits that risc-v.yaml declares for it, whatever path of the   *)
(* decodertree led there, but for the instructions in LooseIds.            *)
OnlyValidCodesDecoded ==
    done /\ instr.id \notin LooseIds \cup {"SIM_STATUS_INSTR"} => Matches(instr.id)
=============================================================================
