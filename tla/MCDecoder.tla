------------------------------ MODULE MCDecoder -----------------------------
(***************************************************************************)
(* The fields, the instructions and the decodertree of risc-v.yaml, but    *)
(* for the opcodes of atomics and floating point.                          *)
(***************************************************************************)
EXTENDS Decoder, TLC

S(msb, lsb, from, to) == [msb |-> msb, lsb |-> lsb, from |-> from, to |-> to]

MCFields ==
    [rd       |-> {S(11, 7, 4, 0)},
     rs1      |-> {S(19, 15, 4, 0)},
     rs2      |-> {S(24, 20, 4, 0)},
     imm12    |-> {S(31, 20, 11, 0)},
     imm20    |-> {S(31, 12, 31, 12)},
     jimm20   |-> {S(31, 31, 20, 20), S(30, 21, 10, 1), S(20, 20, 11, 11), S(19, 12, 19, 12)},
     storeimm |-> {S(31, 25, 11, 5), S(11, 7, 4, 0)},
     bimm     |-> {S(31, 31, 12, 12), S(30, 25, 10, 5), S(11, 8, 4, 1), S(7, 7, 11, 11)},
     shamt    |-> {S(25, 20, 5, 0)},
     shamtw   |-> {S(24, 20, 4, 0)}]

-----------------------------------------------------------------------------
(* instructions.  A row lists the mnemonics of an opcode (bits 6 to 2) by  *)
(* funct3; "" is a value without instruction.                              *)
T(msb, lsb, value) == [msb |-> msb, lsb |-> lsb, value |-> value]

One(opcode, more, fields, format, name) ==
    {[name |-> name, fields |-> fields, format |-> format,
      fixed |-> {T(1, 0, 3), T(6, 2, opcode)} \cup more]}

Row(opcode, more, fields, format, names) ==
    UNION {One(opcode, more \cup {T(14, 12, k - 1)}, fields, format, names[k])
              : k \in {j \in DOMAIN names : names[j] # ""}}

R == {"rd", "rs1", "rs2"}
I == {"rd", "rs1", "imm12"}
Funct7(v) == {T(31, 25, v)}
System(rs2f7, fields, more, name) ==
    One(28, {T(14, 12, 0), T(11, 7, 0)} \cup rs2f7 \cup more, fields, "none", name)
NoRs1 == {T(19, 15, 0)}

Declared == UNION {
    Row(24, {}, {"rs1", "rs2", "bimm"}, "B", <<"BEQ", "BNE", "", "", "BLT", "BGE",
           "BLTU", "BGEU">>),
    Row(25, {}, I, "I", <<"JALR">>),
    One(27, {}, {"rd", "jimm20"}, "J", "JAL"),
    One(13, {}, {"rd", "imm20"}, "U", "LUI"),
    One(5, {}, {"rd", "imm20"}, "U", "AUIPC"),
    Row(4, {}, I, "I", <<"ADDI", "", "SLTI", "SLTIU", "XORI", "", "ORI", "ANDI">>),
    Row(4, {T(31, 26, 0)}, {"rd", "rs1", "shamt"}, "SHIFT", <<"", "SLLI", "", "",
           "", "SRLI">>),
    Row(4, {T(31, 26, 16)}, {"rd", "rs1", "shamt"}, "SHIFT", <<"", "", "", "", "",
           "SRAI">>),
    Row(12, Funct7(0), R, "none", <<"ADD", "SLL", "SLT", "SLTU", "XOR", "SRL",
           "OR", "AND">>),
    Row(12, Funct7(32), R, "none", <<"SUB", "", "", "", "", "SRA">>),
    Row(12, Funct7(1), R, "none", <<"MUL", "MULH", "MULHSU", "MULHU", "DIV",
           "DIVU", "REM", "REMU">>),
    Row(6, {}, I, "I", <<"ADDIW">>),
    Row(6, Funct7(0), {"rd", "rs1", "shamtw"}, "SHIFTW", <<"", "SLLIW", "", "",
           "", "SRLIW">>),
    Row(6, Funct7(32), {"rd", "rs1", "shamtw"}, "SHIFTW", <<"", "", "", "", "",
           "SRAIW">>),
    Row(14, Funct7(0), R, "none", <<"ADDW", "SLLW", "", "", "", "SRLW">>),
    Row(14, Funct7(32), R, "none", <<"SUBW", "", "", "", "", "SRAW">>),
    Row(14, Funct7(1), R, "none", <<"MULW", "", "", "", "DIVW", "DIVUW", "REMW",
           "REMUW">>),
    Row(0, {}, I, "I", <<"LB", "LH", "LW", "LD", "LBU", "LHU", "LWU">>),
    Row(8, {}, {"rs1", "rs2", "storeimm"}, "S", <<"SB", "SH", "SW", "SD">>),
    Row(3, {}, {"rd", "rs1"}, "none", <<"FENCE">>),
    Row(3, {}, I, "I", <<"", "FENCE_I">>),
    Row(28, {}, I, "I", <<"", "CSRRW", "CSRRS", "CSRRC", "", "CSRRWI", "CSRRSI",
           "CSRRCI">>),
    System({T(31, 20, 0)}, {}, NoRs1, "ECALL"),
    System({T(31, 20, 1)}, {}, NoRs1, "EBREAK"),
    System({T(31, 20, 2)}, {}, NoRs1, "URET"),
    System({T(31, 20, 258)}, {}, NoRs1, "SRET"),
    System({T(31, 20, 261)}, {}, NoRs1, "WFI"),
    System({T(31, 20, 770)}, {}, NoRs1, "MRET"),
    System({T(31, 20, 1970)}, {}, NoRs1, "DRET"),
    System(Funct7(9), {"rs1", "rs2"}, {}, "SFENCE_VMA"),
    System(Funct7(17), {"rs1", "rs2"}, {}, "HFENCE_VVMA"),
    System(Funct7(49), {"rs1", "rs2"}, {}, "HFENCE_GVMA")}

ByName == [n \in {d.name : d \in Declared} |-> CHOOSE d \in Declared : d.name = n]
MCInstructions == ByName
MCFormat == [n \in DOMAIN ByName |-> ByName[n].format]

-----------------------------------------------------------------------------
(* decodertree: a switch at a path of labels, with its leaves. *)
Switch(path, msb, lsb, leaves) ==
    {[path |-> path, node |-> [msb |-> msb, lsb |-> lsb]]}
        \cup {[path |-> Append(path, l[1]), node |-> [mnemonic |-> l[2]]] : l \in leaves}

Funct3(path, leaves) == Switch(path, 14, 12, leaves)

Nodes == UNION {
    Switch(<<>>, 6, 0, {<<103, "JALR">>, <<111, "JAL">>, <<55, "LUI">>,
           <<23, "AUIPC">>}),
    Funct3(<<99>>, {<<0, "BEQ">>, <<1, "BNE">>, <<4, "BLT">>, <<5, "BGE">>,
           <<6, "BLTU">>, <<7, "BGEU">>}),
    Funct3(<<19>>, {<<0, "ADDI">>, <<1, "SLLI">>, <<2, "SLTI">>, <<3, "SLTIU">>,
           <<4, "XORI">>, <<6, "ORI">>, <<7, "ANDI">>}),
    Switch(<<19, 5>>, 31, 26, {<<0, "SRLI">>, <<16, "SRAI">>}),
    Switch(<<51>>, 31, 25, {}),
    Funct3(<<51, 0>>, {<<0, "ADD">>, <<1, "SLL">>, <<2, "SLT">>, <<3, "SLTU">>,
           <<4, "XOR">>, <<5, "SRL">>, <<6, "OR">>, <<7, "AND">>}),
    Funct3(<<51, 32>>, {<<0, "SUB">>, <<5, "SRA">>}),
    Funct3(<<51, 1>>, {<<0, "MUL">>, <<1, "MULH">>, <<2, "MULHSU">>,
           <<3, "MULHU">>, <<4, "DIV">>, <<5, "DIVU">>, <<6, "REM">>,
           <<7, "REMU">>}),
    Funct3(<<27>>, {<<0, "ADDIW">>, <<1, "SLLIW">>}),
    Switch(<<27, 5>>, 31, 25, {<<0, "SRLIW">>, <<32, "SRAIW">>}),
    Switch(<<59>>, 31, 25, {}),
    Funct3(<<59, 0>>, {<<0, "ADDW">>, <<1, "SLLW">>, <<5, "SRLW">>}),
    Funct3(<<59, 32>>, {<<0, "SUBW">>, <<5, "SRAW">>}),
    Funct3(<<59, 1>>, {<<0, "MULW">>, <<4, "DIVW">>, <<5, "DIVUW">>,
           <<6, "REMW">>, <<7, "REMUW">>}),
    Funct3(<<3>>, {<<0, "LB">>, <<1, "LH">>, <<2, "LW">>, <<3, "LD">>,
           <<4, "LBU">>, <<5, "LHU">>, <<6, "LWU">>}),
    Funct3(<<35>>, {<<0, "SB">>, <<1, "SH">>, <<2, "SW">>, <<3, "SD">>}),
    Funct3(<<15>>, {<<0, "FENCE">>, <<1, "FENCE_I">>}),
    Funct3(<<115>>, {<<1, "CSRRW">>, <<2, "CSRRS">>, <<3, "CSRRC">>,
           <<5, "CSRRWI">>, <<6, "CSRRSI">>, <<7, "CSRRCI">>}),
    Switch(<<115, 0>>, 31, 25, {<<24, "MRET">>, <<61, "DRET">>,
           <<9, "SFENCE_VMA">>, <<17, "HFENCE_VVMA">>, <<49, "HFENCE_GVMA">>}),
    Switch(<<115, 0, 0>>, 24, 15, {<<0, "ECALL">>, <<32, "EBREAK">>,
           <<64, "URET">>}),
    Switch(<<115, 0, 8>>, 24, 15, {<<64, "SRET">>, <<160, "WFI">>})}

MCTree ==
    [p \in {n.path : n \in Nodes} |-> (CHOOSE n \in Nodes : n.path = p).node]

(* The leaves of these test fewer bits than their fixedbits: funct3 of     *)
(* jalr, the bits above the shift amount, rd (and more) of the system      *)
(* instructions.                                                           *)
MCLooseIds == {"JALR", "SLLI", "SLLIW", "ECALL", "EBREAK", "URET", "SRET", "WFI",
               "MRET", "DRET", "SFENCE_VMA", "HFENCE_VVMA", "HFENCE_GVMA"}

(* The code 0 and the codes of every instruction whose other bits are all  *)
(* zero or all one, with up to two bits above the opcode flipped.          *)
FixedOf(d) == UNION {t.lsb .. t.msb : t \in d.fixed}
OnesOf(d) ==
    UNION {{t.lsb + b : b \in BitsOf(1 + t.msb - t.lsb, t.value)} : t \in d.fixed}

Bases ==
    {{}} \cup UNION {{OnesOf(d), OnesOf(d) \cup (CodeBits \ FixedOf(d))} : d \in Declared}

Flip(c, bits) == (c \ bits) \cup (bits \ c)
Flips == {{}} \cup {{a, b} : a \in 7 .. 31, b \in 7 .. 31}

MCCodes == {Flip(c, f) : c \in Bases, f \in Flips}
=============================================================================
