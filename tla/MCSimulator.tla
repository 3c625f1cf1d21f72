---------------------------- MODULE MCSimulator -----------------------------
(* Bytes of one bit: words of four bits, registers of eight.  Programs of  *)
(* four words over sixteen instruction codes, in two RAM pages of two      *)
(* words.  Page 0 is mapped twice: executable at 0, writable and           *)
(* conflicting with it in the TLBs at 16.  Page 1 is mapped at 8; 24 is    *)
(* mapped to a page that is not RAM.                                       *)
EXTENDS Simulator, TLC

MCDecode ==
    (0 :> IllegalInstr)
    @@ (1 :> Instr("ECALL", 0, 0, 0, 0))
    @@ (2 :> Instr("ADDI", 1, 1, 0, 12))
    @@ (3 :> Instr("LW", 1, 1, 0, 4))
    @@ (4 :> Instr("SW", 0, 1, 1, 4))
    @@ (5 :> Instr("JAL", 1, 0, 0, -4))
    @@ (6 :> Instr("JALR", 0, 1, 0, 0))
    @@ (7 :> Instr("BNE", 0, 1, 0, 8))
    @@ (8 :> Instr("SB", 0, 1, 1, 3))
    @@ (9 :> Instr("LB", 1, 1, 0, 5))
    @@ (10 :> Instr("SD", 0, 1, 1, 0))
    @@ (11 :> Instr("LD", 1, 1, 0, 8))
    @@ (12 :> Instr("BLT", 0, 1, 0, -8))
    @@ (13 :> Instr("SRA", 1, 1, 1, 0))
    @@ (14 :> Instr("LHU", 1, 1, 0, 1))
    @@ (15 :> Instr("SH", 0, 1, 1, 5))

All == {"READ", "WRITE", "FETCH"}

MCSpace ==
    (0 :> [ppn |-> 0, rights |-> {"READ", "FETCH"}])
    @@ (8 :> [ppn |-> 1, rights |-> {"FETCH", "READ"}])
    @@ (16 :> [ppn |-> 0, rights |-> {"READ", "WRITE"}])
    @@ (24 :> [ppn |-> 2, rights |-> All])

Page(a, b) == [o \in Offsets |-> IF o < INSTR_CODE_SIZE THEN ByteOf(a, o)
                                 ELSE ByteOf(b, o - INSTR_CODE_SIZE)]

Mems(A, B, C, D) == {(0 :> Page(a, b)) @@ (1 :> Page(c, d)) :
                        a \in A, b \in B, c \in C, d \in D}

MCMems == Mems(Words, Words \ {0, 1, 3, 8, 14}, {8}, {12})

MCGprs == {(0 :> 0) @@ (1 :> x) : x \in {0, 13, 32}}

MCStartPcs == {0, 28}
Nothing == {}
MCHostWrites == {<<0, 1, 1>>}

(* Between runs the host maps page 1 again, at 32, is refused another page *)
(* at 8, where one is mapped, and adds the missing RAM page 2.             *)
MCHostMaps == {[va |-> 32, ppn |-> 1, rights |-> All], [va |-> 8, ppn |-> 0, rights |-> All]}
MCHostPages == {2}

(* With an instruction that decodes but is not implemented instead of the  *)
(* illegal one, and fewer programs.                                        *)
MCDecodeUnimplemented == [MCDecode EXCEPT ![0] = Instr("UNIMPLEMENTED", 0, 0, 0, 0)]

MCFewMems == Mems(Words, {2, 3, 5, 9, 13}, {0, 5, 7}, {1})

(* Nothing is mapped where the caches' poison address lies. *)
MCSpaceHole == [p \in {0, 8, 16} |-> MCSpace[p]]
=============================================================================
