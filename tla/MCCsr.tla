------------------------------- MODULE MCCsr --------------------------------
(* satp and mstatus with their fields in 18 bits instead of 64; an ASID    *)
(* type of exactly its field's width, as in csr.yaml, and a PPN type that  *)
(* is wider.  CSR indexes are the real ones; 0xF11 is not supported.       *)
EXTENDS Csr, TLC

F(hi, lo, type, enum) == [hi |-> hi, lo |-> lo, type |-> type, enum |-> enum]

MCLayout ==
    (384 :> ("mode" :> F(17, 14, 8, {0, 8, 9, 10}) @@ "asid" :> F(13, 12, 2, {})
                @@ "ppn" :> F(11, 0, 18, {})))
    @@ (768 :> ("sum" :> F(6, 6, 8, {}) @@ "mxr" :> F(7, 7, 8, {})))

MCOther == {3857}

(* All ones, mode 8, an illegal mode 3, one of mstatus' bits and the       *)
(* neighbours of both.                                                     *)
MCRawValues == {2 ^ 18 - 1, 8 * 2 ^ 14 + 5, 3 * 2 ^ 14 + 2 ^ 12 + 1, 128 + 256 + 32}
MCSetValues == {0, 3, 9, 2 ^ 12 + 7}
=============================================================================
