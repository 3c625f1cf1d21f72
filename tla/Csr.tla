-------------------------------- MODULE Csr ---------------------------------
(***************************************************************************)
(* CSRFile and the CSR values generated from csr.yaml (csr.hpp, csr.cpp,   *)
(* gen_csr_value.py).  A CSR is kept as its fields; read() puts them       *)
(* together, write() takes the raw value apart and replaces an enum field  *)
(* that is not legal by 0.  A typed value can be read with get(), have one *)
(* field set, and be stored with set(): a setter does not cut its argument *)
(* to the field's width.                                                   *)
(***************************************************************************)
EXTENDS Bits

CONSTANTS XLEN,        \* bits of a raw value
          Layout,      \* CSRIdx -> field -> [hi, lo, bits of its type, enum or {}]
          OtherIdxs,   \* indexes of CSRs that are not supported
          RawValues,   \* raw values that are written
          SetValues    \* values that the setters are given

CSRs == DOMAIN Layout
Idxs == CSRs \cup OtherIdxs

(* A field lies in the register, its type holds it, its default is 0, a    *)
(* value with a name when it is an enum.                                   *)
Placed(field) ==
    /\ field.hi \in 0 .. XLEN - 1 /\ field.lo \in 0 .. field.hi
    /\ field.type \in Nat /\ 1 + field.hi - field.lo <= field.type
    /\ field.enum # {} => 0 \in field.enum

ASSUME CsrAssumption ==
    /\ XLEN \in Nat /\ XLEN >= INT_BITS
    /\ RawValues \subseteq 0 .. 2 ^ XLEN - 1 /\ SetValues \subseteq Nat
    /\ CSRs \cap OtherIdxs = {}
    /\ \A c \in CSRs :
        /\ IsFiniteSet(DOMAIN Layout[c])
        /\ \A f \in DOMAIN Layout[c] : Placed(Layout[c][f])
        /\ \A f, g \in DOMAIN Layout[c] :
            f # g => Layout[c][f].hi < Layout[c][g].lo \/ Layout[c][g].hi < Layout[c][f].lo

VARIABLES csr,     \* supported CSRIdx -> field -> value
          last,    \* the last access: index, status, value read
          arch     \* ghost: CSRIdx -> field -> what the field's bits must be

vars == <<csr, last, arch>>

Bits(c, f) == 1 + Layout[c][f].hi - Layout[c][f].lo

(* isMODELegal, for fields that are enums *)
Legal(c, f, v) == Layout[c][f].enum # {} => v \in Layout[c][f].enum

(* setValue *)
setValueUncut(c, raw) ==    \* seeded fault: the bits above the field are kept
    [f \in DOMAIN Layout[c] |->
        LET v == raw \div 2 ^ Layout[c][f].lo IN IF Legal(c, f, v) THEN v ELSE 0]
setValueUnchecked(c, raw) ==    \* seeded fault: any enum value is stored
    [f \in DOMAIN Layout[c] |-> getBitField(XLEN, Layout[c][f].hi, Layout[c][f].lo, raw)]
setValue(c, raw) ==
    [f \in DOMAIN Layout[c] |->
        LET v == getBitField(XLEN, Layout[c][f].hi, Layout[c][f].lo, raw)
        IN  IF Legal(c, f, v) THEN v ELSE 0]

(* getValue: each field is put in its place, in any order. *)
InsertFieldUnmasked(c, f, raw, v) ==    \* seeded fault: an argument too long spills
    Trunc(XLEN, ValueOf(BitsOf(XLEN, raw) \cup BitsOf(XLEN, v * 2 ^ Layout[c][f].lo)))
InsertField(c, f, raw, v) == setBitField(XLEN, Layout[c][f].hi, Layout[c][f].lo, raw, v)

getValue(c, fields) ==
    FoldSet(LAMBDA f, raw : InsertField(c, f, raw, fields[f]), 0, DOMAIN fields)

Accessed(idx, status, value) == last' = [idx |-> idx, status |-> status, value |-> value]

Zero == [c \in CSRs |-> [f \in DOMAIN Layout[c] |-> 0]]

Init ==
    /\ csr = Zero /\ arch = Zero
    /\ last = [idx |-> 0, status |-> "none", value |-> 0]

-----------------------------------------------------------------------------
NotSupported(idx) ==
    /\ idx \notin CSRs
    /\ Accessed(idx, "CSR__NOT_SUPPORTED", 0)
    /\ UNCHANGED <<csr, arch>>

read(idx) ==
    /\ idx \in CSRs
    /\ Accessed(idx, "OK", getValue(idx, csr[idx]))
    /\ UNCHANGED <<csr, arch>>

write(idx, raw) ==
    /\ idx \in CSRs
    /\ csr' = [csr EXCEPT ![idx] = setValue(idx, raw)]
    /\ arch' = [arch EXCEPT ![idx] = [f \in DOMAIN Layout[idx] |->
                   LET v == (raw \div 2 ^ Layout[idx][f].lo) % 2 ^ Bits(idx, f)
                   IN  IF Legal(idx, f, v) THEN v ELSE 0]]
    /\ Accessed(idx, "OK", 0)

(* get(), a field's setter, set(): the argument has the field's type. *)
setField(c, f, v) ==
    /\ v < 2 ^ Layout[c][f].type /\ Legal(c, f, v)
    /\ csr' = [csr EXCEPT ![c][f] = v]
    /\ arch' = [arch EXCEPT ![c][f] = v % 2 ^ Bits(c, f)]
    /\ UNCHANGED last

Next ==
    \/ \E idx \in Idxs :
        \/ NotSupported(idx)
        \/ read(idx)
        \/ \E raw \in RawValues : write(idx, raw)
    \/ \E c \in CSRs : \E f \in DOMAIN Layout[c], v \in SetValues : setField(c, f, v)

Spec == Init /\ [][Next]_vars

-----------------------------------------------------------------------------
(* Every variable has its type. *)
TypeOK ==
    /\ \A c \in CSRs : \A f \in DOMAIN Layout[c] : csr[c][f] \in 0 .. 2 ^ Layout[c][f].type - 1
    /\ last.idx \in Idxs \cup {0} /\ last.value \in 0 .. 2 ^ XLEN - 1

(* What read() returns is the fields and nothing else: a write or a setter *)
(* reaches the bits of its own field only, also when the value is too      *)
(* long, and bits outside the fields read zero.                            *)
ReadsTheFields ==
    \A c \in CSRs :
        BitsOf(XLEN, getValue(c, csr[c]))
            = UNION {{b + Layout[c][f].lo : b \in BitsOf(XLEN, arch[c][f])}
                        : f \in DOMAIN Layout[c]}

(* An enum field never holds a value without a name, whatever is written   *)
(* raw: MMU64 switches over satp.MODE with no case for others.             *)
EnumsStayLegal == \A c \in CSRs : \A f \in DOMAIN Layout[c] : Legal(c, f, csr[c][f])
=============================================================================
