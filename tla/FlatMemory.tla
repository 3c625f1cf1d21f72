----------------------------- MODULE FlatMemory -----------------------------
(***************************************************************************)
(* What memory::PhysMemory promises its callers: a flat byte memory that   *)
(* exists only where a page was added.  Regions, host pages and the page   *)
(* allocator are not visible here; a host pointer is just the right to     *)
(* reach one page directly.  PhysMemory.tla implements this module.        *)
(***************************************************************************)
EXTENDS Integers, Sequences

CONSTANTS Pages,      \* page numbers a caller may add or access
          PAGE_SIZE,  \* bytes in a page
          Sizes,      \* sizeof(UInt) of the accesses
          Byte,       \* values of a byte
          ZeroByte    \* what fresh memory holds

VARIABLES mem,        \* contents of the added pages
          readable,   \* pages whose ConstHostPtr a caller holds
          writable,   \* pages whose HostPtr a caller holds
          res         \* the last access: where, its status and the bytes it moved

vars == <<mem, readable, writable, res>>

Offsets == 0 .. PAGE_SIZE - 1

ZeroPage == [o \in Offsets |-> ZeroByte]

Crosses(off, n) == off + n > PAGE_SIZE

Bytes(page, off, n) == [j \in 1 .. n |-> page[off + j - 1]]

Patched(page, off, v) ==
    [o \in Offsets |->
        IF o \in off .. off + Len(v) - 1 THEN v[o - off + 1] ELSE page[o]]

Returns(at, status, v) == res' = [at |-> at, status |-> status, value |-> v]

-----------------------------------------------------------------------------
Init ==
    /\ mem = [p \in {} |-> ZeroPage]
    /\ readable = {}
    /\ writable = {}
    /\ res = [at |-> <<>>, status |-> "none", value |-> <<>>]

(* A page comes into being once, filled with zeros. *)
AddPage(p) ==
    /\ IF p \in DOMAIN mem
       THEN Returns(<<p>>, "false", <<>>) /\ UNCHANGED mem
       ELSE /\ Returns(<<p>>, "true", <<>>)
            /\ mem' = [q \in DOMAIN mem \cup {p} |->
                          IF q = p THEN ZeroPage ELSE mem[q]]
    /\ UNCHANGED <<readable, writable>>

(* The host may be out of memory: then nothing changes. *)
AddPageThrows(p) ==
    /\ Returns(<<p>>, "bad_alloc", <<>>)
    /\ UNCHANGED <<mem, readable, writable>>

Refuse(p, off, n) ==
    /\ \/ /\ Crosses(off, n)
          /\ Returns(<<p, off, n>>, "PHYS_MEM__PAGE_ALIGN_ERROR", <<>>)
       \/ /\ ~Crosses(off, n) /\ p \notin DOMAIN mem
          /\ Returns(<<p, off, n>>, "PHYS_MEM__ACCESS_FAULT", <<>>)
    /\ UNCHANGED <<mem, readable, writable>>

Read(p, off, n) ==
    /\ ~Crosses(off, n) /\ p \in DOMAIN mem
    /\ Returns(<<p, off, n>>, "OK", Bytes(mem[p], off, n))
    /\ readable' = readable \cup {p}
    /\ UNCHANGED <<mem, writable>>

Write(p, off, v) ==
    /\ Returns(<<p, off, Len(v)>>, "OK", v)
    /\ ~Crosses(off, Len(v)) /\ p \in DOMAIN mem
    /\ mem' = [mem EXCEPT ![p] = Patched(@, off, v)]
    /\ writable' = writable \cup {p}
    /\ UNCHANGED readable

(* Accesses through a host pointer reach the same bytes. *)
HostLoad(p, off, n) ==
    /\ p \in readable /\ ~Crosses(off, n)
    /\ Returns(<<p, off, n>>, "OK", Bytes(mem[p], off, n))
    /\ UNCHANGED <<mem, readable, writable>>

HostStore(p, off, v) ==
    /\ Returns(<<p, off, Len(v)>>, "OK", v)
    /\ p \in writable /\ ~Crosses(off, Len(v))
    /\ mem' = [mem EXCEPT ![p] = Patched(@, off, v)]
    /\ UNCHANGED <<readable, writable>>

Next ==
    \E p \in Pages :
        \/ AddPage(p)
        \/ AddPageThrows(p)
        \/ \E off \in Offsets, n \in Sizes :
            \/ Refuse(p, off, n)
            \/ Read(p, off, n)
            \/ HostLoad(p, off, n)
            \/ \E v \in [1 .. n -> Byte] :
                Write(p, off, v) \/ HostStore(p, off, v)

Spec == Init /\ [][Next]_vars
=============================================================================
