----------------------------- MODULE ElfLoader ------------------------------
(***************************************************************************)
(* ElfLoader (elf_load.hpp, elf_load.cpp): gives every page of the stack   *)
(* and of the segments a fresh RAM page, maps it with SimpleMemoryMapper   *)
(* and copies the file's bytes.  m_mmu_mode is always SV39.  A caller may  *)
(* call mapStack() and loadElf() in any order, again after a failure too.  *)
(*                                                                         *)
(* A virtual page number is a number here, and its VPN fields for map().   *)
(* The tables are in mem, the bytes of the other RAM pages in data.        *)
(***************************************************************************)
EXTENDS SimpleMemoryMapper, Sequences

CONSTANTS PAGE_SIZE,    \* bytes in a page
          INT_SIZE,     \* sizeof(int)
          STACK_BASE,   \* m_stack_base and m_stack_size, in pages
          STACK_SIZE,
          Elfs,         \* the files of LoaderCall: [readable, valid, segs, entry]
          MAX_CALLS     \* bound: calls by LoaderCall

(* GElf_Phdr and what libelf says of a file, as loadElf() uses them. *)
ProgramHeaders == [load : BOOLEAN, vaddr : Nat, offset : Nat, filesz : Nat, memsz : Nat]
ElfFiles == [readable : BOOLEAN, valid : BOOLEAN, segs : Seq(ProgramHeaders), entry : Nat]

ASSUME LoaderAssumption ==
    /\ INT_SIZE \in Nat /\ PAGE_SIZE \in Nat \ {0} /\ INT_SIZE <= PAGE_SIZE
    /\ STACK_SIZE \in Nat /\ STACK_BASE \in Nat /\ STACK_SIZE <= STACK_BASE
    /\ STACK_BASE <= SuperPage(FIELDS)
    /\ NDEBUG \in BOOLEAN
    /\ Elfs \subseteq ElfFiles
    /\ MAX_CALLS \in Nat

VARIABLES data,       \* RAM page added by mapPage() -> its bytes
          nextPpn,    \* m_next_map_ppn
          mapping,    \* m_mapping: virtual page -> RAM page
          ld,         \* the running call: where it is, its file and cursors
          ldRes,      \* the status the last call returned
          calls,      \* calls so far
          mapped,     \* ghost: virtual pages whose mapPage() returned OK
          loaded      \* ghost: segments (the stack is one) of calls that returned OK

loaderVars == <<data, nextPpn, mapping, ld, ldRes, calls, mapped, loaded>>

Offsets == 0 .. PAGE_SIZE - 1
ZeroPage == [o \in Offsets |-> 0]

VpnFields(vpn) == [j \in 0 .. FIELDS - 1 |-> (vpn \div SuperPage(j)) % VPN_SIZE]

(* The file's bytes are all different, and not zero. *)
FileByte(n) == n + 1

NoFile == [readable |-> TRUE, valid |-> TRUE, segs |-> <<>>, entry |-> 0]

Idle == [pc |-> "idle", elf |-> NoFile, seg |-> 1, at |-> 0, asked |-> FALSE]

LoaderInit ==
    /\ mem = [p \in TableRegion |-> EmptyTable]
    /\ MapperInit
    /\ data = [p \in {} |-> ZeroPage]
    /\ nextPpn = TABLE_END
    /\ mapping = [v \in {} |-> 0]
    /\ ld = Idle
    /\ ldRes = "none"
    /\ calls = 0
    /\ mapped = {} /\ loaded = {}

(* A failed assertion or a null iterator ends the program. *)
Abort == ld' = [Idle EXCEPT !.pc = "aborted"]

Segs == IF ld.elf.valid THEN ld.elf.segs ELSE <<>>
Seg == Segs[ld.seg]

StackSeg == [load |-> TRUE, vaddr |-> (STACK_BASE - STACK_SIZE) * PAGE_SIZE,
             offset |-> 0, filesz |-> 0, memsz |-> STACK_SIZE * PAGE_SIZE]

-----------------------------------------------------------------------------
(* mapPage: allocate, note, map.  addRAMPage cannot fail (FramesPrivate).  *)

InsertAssigns(vpn, ppn) ==    \* seeded fault: insert_or_assign
    [v \in DOMAIN mapping \cup {vpn} |-> IF v = vpn THEN ppn ELSE mapping[v]]
Insert(vpn, ppn) ==
    [v \in DOMAIN mapping \cup {vpn} |->
        IF v \in DOMAIN mapping THEN mapping[v] ELSE ppn]

FrameAfterSame == nextPpn   \* seeded fault: no increment
FrameAfter == nextPpn + 1

mapPage(vpn) ==
    /\ ~ld.asked
    /\ ld' = [ld EXCEPT !.asked = TRUE]
    /\ nextPpn' = FrameAfter
    /\ data' = [p \in DOMAIN data \cup {nextPpn} |->
                   IF p \in DOMAIN data THEN data[p] ELSE ZeroPage]
    /\ mapping' = Insert(vpn, nextPpn)
    /\ map({"U", "R", "W", "X"}, VpnFields(vpn), nextPpn)
    /\ UNCHANGED <<ldRes, calls, mapped, loaded>>

Return(status, segments) ==
    /\ ld' = Idle
    /\ ldRes' = status
    /\ loaded' = IF status = "OK" THEN loaded \cup segments ELSE loaded

MapRuns == ld.asked /\ MapStep /\ UNCHANGED loaderVars

(* mapPage() has returned to the loop that called it. *)
PageMapped ==
    /\ ld.asked /\ ~Mapping
    /\ IF mapRes = "OK"
       THEN /\ ld' = [ld EXCEPT !.at = @ + 1, !.asked = FALSE]
            /\ mapped' = mapped \cup {ld.at}
            /\ UNCHANGED <<ldRes, loaded>>
       ELSE Return(mapRes, {}) /\ UNCHANGED mapped
    /\ UNCHANGED <<mem, mapperVars, data, nextPpn, mapping, calls>>

-----------------------------------------------------------------------------
(* mapStack *)

mapStack ==
    /\ ld.pc = "idle"
    /\ ld' = [Idle EXCEPT !.pc = "stack", !.at = STACK_BASE - STACK_SIZE]
    /\ calls' = calls + 1
    /\ UNCHANGED <<mem, mapperVars, data, nextPpn, mapping, ldRes, mapped, loaded>>

StackPage == ld.pc = "stack" /\ ld.at # STACK_BASE /\ mapPage(ld.at)

StackDone ==
    /\ ld.pc = "stack" /\ ~ld.asked /\ ld.at = STACK_BASE
    /\ Return("OK", {StackSeg})
    /\ UNCHANGED <<mem, mapperVars, data, nextPpn, mapping, calls, mapped>>

-----------------------------------------------------------------------------
(* loadElf *)

(* Without assertions a file that is not ELF has no segments and entry 0;  *)
(* the buffer for one that cannot be opened is too long for a vector.      *)
loadElf(elf) ==
    /\ ld.pc = "idle"
    /\ IF ~elf.readable \/ (~elf.valid /\ ~NDEBUG) THEN Abort
       ELSE ld' = [Idle EXCEPT !.pc = "segment", !.elf = elf]
    /\ calls' = calls + 1
    /\ UNCHANGED <<mem, mapperVars, data, nextPpn, mapping, ldRes, mapped, loaded>>

NextSegment ==
    /\ ld.pc = "segment"
    /\ \/ /\ ld.seg > Len(Segs)
          /\ Return("OK", {s \in Range(Segs) : s.load})
       \/ /\ ld.seg <= Len(Segs)
          /\ ld' = IF Seg.load
                   THEN [ld EXCEPT !.pc = "pages", !.at = Seg.vaddr \div PAGE_SIZE]
                   ELSE [ld EXCEPT !.seg = @ + 1]
          /\ UNCHANGED <<ldRes, loaded>>
    /\ UNCHANGED <<mem, mapperVars, data, nextPpn, mapping, calls, mapped>>

MorePages == ld.at * PAGE_SIZE < Seg.vaddr + Seg.memsz

SegmentPage == ld.pc = "pages" /\ MorePages /\ mapPage(ld.at)

PagesDone ==
    /\ ld.pc = "pages" /\ ~ld.asked /\ ~MorePages
    /\ ld' = [ld EXCEPT !.pc = "bytes", !.at = 0]
    /\ UNCHANGED <<mem, mapperVars, data, nextPpn, mapping, ldRes, calls, mapped, loaded>>

SmallerOf(a, b) == IF a < b THEN a ELSE b

CpySizeIgnoresOffset == SmallerOf(PAGE_SIZE, Seg.filesz - ld.at)   \* seeded fault
CpySize == SmallerOf(PAGE_SIZE - ((Seg.vaddr + ld.at) % PAGE_SIZE), Seg.filesz - ld.at)

OffsetAfterSame == ld.at   \* seeded fault: offset is not advanced
OffsetAfter == ld.at + CpySize

(* The write that fetches the host pointer stores an int at the page's     *)
(* start; then memcpy.                                                     *)
CopyPage ==
    LET va  == Seg.vaddr + ld.at
        vpn == va \div PAGE_SIZE
        off == va % PAGE_SIZE
    IN  /\ ld.pc = "bytes" /\ ld.at < Seg.filesz
        /\ IF vpn \notin DOMAIN mapping THEN Abort /\ UNCHANGED data
           ELSE /\ data' = [data EXCEPT ![mapping[vpn]] =
                      [o \in Offsets |->
                          IF o \in off .. off + CpySize - 1
                          THEN FileByte(Seg.offset + ld.at + o - off)
                          ELSE IF o < INT_SIZE THEN 0 ELSE @[o]]]
                /\ ld' = [ld EXCEPT !.at = OffsetAfter]
        /\ UNCHANGED <<mem, mapperVars, nextPpn, mapping, ldRes, calls, mapped, loaded>>

SegmentDone ==
    /\ ld.pc = "bytes" /\ ld.at >= Seg.filesz
    /\ ld' = [ld EXCEPT !.pc = "segment", !.seg = @ + 1]
    /\ UNCHANGED <<mem, mapperVars, data, nextPpn, mapping, ldRes, calls, mapped, loaded>>

LoaderStep ==
    \/ MapRuns \/ PageMapped \/ StackPage \/ StackDone
    \/ NextSegment \/ SegmentPage \/ PagesDone \/ CopyPage \/ SegmentDone

LoaderCall == calls < MAX_CALLS /\ (mapStack \/ \E elf \in Elfs : loadElf(elf))

-----------------------------------------------------------------------------
(* Properties *)

(* Every variable has its type. *)
LoaderTypeOK ==
    /\ mem \in [TableRegion -> [Slots -> PTEs]]
    /\ MapperTypeOK
    /\ data \in [DOMAIN data -> [Offsets -> Nat]]
    /\ nextPpn \in Nat
    /\ \A v \in DOMAIN mapping : mapping[v] \in DOMAIN data
    /\ ld.pc \in {"idle", "stack", "segment", "pages", "bytes", "aborted"}

(* The byte a guest access at va reaches through the page tables. *)
GuestByte(va) ==
    LET v == Canonical(VpnFields(va \div PAGE_SIZE))
    IN  IF v \in DOMAIN Space /\ Space[v].ppn \in DOMAIN data
        THEN data[Space[v].ppn][va % PAGE_SIZE]
        ELSE -1

InMemory(s) ==
    \A o \in 0 .. s.memsz - 1 :
        GuestByte(s.vaddr + o) = IF o < s.filesz THEN FileByte(s.offset + o) ELSE 0

(* What a successful call loaded is what the guest will see, to the byte   *)
(* and with zeros after the file's part, and it stays so whatever later    *)
(* calls do, those that fail half way through a segment too.               *)
ImagesIntact == \A s \in loaded : InMemory(s)

(* No RAM page backs two virtual pages, holds page tables or is handed out *)
(* a second time, so addRAMPage() cannot refuse one.                       *)
FramesPrivate ==
    /\ \A u, v \in DOMAIN Space : Space[u].ppn = Space[v].ppn => u = v
    /\ \A v \in DOMAIN Space : Space[v].ppn \in DOMAIN data
    /\ (DOMAIN data \cup {nextPpn}) \cap TableRegion = {}
    /\ ~ld.asked => nextPpn \notin DOMAIN data

(* m_mapping, which the copy uses, names the page that the tables map:     *)
(* insert() keeps the page of a first mapPage(), and a virtual page whose  *)
(* mapPage() failed never succeeds later with another one.                 *)
MappingAgrees ==
    \A v \in mapped :
        LET c == Canonical(VpnFields(v))
        IN  c \in DOMAIN Space /\ Space[c].ppn = mapping[v]

(* Every call returns or aborts. *)
LoadsEnd == ld.pc # "idle" ~> ld.pc \in {"idle", "aborted"}
=============================================================================
