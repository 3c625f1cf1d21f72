# sim2023: TLA+ models, checks and proofs

sim2023 is a RISC-V (RV64I, user level) functional simulator. A guest program
is loaded from an ELF file into simulated RAM, page tables are built for it,
and `Simulator::simulate` runs it: basic blocks are decoded once and cached,
memory accesses go through direct-mapped TLBs that hold *host* pointers, and
the handlers of a block call each other through a generated dispatch table.
The program is single threaded. What is hard about it is state that is kept and
trusted later: host pointers, decoded blocks, page tables that live in the
memory they protect, and error paths in the middle of an operation.

## Inventory

| Component (src/) | State | Operations | Interacts with | What makes it correct |
|---|---|---|---|---|
| physical memory (`memory/.../phys_memory.hpp`) | `m_mmaps`, `m_curr_ppn`, `m_mapping`, the host's mappings | `addRAMPage`, `read`, `write` | hands host pointers to the TLBs and the loader | a flat byte memory; host pages never shared, moved or unmapped |
| MMU (`memory/src/memory.cpp`, `pte.hpp`) | none; reads satp, mstatus and tables in RAM | `translate` | PhysMemory, CSR file | ends; yields what the translation scheme defines |
| mapper (`simple_mapper.hpp`, `memory.cpp`) | `m_curr_table`, tables in RAM | constructor, `map` | PhysMemory; the MMU reads what it writes | tables form a tree; one translation or none per call; never maps a table |
| basic blocks, block cache (`bb`, `cache`) | 128 blocks of 16 decoded instructions | `Bb::update`, `BbCache::find` | filled through the fetch TLB | execution never leaves a block or runs a stale tail |
| TLBs (`cache/.../tlb.hpp`) | 3 x 128 of (page address, host page) | `find`, `update` | PhysMemory's pointers | a hit is what a translation would give now |
| simulator core (`simulator`) | pc, GPRs, icount, caches | `simulate`, `loadInt`, `storeInt`, handlers | everything above | implements the instruction set with precise faults; never spins |
| hart, GPRs (`hart`, `gpr`) | pc, 32 registers | `write`, `read` | simulator | x0 is zero |
| decoder (`instr`, generated from `risc-v.yaml`) | none | `Instr(InstrCode)` | Bb::update | fields and immediates as the ISA defines them |
| CSR file (`csr`, partly generated) | satp, mstatus | `get`, `set`, field accessors | MMU | fields do not disturb each other; read-only CSRs are not written |
| bit helpers (`common`) | none | `signExtend`, `getBitField`, `setBitField`, `maskBits` | decoder, CSRs, PTEs, shifts | agree with their comments for every width |
| ELF loader (`elf_load`) | `m_next_map_ppn`, `m_mapping` | `mapStack`, `loadElf` | PhysMemory, mapper | image in memory equals the file; failures leave no half-mapped page |
| application (`sim_app`) | none | `main` | all | order of set-up |

The hazards these components meet, each at its line, are under `hazards` in
`PROJECT.json`. Two facts make some of them everyday events: the default stack
of 4096 pages plus 16 table pages exceeds the allocator's first region of 4096
pages, so **every** run of `sim_app` grows `m_mmaps`; and the stack's default
base page 0x10000000 lies above the 27 page-number bits of Sv39, so every run
uses addresses whose upper bits the MMU ignores.

## Modules

| Module | Models | Notes |
|---|---|---|
| `FlatMemory` | what PhysMemory promises | abstract |
| `PhysMemory` | MMap, PageAllocator, RAM, PhysMemory, users of kept host pointers | implements FlatMemory |
| `PhysMemoryProofs` | theorems about PhysMemory | TLAPS |
| `PageTables` | PTEs, `createPTE`, `getVPN` | extended by the next two |
| `Mmu` | `MMU64::translate` | one action per loop iteration or return |
| `MmuReference` | loop-free definition of the translation | compared with Mmu |
| `MmuProofs` | theorems about MmuReference | TLAPS |
| `SimpleMemoryMapper` | the mapper | one action per loop iteration or return |
| `AddressSpace` | what mapper and MMU promise together | abstract |
| `VirtualMemory` | mapper + MMU + guest stores over one memory | implements AddressSpace |
| `SimpleMemoryMapperProofs` | what map() keeps true of the tables, what a walk reads there | TLAPS, lemmas for the next and for SimAppProofs |
| `VirtualMemoryProofs` | theorems about VirtualMemory | TLAPS |
| `ElfLoader` | `mapPage`, `mapStack`, `loadElf` over the mapper | one action per loop iteration or return |
| `SimApp` | `main()`, any other user of the loader, and the guest's translations | extends ElfLoader and Mmu |
| `SimAppProofs` | theorems about ElfLoader and SimApp | TLAPS |
| `Bits` | `getBitField`, `setBitField`, `maskBits` with C++'s promotions | operators only |
| `Csr` | `CSRFile` and the generated CSR values | extends Bits |
| `Decoder` | the decoder that `gen_decode.py` generates | extends Bits |
| `Hart` | what each of the 50 implemented instructions computes | operators only, extends Bits |
| `HartReference` | the RV64I manual on bit positions | compared with Hart |
| `Machine` | pc, GPRs, RAM bytes, address space, what the host does between runs | shared by the next two |
| `Isa` | the instruction set, one instruction at a time | abstract |
| `Simulator` | `simulate`, blocks, block cache, TLBs, handlers, dispatch | implements Isa |
| `SimulatorProofs` | types of what Hart computes; theorems about Simulator | TLAPS |
| `BitsProofs` | theorems about Bits, HartReference, Csr and Decoder | TLAPS |
| `ArithmeticProofs` | induction, powers of two, division, sums | TLAPS, lemmas for the other proofs |
| `MC*` | constants for TLC; `MCDecoder` is risc-v.yaml | |

The layers meet at their abstract specifications: PageTables' memory is a
FlatMemory seen in PTE-sized words; VirtualMemory shows that mapper and MMU make an
address space the guest cannot change; SimApp shows that `main()` hands the guest
such an address space: translated from the satp that main() wrote, the guest's
addresses reach the pages the loader mapped, each of them its own, and no others;
and Machine starts from there.

### State and actions

*PhysMemory.* `host` is the operating system's view: the mapped host pages and
their contents; a host page is a pair of a region's address and an index.
`mmaps`, `currPpn` and `mapping` are the fields of the code. `readPtrs` and
`writePtrs` are the host pointers that `read` and `write` handed out and that a
caller may use at any later time (`HostLoad`, `HostStore`: the TLB hits). `res`
records the last access. `addRAMPage` is `RAM::addPage` as a whole: the
allocator first, then `try_emplace`. `EmplaceBack` is `vector::emplace_back`,
which reallocates or not at its own discretion; a moved-from MMap is destroyed
and unmaps what it still owns. `addRAMPageThrows` is every way `bad_alloc` leaves
`addPage`. `MaxMMaps` bounds how many regions the host provides.

*Mmu, SimpleMemoryMapper.* Virtual page numbers are tuples of VPN fields, with
more fields than the mode has levels. `walk` and `call` hold the local variables
of `translate` and `map`. `path` is a ghost variable of the mapper: the VPN fields
that lead to each table; `Space` is the address space the tables stand for.
`NDEBUG` selects what SIM_ASSERT does on the A/D bits. In `VirtualMemory` calls run
one at a time, as in the program, in any order; after a successful translation
for writing the guest stores words that are valid PTEs into every slot of the
page it got.

*ElfLoader, SimApp.* `ld` is the running call with its cursors: the page to map, the
file offset to copy. mapPage's call of `map` runs by the mapper's own actions
(`MapRuns`). A file is its loadable and other segments; its bytes are numbered so
that a byte in the wrong place shows. `mapped` and `loaded` are ghosts: the pages and
segments of calls that returned OK. In `SimApp` either main() makes the calls, in
its order, and looks at the statuses with SIM_ASSERT, that is, not at all with
`NDEBUG`; or another client makes up to `MAX_CALLS` calls in any order, after
failures too. A failed
assertion, a null iterator and the exception for an unreadable file end in
"aborted". Once main() has written satp and started the guest, `GuestTranslates` is
`Simulator::translateVa`: it translates any page for any kind of access, in user mode, with
the satp and mstatus of the CSR file, by the MMU's own actions (`GuestWalks`). Here the
memory holds the tables only; what a guest stores is in VirtualMemory and Machine.

*Bits, Hart.* Values are numbers below a power of two, the widths are parameters
(`INT_BITS`, `BYTE_BITS`); what C++ computes in `int` is computed in `INT_BITS`
bits. In Hart a byte has `BYTE_BITS` bits, a word four bytes, a register eight, so
that all widths scale together and keep their relations; a shift count is read as
a `uint8_t` of `COUNT_BITS` bits, wider than the counts that make sense, as in the
code. A shift by the width or more is undefined in C++; the handlers compile to
shift instructions that take the count modulo the width, and `ShiftCount` says
so. `FollowsManual` holds on that account.

*Csr.* A CSR is a record of its fields. `arch` is a ghost: what the bits of each
field must be after the writes so far.

*Decoder.* A code is the set of its one bits. The state is the path of case labels
that the nested switches have taken; a leaf assigns the fields. `signExtend` is here, on
sets of bits, because 32-bit numbers exceed TLC's. `LooseIds` names the instructions
whose leaves test fewer bits than risc-v.yaml declares fixed. `DecoderAssumption` says
what is assumed of risc-v.yaml, without a code and without running the decoder; it is
evaluated on the real description whenever `decoder` runs.

*Machine, Isa, Simulator.* `ctl` is the place in `simulate`: block lookup, an
iteration of `Bb::update`, or the handler of instruction `k` of block `bb`.
`Access` is `loadInt`/`storeInt` up to the host pointer: alignment, TLB, translation,
physical access, TLB update. A TLB's host pointer is named by the RAM page it
points to, which PhysMemory's theorem `HostPtrsStable` justifies. A null pointer
that is called or dereferenced ends in mode "crashed". Nothing invalidates a cache,
because nothing in the program does. Between two calls of `simulate` the host may
write RAM, add RAM pages and map pages that are not mapped yet. `seen` and `views`
are ghosts: the words each location ever held, and the address spaces and RAM
there ever were. RISC-V lets a fetch return any such word until FENCE.I, which
is not implemented here, and a cached block may repeat a fetch fault that was due
when it was filled; that is exactly the freedom `Isa` has. Loads and stores are
exact.

Operators marked *seeded fault* are small mistakes a programmer could make in
the definition that follows; each is there to show that a property notices it
(`mutants` in `PROJECT.json`) and none is part of a specification.

## Runs

| Run | Checks | Bounds |
|---|---|---|
| `phys_memory` | TypeOK, HostPagesDistinct, NoDanglingHostPage, HandedOutCurrent, refinement FlatSpec | 2 guest pages (symmetric) of 2 bytes, 2 byte values, accesses of 1 and 2 bytes, regions of 1, 2, 4 pages |
| `mmu` | TypeOK, TranslateMatchesReference, liveness WalkEnds | 3 levels, 4 fields, 2-slot tables, 3 table pages, 11 kinds of PTE in each slot on the path, a root that is not RAM, all privileges, accesses, MXR, SUM, BARE |
| `virtual_memory` | TypeOK, TablesFormTree, TablesProtected, WalksAreClean, refinement IsAddressSpace, liveness CallsEnd | 3 levels, 4 table pages, 1 data page, 1 page that is not RAM |
| `sim_app` | LoaderTypeOK, ImagesIntact, FramesPrivate, MappingAgrees, GuestSeesLoader, GuestRunsLoaded, liveness LoadsEnd, MainEnds | pages of 4 bytes, stack of 2 pages, 5 tables; main() with 113 files of up to 3 segments, a client with 13 files and 3 calls |
| `hart` | FollowsManual | registers of 8 bits, words of 4; all left operands, 45 right ones, two pcs |
| `csr` | TypeOK, ReadsTheFields, EnumsStayLegal | satp and mstatus in 18 bits |
| `decoder` | InstrTypeOK, ValidCodesDecoded, OnlyValidCodesDecoded | all 32 bits; 72 instructions, other bits all zero or one, up to 2 bits flipped |
| `simulator` | TypeOK, RunsInstrAtPc, TlbsCoherent, ZeroIsZero, refinement ImplementsIsa | 4-word programs over 16 codes, 3 register values, 2 blocks of 3, TLBs of 2; between calls the host writes a word, maps two pages and adds one |
| `simulator_progress` | liveness Progress | fewer programs, with an unimplemented instruction and a hole at the poison address |
| `simulator_unimplemented` | UnimplementedReported: **violated** | as above |
| `simulator_poison` | AccessesEndWithStatus: **violated** | as above |
| `hart_auipc` | AuipcFollowsManual: **violated** | as `hart` |

Why the bounds are enough to matter:

- *phys_memory*: two guest pages suffice for sharing; three regions make the
  vector reallocate with live pointers into one and into two older regions;
  duplicates and failures eat host pages, so that growth happens at every
  alignment with them.
- *mmu*: three levels give superpages of two sizes with offsets of one and two
  fields, tables that point back to the root and a field above the root that must be
  ignored. The page tables are arbitrary, not the mapper's.
- *virtual_memory*: the three table pages after the root are one too few for the
  virtual pages used, so map() fails half way down, for either half of the
  address space, with a new table left behind, is retried over that table, and
  succeeds before and after for pages whose tables exist. Two of the virtual
  pages differ only in the field that the mode ignores.
- *sim_app*: segments start and end inside pages, at page boundaries and
  nowhere, with and without a .bss, share pages with each other, alias the stack's
  pages, run out of tables half way, and one has more bytes in the file than in
  memory. Three calls let a load fail, fail again and be followed by the stack.
  The file with more bytes spills into a page without a mapping, so that its load
  aborts; a spill into a mapped page would overwrite that page's image, and only files
  with `filesz <= memsz` are promised anything (`WellFormed`). After every way main()
  can start the guest, the guest translates every page, mapped or not, the stack's
  under both of their names, for each kind of access. That satp's PPN 0 is the root
  table is not written into the model: with `TABLE_BEGIN = 1`, `TABLE_END = 6` in
  `MCSimApp.cfg`, GuestSeesLoader is violated.
- *hart*: with registers of eight bits and words of four, all signs, wrap-arounds
  and shift counts up to and beyond both widths occur.
- *decoder*: the code's fields are moved bit by bit, so all zeros, all ones and
  every bit and pair of bits against either tell every wrong position, and every
  fixed bit is flipped.
- *simulator*: two pages of code conflict in the TLBs and the block cache; page 0
  is mapped executable and, at another address, writable, so programs rewrite
  themselves, the running block included, with stores of one to eight bytes;
  blocks end by branch, by illegal code, by fetch fault and by the size limit;
  every SimStatus that `simulate` can return is reached.
  A run that faulted on a missing page or missing RAM is repeated after the host
  provided it, with the block that holds the fault still cached.

`icount` wraps at `ICOUNT_SIZE` (2) so that looping programs stay finite;
`ImplementsIsa` compares it modulo that size.

Deadlock is not checked where the process can die or the program comes to its
end: the three `Simulator*` configurations with an unimplemented instruction, the
loader and main(), and the single computations of `hart` and `decoder`.

### Fairness

Only the program's own steps are fair: a call of `translate`, `map`, `mapStack` or
`loadElf` that was made goes on (`WalkStep`, `Walks`, `Maps`, `LoaderStep`), main()
goes on, and `simulate` goes on (`SimStep`). It is one thread that never blocks.
Nothing obliges the host or the guest to call anything; the guest's walks in SimApp are
not fair either, since that `translate` returns is shown in `mmu` and `virtual_memory`.

### Findings

Shown by a run that finds the property violated:

1. *Unimplemented instructions crash* (`simulator_unimplemented`). `gen_dispatch.py` puts
   `nullptr` into the dispatch table for each instruction that is decoded but has no
   handler (FENCE, CSR accesses, multiplication, atomics ...); `simulate` and `SIM_NEXT`
   call it. There is a status, SIM__NOT_IMPLEMENTED_INSTR, for it.
2. *The TLBs' poison address is reachable* (`simulator_poison`). A guest access to the
   page at 1 << 56 while entry 0 of the TLB is unused is a hit with a null host pointer.
   `Bb::INVALID_VA` is the same address, so a guest that jumps there before block 0 was
   filled runs an empty block. `AvoidingGuestsImplementIsa` proves that findings 1 and 2
   are all: a guest that meets neither is simulated exactly.
3. *AUIPC zero-extends its immediate* (`hart_auipc`): `static_cast<int64_t>` of a
   `uint32_t`. LUI gets it right.

Met while modelling, and made explicit in the models:

4. *The decoder accepts reserved codes.* The thirteen instructions in `MCLooseIds` are
   decoded from codes without their fixed bits: JALR with any funct3, SLLI and SLLIW
   with any upper bits, ECALL with any rd, and more. OnlyValidCodesDecoded says that
   there are no others; taking any one out of the list breaks it.
5. *maskBits keeps upper bits of narrow types.* What C++ computes in `int` loses no bit
   to the left shift, so the comment "Bits out of range [hi, lo] are zeroed"
   (`common.hpp:152`) is wrong for `uint8_t` and `uint16_t`. Register shifts read their
   count as `uint8_t`, "mask" it to itself and shift by up to 255 (`RegShift`). FollowsManual
   holds nevertheless because the host's shift instructions reduce the count (`ShiftCount`),
   and for the same reason it is no check of maskBits: a shift whose count is undefined
   in C++ is right by the compiler's choice of instruction only.
6. *With NDEBUG main() starts the guest after a failed load*: `GuestRunsLoaded` fails with
   `NDEBUG = TRUE` in `MCSimApp.cfg`. Its theorem has the hypothesis `~NDEBUG`.
7. *map() checks more bits than it stores.* A 64-bit page number is compared with the
   table region, 44 bits are written: `TablesProtected` fails with a page number of
   `PPN_SIZE` in `MapPPNs`. The loader never produces such numbers.
8. *isCSRWritable is inverted* (`csr.hpp:19`). Nothing calls it.

## Proofs

Every theorem holds for all values of the constants that the named assumptions
of the modules allow; TLC evaluates those assumptions in the runs.

| Module | Theorems | State the properties of run |
|---|---|---|
| `PhysMemoryProofs` | `TypeCorrect`, `HostPagesNeverShared`, `NeverDangling`, `HostPtrsStable`, `PhysMemoryIsFlat` | `phys_memory` |
| `MmuProofs` | `TypeCorrect`, `TranslateAlwaysMatches`, `OneMaximalPath` | `mmu` |
| `VirtualMemoryProofs` | `TypeCorrect`, `TablesAlwaysTree`, `TablesAlwaysProtected`, `WalksAlwaysClean`, `IsAlwaysAddressSpace` | `virtual_memory` |
| `SimAppProofs` | `LoaderTypeCorrect`, `FramesAlwaysPrivate`, `MappingAlwaysAgrees`, `GuestAlwaysSeesLoader`, `ImagesAlwaysIntact`, `GuestAlwaysLoaded` | `sim_app` |
| `SimulatorProofs` | `TypeCorrect`, `ZeroAlwaysZero`, `TlbsAlwaysCoherent`, `AlwaysRunsInstrAtPc`, `SimulatorImplementsIsa`, `AvoidingGuestsImplementIsa` | `simulator` |
| `BitsProofs` | `FollowsManualTheorem` | `hart` |
| | `CsrTypeOK`, `EnumsStayLegalTheorem`, `ReadsTheFieldsTheorem` | `csr` |
| | `InstrTypeOKTheorem`, `OnlyValidCodesDecodedTheorem`, `ValidCodesDecodedTheorem` | `decoder` |
| | `MaskBitsExact` | (bit helpers) |

### Physical memory

For every set of pages, page size, set of access sizes, byte domain, first region
size, growth factor and number of regions (`ConstantsAssumption`: the numbers are
positive and the fill byte is a byte). The inductive invariant `IInv` adds to TypeOK,
HostPagesDistinct and HandedOutCurrent:

- `RegionsOK`: region number i lies at address i and is mapped: without it a
  move could unmap something that is still used;
- `currPpn` does not exceed the last region's size, and every mapped page is in
  `Taken`, the host pages below the allocator's cursor: this is why the next
  allocation is a page nobody has, which HostPagesDistinct alone does not say;
- `FreshZero`: host pages above the cursor still hold zeros: needed for the
  refinement only, since a new guest page must read zero.

`AllocPageEffect` says what `allocPage` does to all of these at once, for both
branches and both outcomes of the vector's growth; the proof of `NextIInv` has one
step per action. `NextRefines` maps each action to its abstract action, failed
additions to `AddPageThrows`.

### MMU

For any contents of the tables, root table, number of levels, bits of a VPN field,
page number size, privilege, access, MXR, SUM and for both builds
(`PageTablesAssumption`, `MmuAssumption`: slots hold PTEs, requests are requests).
`WalkOnPath` is the strengthening: while the loop runs, the tables that it went
through are a path of the reference that ends at the current table. Every return
then ends a *maximal* path (`EndsAsOutcome`), and the rest compares the checks of
the code with those of the reference: `PteKinds` (bad, pointer, leaf), `RightsMatch`
(checkLeafFlags), `MisalignedBy` and `LowPagesMod` (superpage alignment and offset,
by induction over the VPN fields). `OneMaximalPath` shows that the reference
determines the outcome.

### Mapper, and mapper with MMU

For any number of levels, table size and table region (`MapperAssumption`,
`VirtualMemoryAssumption`; the page numbers given to map() fit a PTE, finding 7).
TablesFormTree alone is not inductive. `MapperInv` adds:

- `PathsOK`, `PrefixClosed`: a table's ghost path has the fields above its level and
  all tables above it exist, so that a table is found under one path only;
- `UnusedEmpty`: tables not yet handed out are empty, so that a new table adds no
  translation;
- `EntriesOK`: valid entries above level 0 are plain pointers, those of level 0 have
  the mapper's flags and no page of the table region: the reason for TablesProtected
  and WalksAreClean;
- `CallOK`: the running map() stands at the table its address leads to.

`VirtualMemoryProofs` adds `WalkOK`, the same for the MMU's walk. For the refinement,
`Space` is computed from the leaf tables: `MapLeaf` adds exactly one entry to it and
every other step leaves it alone, in particular the guest's stores, which reach no
table.

### Loader and main()

For any files, calls in any order and number, page size and stack
(`LoaderAssumption`, `SimAppAssumption`). All theorems are about states with `FramesLeft`:
no more than 2^44 pages were handed out, beyond which a page number no longer fits a
PTE. `LoaderInv` adds to MapperInv:

- `CallMatches`: the running map() is the one mapPage() asked for, with the frame taken
  last;
- `SpacePrivate`: the tables map no two virtual pages to one frame, and only frames
  already taken;
- `MappingOK`: a page in m_mapping is mapped, is being mapped, or is `Stuck`: the table
  region is full and no table leads to it. This is what makes MappingAgrees true
  although insert() keeps the frame of a first attempt that failed: a page whose
  map() failed once can never be mapped later.

`ImagesInv` adds that the images of earlier calls and of this call's finished
segments are in memory (`ImagesOK`), that no two mapped pages share a frame
(`MappedOnce`), that frames and pages not yet copied to are zero (`FrameFresh`,
`PagesFresh`), and where the copy stands (`CopyOK`): it goes on at a page's start, so
that the int written there wipes out nothing.

`GuestAlwaysSeesLoader` is about both builds and assumes that the mapper's region starts
at page 0, as ElfLoader's does: nothing else makes satp's PPN the root table. It needs
`SpaceMapped`, the converse of MappingAgrees: the tables map no page but those for which
mapPage() returned OK and the one that it is mapping, or else a page the loader
gave up would be within the guest's reach. `GuestInv` then says that satp is as main() made it
and that a walk stands at the table its address leads to; `TableWalk`, which the proof for
VirtualMemory uses too, what the MMU finds there.

`ImagesAlwaysIntact` assumes that the
files are well formed in the sense of the ELF format, `filesz <= memsz`;
`GuestAlwaysLoaded` assumes in addition a build with assertions (finding 6).

### Simulator

For any program, RAM, address space, page size, block size, numbers of blocks and of
TLB entries, byte width and decoder (`SimulatorAssumption`, `MachineAssumption`,
`HartAssumption`, `DecodeAssumption`, `BitsAssumption`). `IInv` adds:

- `SeenOK`, `ViewsOK`: the ghosts contain the present, and what was mapped or RAM
  once is so now: address space and RAM only grow, the reason why TLBs need no
  invalidation;
- `BlocksOK`: a block that is not being filled has an instruction that ends it, and each
  slot up to the first such one holds what a fetch at that slot's address gives or gave;
  the stale tail behind it is unconstrained;
- `CtlOK`: pc and the place in the block move together, and while a block is filled
  its slots so far are of the new block.

RunsInstrAtPc holds for blocks that were filled: `AlwaysRunsInstrAtPc` leaves out the
block with the tag INVALID_VA, which a guest could run only by jumping there (finding
2). `SimulatorImplementsIsa` shows step by step that Simulator implements Isa as long
as `NoPoison`: no null pointer was used and no empty block runs. That hypothesis is
about the simulator's state; `AvoidingGuestsImplementIsa` replaces it by `AvoidsPoison`,
which is about the guest's addresses and instructions only, and proves in addition
that such a guest never crashes the simulator. Guests of this kind exist: the run
`simulator` consists of them.

### Instructions

For all operands, immediates in range, widths of a byte and of int
(`HartAssumption`: a register is eight bytes, the shift masks select its and a word's
counts; `ReferenceAssumption`: operands are register values). `FollowsManualTheorem`
compares what the handlers compute with numbers, masks, casts and comparisons to what
the manual says bit by bit. Nothing changes but the result, so the invariant
(`RegsOK`) is only that registers hold register values; the work is in the lemmas, one
family per idea of the code: `SextWordIs` (casts to int32_t and back), `SignedOrder`
(signed comparison is unsigned comparison with the sign bits flipped), `RegShifts` and
`WordShifts` (right shifts of signed values, counts "masked" with getBitField in a
uint8_t), `ImmShiftIs`, `BitwiseIs`, `LoadManual`. `AluManual` and `BranchManual` then go
through the instructions. AUIPC is left out (finding 3).

### Control and status registers

For any layout whose fields lie in the register, do not overlap, fit their types and
have the default 0 among their names (`CsrAssumption`; the generator fails on an enum
without the key 0, and picks the type by the field's length). `CsrInv` adds to TypeOK and
EnumsStayLegal that the low bits of each stored field are those of the ghost `arch`
(`FieldOK`): equality would be too strong, since a setter stores the bits above the
field too. `ExtractIs` shows that setValue compares the field's value, and nothing else,
with the enum; `InsertBits`, that setBitField changes the field's bits only, also when the field
ends at the type's last bit and the mask's upper power of two is lost; `GetValueBits`,
by induction over the set of fields, that any order of insertion gives the same.

### Decoder

For every set of codes, all 2^32 included, and every description of instructions that
satisfies `DecoderAssumption`. `DecoderInv` adds that the code has the digits that
the case labels passed so far demand (`PathBits`), and says what the constructor
returned. `OnlyValidCodesDecodedTheorem` rests on `LeafTests`: the switches above a leaf
test every fixed bit of its instruction. `ValidCodesDecodedTheorem` rests on `LeadsOn`:
where the labels do not contradict an instruction's fixed bits, the tree goes on or the
leaf is that instruction's. Both are conditions on the tree alone, and what a switch
really selects is proved (`SectionIs`, `PathStep`): the value of the range it reads, no
bit more or less. `AssignedIs` shows that sections, sign bit and the exceptions of
gen_decode.py make the manual's immediate in each of its formats. Together with TLC's
evaluation of the assumption on risc-v.yaml, the two theorems cover the codes that the
run's enumeration leaves out.

### Numbers

The provers know neither powers nor the folds of the community modules, and cannot
instantiate an induction scheme with an operator. `ArithmeticProofs` proves induction in
a form with a set (`SetInduction`, from the well-foundedness of the naturals), that the
recursive function inside `SumFunctionOnSet` exists and what it computes
(`SumExists`, `SumRemove`, `SumEqual`), powers of two by counting subsets
(`PowerStep`, `PowerAdd`), that n digits of B bits make a number below 2^(B*n)
(`DigitsBound`), and division with remainder (`DivModUnique`, `ModPlus`). `BitsProofs`
adds the binary digits of an integer, negative ones in two's complement: what division,
multiplication, remainder and sign do to them (`BitDiv`, `BitMultiply`, `BitTrunc`,
`BitHigh`, `SignedBits`), that they determine the number (`EqualBits`), and that `ValueOf`
is the number with given digits (`ValueOfBits`). `FieldBits` and `InsertBits` say
what getBitField and setBitField return for every width, `MaskBitsExact` that maskBits does
what its comment says for types not narrower than int (finding 5 is about the others).

### Only model-checked

- the liveness properties WalkEnds, CallsEnd, LoadsEnd, MainEnds and Progress: the
  prover has no fairness reasoning;
- that risc-v.yaml satisfies DecoderAssumption: it is one concrete table, which TLC
  reads in `decoder`;
- the properties that are violated: TLC finds the counterexamples.

## Not modelled

- `Bb::invalidate`, `BbCache::invalidate`, `TLB::invalidate`, `isCSRWritable`,
  `getCSRPrivLevel`, mapPage's branch for BARE mode: no program reaches them;
- a change of satp, or of a page that is mapped, while the caches are warm: neither
  main() nor any operation of the mapper does it;
- `bad_alloc` inside the loader (PhysMemory has it), ELF files of class 32 and libelf;
- atomics and floating point in the decoder: decoded, never implemented;
- logging, printing, the build.

## Plan

1. Atomics and floating point in the decoder's constants, once they have handlers.
2. The caches' `invalidate` operations and FENCE.I, once the program calls them; the
   ghosts `seen` and `views` then shrink at a flush.
