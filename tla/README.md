# Silicium in TLA+

Silicium is a small x86-64 kernel in Rust, booted by Limine. What exists of it
today is the part that is hard to test: a frame allocator with reference counts,
page tables filled on demand, an allocator of kernel virtual memory, TLB
shootdown between cores, the start of all cores, root tables shared and switched
by them, interrupts, locks and panics. This directory models these parts in TLA+,
checks the models with TLC on small instances, and proves their safety properties
with TLAPS for every size.

## The system

| Part | Source | State | Operations | Model |
| --- | --- | --- | --- | --- |
| frame array | `mm/frame/state.rs` | flags and count of each frame, statistics | `State::setup` | `FrameSetup`; with the allocator, `PhysicalMemory` |
| frame allocator | `mm/frame/dummy_allocator.rs` | the array and the statistics | `allocate`, `allocate_range`, `reference`, `deallocate`, `deallocate_range` | `FrameAllocator` |
| virtual memory | `mm/vmm.rs` | `FREE_VMA`, `USED_VMA` | `allocate`, `deallocate`, `handle_demand_paging` | `Vmm` |
| page table walks | `arch/paging.rs` | the tables | `map`, `unmap`, `fetch_pte`, `creat_and_fetch_pte`, `page_fault` | `PageTable` |
| TLB shootdown | `arch/paging.rs`, `arch/idt.rs` | entries, TLBs, pending interrupts | `shootdown`, its handler, `change_protection`, the lazy path of faults | `TlbShootdown` |
| boot and SMP start | `main.rs`, `arch/smp.rs`, `arch/tss.rs`, `arch/gdt.rs` | `CPU_COUNT`, `EARLY`, the storage and TSS of each CPU | `start`, `init_bsp`, `start_cpus`, `ap_start` | `Boot` |
| heap | `mm/allocator.rs` | a heap of the crate `linked_list_allocator` | demand paging; its lock | `PageTable`, `Locks` |
| root tables | `arch/paging.rs` | `INIT_TABLE`, `ACTIVE_TABLE`, CR3, the kernel entries of each root | `TableRoot::new`, `clone`, `drop`, `setup`, `ap_setup`, `set_current_table` | `RootTables` |
| ACPI mappings | `arch/acpi.rs` | none of its own | `map_physical_region`, `unmap_physical_region`, `remap_lapic` | `AcpiMapping` |
| locks and panic | all, `glue.rs`, `log.rs` | the spinlocks of the memory manager, the tables, the heap, the serial port, GDT, IDT and TSS; NMIs; `EARLY` | who locks what with what held; `panic`, `halt_other_core`, `log` | `Locks` |
| interrupts | `arch/irq.rs`, `arch/idt.rs`, `arch/exception.rs` | `TICKS`, the PIC, the LAPICs | the handlers | `Interrupts`; exceptions in `Locks` |

How they interact: `setup` builds the array the frame allocator works on. The
page table walks take their tables, and demand paging its pages, from the frame
allocator. `vmm` hands out addresses, and faults in them are resolved by a walk;
freeing an area unmaps it, which flushes the TLBs of the other cores by an
interrupt. The heap and the thread local storage of each CPU live in memory that
is populated by faults, so the boot depends on the fault handler before the
per-CPU data that the handler uses exists: that is what `EARLY` is for.

What makes it hard: every function of `vmm` takes several locks in turn; each
CPU locks only its own root table while the tables below are shared; shootdown
does not wait; CPUs start while others run. `PROJECT.json` lists each such hazard
with its line and the properties that cover it.

## The modules

**FrameState, FrameSetup, MCFrameSetup, FrameSetupProofs.** `FrameState` has what the two frame
modules share: flags, frame records, statistics, and `BootState`, the predicate
that joins them. `FrameSetup` is `State::setup`, one entry of the memory map per
step, with byte sizes kept because the place of the array is computed from them.
A counter that would go below zero panics in a build with overflow checks and
goes on in one without; both are modelled. `MCFrameSetup` enumerates memory maps,
with entries of the kernel and reserved ones that are unaligned and overlap.

**FrameAllocator, FramePool, FrameAllocatorProofs.** Each public function is an
action. The code does not know who holds a frame; the ghost variable that records
it is what the counts are compared with. `Init` is any state that satisfies
`BootState`. `FramePool` is the promise: frames are free or held, and only free
ones are handed out. The order of the flags and statistics updates inside a call
is not observable (the lock is held), except where a call panics half way; these
ends are modelled.

**PhysicalMemory, MCPhysicalMemory.** `mm::setup`: `FrameSetup`, and the allocator
on the array and the statistics it leaves. The hand-over is a step.

**Vmm, VmaSpace, VmmProofs.** One action per lock section of each function, so that areas
are in neither list in between. Addresses are pages, byte sizes wrap at `Word`.
The page table is the map `mapped` and the frame allocator a set; `PageTable` and
`FrameAllocator` are what justifies the two. `VmaSpace` is the promise: an
allocation is a set of pages that belongs to nobody else.

**PageTable, PageMap, MCPageTable, PageTableProofs.** The walks, one access to an
entry per step, of CPUs in shared tables, and the demand paging of the heap on top:
a look at the page (`fetch_pte`), a frame for it, and then a second walk from the
root that maps it. A new
table is marked present first and gets its address afterwards, as in the code.
Memory that was not zeroed holds `Garbage`. `PageMap` is the promise: a partial
map changed one address at a time.

**TlbShootdown, TlbShootdownProofs.** One shared level of entries, a TLB per CPU
that may cache a present entry at any time, the writes of `map`, `unmap` and
`change_protection`, the two halves of `shootdown` and the two of its handler,
interrupts that are masked, merge while pending, and are lost while a LAPIC is
off.

**Boot, MCBoot, BootProofs.** The program counter of each CPU over the calls of
`start` and `ap_start`, and page faults and interrupts that hit any CPU on the
way. The ids the firmware gives to CPUs are an input.

**RootTables, RootTablesProofs.** Roots named by their frames, with their kernel
entries; an entry is the frame of the table below, so two roots with the same
entry share all that is under it. The boot goes from the bootloader's table to a
copy per CPU, in the order of `start` and `ap_start`; after that code on any CPU
makes, shares, drops and installs roots. `set_current_table` is two steps, since
the old root is dropped before CR3 is written.

**AcpiMapping, MCAcpiMapping.** Extends `Vmm`, with its actions as the calls of
`vmm` that `acpi.rs` makes; addresses and sizes in bytes, since the arithmetic is
the point. What the crate `acpi` maps, and when it drops it, is any sequence. The
ghost `multiple` records that the rounding took a page too many. The proofs are in
`VmmProofs`, with those of the module it extends.

**Locks, LocksProofs.** A CPU is a list of steps (lock, unlock, call, ...). Each function of the
kernel that locks is the list of what it does, or a set of lists where it can go
several ways; a call, or a page fault under a lock, puts more steps in front. A
panic replaces the list, and keeps the locks. The NMI handler freezes the CPU. The
boot is part of it: the boot processor runs alone and its faults take no table lock
(`EARLY`), it initialises the LAPIC, without which a panic stops nobody, it
releases the others, which run `ap_start` at the same time, and it clears `EARLY`
when all are counted. Left out are `FRAME_STATE`, which is taken under
`FRAME_ALLOCATOR` only, and the lock of the PIT, taken once. A CPU that takes an NMI
in the bootloader is assumed not to come out of it.

**Interrupts.** The master PIC with its lines raised and in
service, a LAPIC per CPU, and a CPU that has interrupts on, off, or is in a handler
(all gates are interrupt gates). The EOI of the PIC is taken to be non-specific, so
that it ends the most urgent line in service; the support crate that sends it is
not in this repository, so this is an assumption. A specific one would end the
same line, by `InService`. Both LAPIC vectors are of one priority class.

Definitions whose name contains an underscore and a capitalised word
(`Taken_NoRetain`) are mutants: the definition of the same name with a plausible
mistake. No specification uses them; each property has one that breaks it.

## The runs

| Run | Instance | What it shows |
| --- | --- | --- |
| `frames` | all maps of up to 3 entries over 5 pages, then 2 holders of their 5 frames | setup ends in a `BootState` with what is usable free, and with exact counters if no page is counted twice; from there counts equal holders, free means held by nobody, the statistics follow the flags, and `FramePool` is implemented |
| `frame_setup_array` | all such maps | **violated**: frames that hold the array stay free (`size_of::<Frame>()` for `size_of::<FrameInfo>()`) |
| `vmm` | 2 CPUs, 3 pages, 2 frames | areas tile the arena, frames are accounted for, new areas are unmapped, code that keeps to its own areas panics only for full memory or `ATOMIC`, `VmaSpace` is implemented |
| `tlb` | 2 CPUs, 1 page, 2 entries | a stale translation always has a flush on its way, and goes |
| `page_table` | 2 CPUs, 2 levels, 3 pages, 3 frames | for CPUs in different subtrees: `PageMap` is implemented, no frame is lost or used twice, faults are resolved |
| `page_table_shared` | the same | **violated**: two CPUs that fault on one heap page, and the second panics |
| `boot` | 3 CPUs, any of which may have LAPIC id 0 | handlers and per-CPU data exist when they are needed, each CPU has its TSS, the boot completes, if `start_cpus` leaves no CPU out |
| `root_tables` | 2 CPUs, 3 kernel entries, 7 frames | one heap and one vmalloc area in all roots, roots neither leaked nor freed twice, `INIT_TABLE` constant after the boot |
| `root_tables_cr3` | the same | **violated**: `set_current_table` frees the root that is still in CR3 (`paging.rs:402`), before it loads the new one |
| `acpi` | 4 pages, regions of all alignments and sizes around a page | a region is seen byte by byte through its mapping, nothing is left behind, no unwrap fails, each under the condition the arithmetic needs |
| `locks` | 2 CPUs, from the start of the boot on | no cycle of waiting with private roots; a panic stops the other CPUs, and its message is written unless the lock of the serial port was held |
| `interrupts` | 2 CPUs, 3 lines | only ignored lines lack their EOI, they are served once, the timer ticks on, and every tick reaches the other CPU |

A violated run checks what a comment or documentation of the code says; the
line is quoted under `findings` in `PROJECT.json`.

### Bounds

- *Frames.* Five frames, of which the array takes some, give every pair and range with
  neighbours on both sides, and a range that ends with the array. `MaxCount` and `MaxRange` bound reference
  counts and range lengths; the theorems have no such bound on the number of
  frames or holders.
- *Memory maps.* Five pages and three entries give gaps, entries of the kernel that
  share a page, reserved entries on top of both, and arrays that do and do not fit. The
  run `frames` has the maps whose regular memory ends with the last page, so that the
  allocator has an array of one length. A page of 5 bytes, with 1 and 3 for
  the two structure sizes, lets the array need more than one page.
- *Vmm.* Three pages are enough to split an area twice and to free in any order;
  two frames are fewer than the pages, so memory runs out.
- *PageTable.* Two pages in one table and one in another; three frames are
  fewer than two tables and three pages, so memory runs out at every point of a
  walk. Two levels have one kind of step each; further levels repeat the upper
  one.
- *TlbShootdown.* Two CPUs are one sender and one receiver, one of which is still
  starting; both also play both roles. One page is enough for a stale translation, and
  the handler flushes whole TLBs; two pages with one entry pass too (275944 states), in
  more time than the run has.
- *Boot.* Three CPUs are two application processors that race; ids go one past
  the last TSS slot.
- *RootTables.* Seven frames: two tables for the early entries, a copy for each
  CPU, one preallocated table, and two more for new roots or tables, so that
  memory also runs out. The theorems have no such bounds.
- *AcpiMapping.* Four pages hold two mappings and an area of other code. Regions
  start anywhere in the first pages, 0 included, and go up to more than a page.
- *Locks.* Two CPUs; a wait cycle between two is the shortest there is, and one
  CPU suffices for a lock taken twice. One of them boots the other. `SwitchTo` bounds the roots a CPU may
  install to its own and that of the boot processor.
- *Interrupts.* The timer, and two lines less urgent than it, which are ignored;
  `TICKS` wraps at 2, since nothing reads it. The theorems cover any set of lines.

### Fairness

- *PageTable*: weak fairness of the steps of each CPU inside a call: it runs,
  and the locks it takes are held for one step. Calls themselves are not forced.
- *TlbShootdown*: weak fairness of a CPU's own steps. Strong fairness of leaving a
  section with interrupts off, which a fault or another call may interrupt again and
  again: each section is a finite closure (`irq::without`). Strong fairness of taking
  a pending interrupt, since the processor takes it as soon as they are enabled.
- *Boot*: weak fairness of each CPU's steps: no AP fails to start, which is the
  condition the documentation of `start_cpus` states.
- *Locks*: weak fairness of the steps of a CPU that has panicked, and of taking an
  NMI, which cannot be masked. Nothing is assumed of the other CPUs.
- *Interrupts*: weak fairness of leaving a handler and of enabling interrupts
  again (`irq::without`, and the loops at the end of `start` and `ap_start`); strong
  fairness of taking the timer and the tick, since a CPU takes a pending interrupt
  before its next instruction once interrupts are on.

The other modules assume none: what is checked of them is safety.

Deadlock is checked in every run but `locks`, where a CPU may wait for ever for a
frozen one, or for one with the same root: that is what its properties are about.
A kernel that has panicked, and a `setup` that has finished, stutter explicitly.

## The proofs

`FrameSetupProofs`, for every memory map of the bootloader protocol, and every size
of a page and of a frame record:

- `ContractHolds`, `FreeHolds`, `PanicHolds`: what the run `frames` checks of setup.
  With the next section they cover the array from the memory map on: setup ends in
  a `BootState`, and the theorems there start from one. `ContractHolds` says of the
  counters that they are exact, and never below zero, if no page is counted twice
  (`CountedOnce`), and otherwise off by what is (`BootStats`).
- The loop counts by adding and subtracting, which is right only for a frame that is
  still poisoned. `Filled` says how far the loop is: the frames changed are those of
  the entries so far, the free ones those of the usable entries, and the counters are
  off by the frames counted again. The frames of a usable or reclaimable entry are
  always poisoned when the loop comes to them, since no other entry of regular memory
  has a page of it (`Apart`); for the other entries `BootAdd` and `BootReserve` keep
  account of what is counted again. `MarkStats` and `ArrayStats` compare the counters
  with the cardinalities. `ArrayRoom` shows that the range marked for the array is
  in the region chosen for it, since it takes a third of the room the region was
  chosen for: so slicing never panics, and only free frames are marked.
- Where an argument needs an extreme element (the last usable frame, the first
  region with room) it comes from the well-ordering of the naturals; a bound on the
  ends of the entries (`EndsBounded`) from a minimal counterexample.

`FrameAllocatorProofs`, for any number of frames and holders:

- `CountsHold`, `FreeHolds`, `StatsHold`: what the run `frames` checks of the
  allocator; `TypesHold`: the types of the state, which includes that no counter
  underflows; `Implements`: `FrameAllocator` implements `FramePool`.
- That a free frame has no holder needs the counts, and the statistics need to know
  that `FREE` excludes `POISONED` and `KERNEL`. The inductive invariant `IInv` has,
  frame by frame, that the count is the number of holders, that a frame is free
  exactly when it is grantable and nobody holds it, and that a frame which can never
  be granted has no holder (`FrameOK`); and `FreeIsClean` and the types. `TakeOK` and
  `DropOK` are used for all operations that take or drop frames.
- The statistics may be off when setup ends, so `StatsFollow` is about steps: each
  changes the counters by as much as the sets of frames they count. The lemmas
  `TakeStats` and `DropStats` compute how the cardinalities change; `StatsInv` follows,
  that the counters are off by the same amount for ever.
- Assumptions: at least one frame, a finite set of holders, a positive bound on
  reference counts, and `BootState` initially.

`TlbShootdownProofs`, for any number of CPUs, pages and entries:

- `StaleIsCovered`: the invariant `StaleCovered` of the run `tlb`, and `TypesHold`.
- The inductive invariant adds `Alone`: until the LAPIC is initialised only the
  boot processor runs, and a CPU that was not started is nowhere in the code. A
  CPU that sends before reaches nobody, which is harmless only because of this.
- `ServiceHolds` and `IgnoredHolds`, for any number of CPUs and lines: the invariants
  of the run `interrupts`, in the same module because the interrupts that carry a
  shootdown are these; `Interrupts` is instantiated there on the same CPUs. The two
  are inductive together with the types. An ignored line stays in service for ever
  because the EOI of a tick always ends the timer's line, which is the most urgent
  one; that needs `InService`.

`BootProofs`, for any number of CPUs and any ids:

- `PerCpuHolds` and `HandlersHold`: the invariants `PerCpuReady` and `HandlersReady`
  of the run `boot`.
- The boot processor knows of the others only by `CPU_COUNT`. The inductive
  invariant therefore says that it is one more than the number of CPUs in their
  last loop (`Counted`); with the cardinality of the set of CPUs it follows that
  all are there (`AllDone`). The rest says what a CPU has set up by its label.
- `TssHolds`: `OwnTss`, on platforms whose boot processor has processor id 0
  (`BspFirst`), as in the run. The slot of the GDT a CPU uses is its processor id, and
  ids differ, so no other CPU writes it.

`RootTablesProofs`, for any number of CPUs, entries and frames:

- `RootsHold`, `KernelHolds`, and `FrozenHolds` for the action property: all of the
  run `root_tables`.
- `RootsOnce` needs that no two CPUs build a root in the same frame; `KernelAgrees`
  that the boot table has the early entries from the moment a CPU can copy it
  (`Ready`), so that a later fault never finds one absent. `IInv` joins these with
  what a CPU has done by its label (`Stage`).

`VmmProofs`, for any number of CPUs, pages and frames and any sizes asked for:

- `TilingHolds`, `FrameHolds`, `FreshHolds`, `PanicsHold` (`OwnersDontPanic`): the
  invariants of the run `vmm`; `SpaceRefined`: `Vmm` implements `VmaSpace`.
- The panics of `deallocate` and of faults are out of reach only because what a CPU
  owns is in `USED_VMA` under its start (`OwnedOk`) and, by the tiling, nothing else
  there has its pages. That `map` never meets a mapped page needs that a faulting
  CPU still owns the area (`TaskOk`). The tiling needs each area to be where its size
  or start say (`Placed`). The areas between the two lists are part of the tiling, so
  each lock section is a step of its own.
- For the refinement, an area enters the abstract set where `allocate` puts it in
  `USED_VMA`, and leaves it where `deallocate` takes it out.
- `RegionSeenHolds`, `NothingLeftHolds` and `UnwrapsHeld`, for any page size, any regions
  and any order of maps and drops: the invariants of the run `acpi`. `acpi.rs` maps frames
  that are not the allocator's, so the part of the invariant of `Vmm` about frames does not
  hold here. The part about areas (`Arena`) does, and `AcpiInv` builds on it: each page of a
  mapping shows its page of the region (`Shown`), a map or an unmap has changed the pages up
  to where it is and no others (`MapOk`, `UnmapOk`), and each mapping has an area of its own
  (`MappingsApart`), which the other code on that CPU neither frees nor populates.
- That as many pages are unmapped as were mapped (`Whole`) is arithmetic: the two
  roundings of `acpi.rs` agree except on multiples of the page size. `ByteSeen` is the
  other one: the offset in the page, kept by `map_physical_region`, and the page number add
  up to the physical address. Assumptions: no address wraps around, the registers of the
  LAPIC are within one page, as its documentation says, and absence (`NoFrame`) is not a
  page number.

`PageTableProofs`, for CPUs in different subtrees (`Apart`), any number of them, of
levels, entries and frames:

- `FramesHold`: the invariant of the run `page_table`; `MappingRefined`: `PageTable` implements `PageMap`.
- Nothing in the state says which frames are tables. The invariant gives them labels,
  a level and an address whose walk leads there, and says that the entries respect
  them: the tables are a tree. A new table is labelled when its frame is taken; until
  an entry leads to it, it is in the hands of its CPU. CPUs in the middle of walks
  are in different subtrees, so none changes an entry another one relies on.
- `translate` is a recursion over the levels. `TranslateIs` characterises it by the
  labels, by a least level at which the two would differ, and the refinement uses
  only the characterisation. A fault walks twice, and other CPUs fill tables in
  between; that the page is still missing (`Unmapped`) is kept for the whole fault.

`LocksProofs`, for any number of CPUs:

- `WaitHolds` and `HaltHolds`: the invariants `NoWaitCycle` and `HaltCovers` of the run
  `locks`.
- What a CPU has to do is a list without a bound, since calls and faults nest. `Valid`
  says of a list that there are points, one between each two steps, which say what is
  held there and allow each step. So each function body is looked at once, at any
  point that allows its call, and loops need no induction. Locks that all CPUs take
  have a rank, up to the lock of a TSS, which is taken with the GDT locked; the ranks of
  what CPUs wait for rise along any chain of waiting. `HaltCovers` needs what the boot
  ensures (`Alone`): before the LAPIC is initialised no other CPU runs the kernel.

The assumptions of the proofs are the named ASSUMEs of the modules, which TLC
evaluates in the runs; `Apart`, `BspFirst` and what `Interrupts` assumes of its
constants (`Machine`) are hypotheses of the theorems they are needed for.

Only model-checked:

- all liveness (`StaleGoes`, `FaultResolved`, `BootCompletes`, `PanicStops`, `MessageOut`,
  `TicksGoOn`, `TickReachesAll`), which is out of the prover's reach.

The types of the state are part of the inductive invariants above, so they are
proved and not checked again by the runs.

## What the results do and do not say

- The guarantees of `FrameAllocator` hold from a `BootState`. `ContractHolds` says
  that setup establishes it, for the frames setup *marks*; `frame_setup_array`
  shows that it marks too few, so in the running kernel a frame the allocator
  believes to be free can hold a part of its own array.
- `FrameSetup` assumes what the Limine protocol promises of a memory map: it is sorted,
  and usable and bootloader reclaimable entries are page aligned and overlap nothing.
  Other entries may be unaligned and share pages. A page that two of them share is
  counted twice, so the counters are off then, and that of poisoned frames can go
  below zero. The test at `state.rs:181` is kept as it is: only frames that are *not*
  poisoned become reserved, so the frames of reserved entries stay poisoned, but for
  a page they share with the kernel.
- `PageTable` in the run `page_table` assumes that CPUs keep to different
  subtrees; nothing in the code ensures it, and `page_table_shared` shows what
  happens without: a page that was missing is mapped when the fault comes to map it. It starts below entries of the boot table, which all roots
  share: `KernelAgrees` of `RootTables` is why.
- The comments at `paging.rs:94` and `paging.rs:200` say that all kernel entries are
  preallocated in `INIT_TABLE`, and copied to all roots. They are preallocated in the
  boot processor's copy of it (`paging.rs:211`), in frames that are not zeroed
  (`paging.rs:222`). `RootTables` has it as the code does: only the entries used before
  the first copy are common to all roots, which is what `KernelAgrees` is about, and
  an entry that comes into use later is a different table in each root.
- `Vmm` lets only the CPU that allocated an area touch it, and asks for areas that
  are not empty (`SizesAssumption`). The code does not check that: a size of 0, or
  one that wraps around (`vmm.rs:88`), yields an empty area, which the next area
  with the same start replaces in `USED_VMA` (`vmm.rs:199`).
- `allocate` with `ATOMIC` ends in `unimplemented!` (`vmm.rs:91`), where its
  documentation (`vmm.rs:49`) promises an error; `OwnersDontPanic` is about the panics
  after that line.
- `allocate_range` reads the frame after the run for the end of the range
  (`dummy_allocator.rs:106`), and so panics for a run that ends with the array, where
  its documentation (`dummy_allocator.rs:65`) promises a range or none. The model has
  the panic; the properties are about the states before it.
- `shootdown` sends interrupts and returns (`paging.rs:624`): it does not wait until
  the TLBs of all cores are flushed, and `vmm::deallocate` gives the frame back
  right after. `StaleCovered` and `StaleGoes` say what remains true.
- `start_cpus` takes the CPU with LAPIC id 0 for the boot processor (`smp.rs:76`).
  Where another one has it, that CPU is not started, although the documentation
  (`smp.rs:68`) speaks of all, and `start_cpus` waits for it for ever: such platforms
  are in the run, and `BootCompletes` excepts them.
- `map_physical_region` maps the pages of the size, counted from the page the region
  starts in (`acpi.rs:51`): `RegionSeen` is about regions that end there (`Covered`).
  A size that is a multiple of the page gets a page more, which is not unmapped
  (`acpi.rs:39`): `NothingLeft` and `UnwrapsHold` are about runs without one.
- `NoWaitCycle` holds as long as no two CPUs use one root. With a shared one the
  order of the locks has a cycle: USED_VMA, heap, root for a fault in the heap, and
  root, USED_VMA for one in the vmalloc area (`vmm.rs:142`).
- `MessageOut` has the exceptions a reader should know: a CPU that was frozen, or
  panicked, with the lock of the serial port, and two panics at once.
- `Interrupts` has no slave PIC. All other lines are less urgent than the timer, so
  one that is ignored never blocks it; it blocks itself and those below it.
- `Boot` is checked on platforms where the boot processor has processor id 0, on
  which its storage depends (`smp.rs:37`). A processor id of `MAX_CPU` or more has
  no TSS slot (`tss.rs:13`) and ends in a panic, which the run includes;
  `BootCompletes` claims nothing on such a platform.

## Not modelled, and the plan

- **Composition** of `Vmm` with `TlbShootdown`: a frame given back, and allocated
  anew, while another core still translates to it. The two modules meet in the
  entry; what is missing is the use of the frame by its next owner.
- **Fragmentation**: free areas are never merged (`vmm.rs:127`), so `allocate` may
  refuse what the free space could hold. `VmaSpace` allows it, and no property says
  how bad it gets.
- **The user half** of address spaces, and user mode: the kernel does not have them
  yet.

Left out for good: the x86-64 support crate, the crate `acpi` and
`linked_list_allocator`, which are not in this repository and appear as far as their
callers rely on them; `address.rs`, a fixed offset; `mm/frame/mod.rs` beyond its flags,
statistics and `index` (conversions between frames and addresses, which are one
number here); the checks of the bootloader's answers in `main.rs`; the text of log
messages.
