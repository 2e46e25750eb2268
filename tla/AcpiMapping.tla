----------------------------- MODULE AcpiMapping -----------------------------
(***************************************************************************)
(* The mappings of physical memory that arch/acpi.rs makes for the ACPI    *)
(* crate, on top of the virtual memory allocator.  acpi::setup runs on the *)
(* boot processor before the others start.  The crate maps a table, looks  *)
(* at it, maps others and drops mappings, in an order that depends on the  *)
(* firmware: any order here.  Other code on the same CPU allocates, touches *)
(* and frees areas of its own before and after.                            *)
(*                                                                         *)
(* Physical addresses and sizes are in bytes.  A page of the arena that is *)
(* mapped for ACPI has the number of a physical page in mapped.            *)
(***************************************************************************)
EXTENDS Vmm

CONSTANTS
  Bsp,       \* the boot processor
  Regions,   \* the physical regions the firmware has: [phys, size]
  Lapic      \* the registers of the LAPIC, a region within one page

ASSUME BspAssumption == Bsp \in Cpus
ASSUME RegionsAssumption ==
  \A r \in Regions \cup {Lapic} :
    r.phys \in Nat /\ r.size \in Nat /\ r.phys + r.size + 2 * PageSize <= Word
ASSUME LapicAssumption == (Lapic.phys % PageSize) + Lapic.size <= PageSize
\* Pages are mapped to the frames of the allocator and, here, to physical pages.
ASSUME NoFrameAssumption == NoFrame \notin Nat

VARIABLES
  job,        \* the map or unmap in progress
  mappings,   \* the PhysicalMappings that are live
  multiple    \* whether some region was a multiple of the page size (a ghost)

acpi == <<job, mappings, multiple>>

\* The size in bytes map_physical_region asks for.
RoundUp(size) == size + (PageSize - (size % PageSize))

\* Mutant: the last page is left out.
UnmappedPages_Down(size) == size \div PageSize

\* The pages unmap_physical_region unmaps, from the first page of the area on.
UnmappedPages(size) == (size + PageSize - 1) \div PageSize

AcpiInit == Init /\ job = Idle /\ mappings = {} /\ multiple = FALSE

Fail(why) == Panic(why) /\ UNCHANGED acpi

-----------------------------------------------------------------------------
\* An area of some bytes is taken for a region, which must succeed.
TakeArea(r, bytes) ==
  /\ job = Idle
  /\ IF Fitting(aligned_size(bytes)) = {}
     THEN halted = "no" /\ task[Bsp] = Idle /\ Fail("no area")
     ELSE /\ AllocateFind(Bsp, bytes, FALSE, FALSE)
          /\ job' = [pc |-> "insert", region |-> r]
          /\ multiple' = (multiple \/ bytes > r.size + PageSize - 1)
          /\ UNCHANGED mappings

\* map_physical_region begins with it,
MapAllocate(r) == TakeArea(r, RoundUp(r.size))

\* and so does remap_lapic, with a single page.
RemapLapic ==
  (\A m \in mappings : m.region # Lapic) /\ TakeArea(Lapic, PageSize)

MapInsert ==
  /\ job.pc = "insert" /\ AllocateInsert(Bsp)
  /\ job' = [pc |-> "map", region |-> job.region, vma |-> task[Bsp].vma, done |-> 0]
  /\ UNCHANGED <<mappings, multiple>>

\* Mutant: the address is rounded up.
FrameFor_RoundedUp(r, i) == (r.phys + PageSize - 1) \div PageSize + i

\* The physical page for the i-th page: Frame::from_u64 of the aligned address.
FrameFor(r, i) == r.phys \div PageSize + i

\* Then map_current maps it page by page, which must succeed; for the address
\* 0 it takes a new frame,
MapPage ==
  LET page  == job.vma.start + job.done
      frame == FrameFor(job.region, job.done) IN
  /\ halted = "no" /\ job.pc = "map" /\ job.done < Size(job.vma)
  /\ IF mapped[page] # NoFrame THEN Fail("already mapped")
     ELSE IF frame = 0 /\ pool = {} THEN Fail("no frame")
     ELSE /\ \E f \in (IF frame = 0 THEN pool ELSE {frame}) :
               mapped' = [mapped EXCEPT ![page] = f] /\ pool' = pool \ {f}
          /\ job' = [job EXCEPT !.done = @ + 1]
          /\ UNCHANGED <<free, used, task, owned, halted, mappings, multiple>>

\* and the mapping starts as far into the first page as the region.
MapEnd ==
  /\ halted = "no" /\ job.pc = "map" /\ job.done = Size(job.vma)
  /\ mappings' = mappings \cup
       {[region |-> job.region, vma |-> job.vma,
         virt |-> job.vma.start * PageSize + (job.region.phys % PageSize)]}
  /\ job' = Idle
  /\ UNCHANGED <<vars, multiple>>

\* unmap_physical_region, when a mapping is dropped.  The LAPIC stays.
UnmapBegin(m) ==
  /\ halted = "no" /\ task[Bsp] = Idle /\ job = Idle /\ m.region # Lapic
  /\ mappings' = mappings \ {m}
  /\ job' = [pc |-> "unmap", region |-> m.region, vma |-> m.vma,
             start |-> m.virt \div PageSize, done |-> 0]
  /\ UNCHANGED <<vars, multiple>>

\* unmap_current on each page, which must have been mapped; the frame is not
\* given back.
UnmapPage ==
  LET page == job.start + job.done IN
  /\ halted = "no" /\ job.pc = "unmap" /\ job.done < UnmappedPages(job.region.size)
  /\ IF mapped[page] = NoFrame THEN Fail("not mapped")
     ELSE /\ mapped' = [mapped EXCEPT ![page] = NoFrame]
          /\ job' = [job EXCEPT !.done = @ + 1]
          /\ UNCHANGED <<free, used, pool, task, owned, halted, mappings, multiple>>

\* Then vmm::deallocate, which knows the area by its start.
UnmapRemove ==
  /\ job.pc = "unmap" /\ job.done = UnmappedPages(job.region.size)
  /\ DeallocateRemove(Bsp, job.vma)
  /\ job' = [pc |-> "free"]
  /\ UNCHANGED <<mappings, multiple>>

UnmapInsert ==
  /\ job.pc = "free" /\ DeallocateInsert(Bsp)
  /\ job' = Idle
  /\ UNCHANGED <<mappings, multiple>>

\* Other code uses the allocator while no mapping is being made or dropped.
\* It keeps to its own areas.
Other ==
  /\ job = Idle /\ UNCHANGED acpi
  /\ \/ \E size \in Sizes : AllocateFind(Bsp, size, TRUE, FALSE)
     \/ \E vma \in owned[Bsp] : vma.map /\ DeallocateRemove(Bsp, vma)
     \/ \E p \in 0 .. Pages - 1 : Touch(Bsp, p)
     \/ Step(Bsp)

AcpiNext ==
  \/ RemapLapic \/ \E r \in Regions : MapAllocate(r)
  \/ MapInsert \/ MapPage \/ MapEnd
  \/ \E m \in mappings : UnmapBegin(m)
  \/ UnmapPage \/ UnmapRemove \/ UnmapInsert
  \/ Other
  \/ Halted /\ UNCHANGED acpi

AcpiSpec == AcpiInit /\ [][AcpiNext]_<<vars, acpi>>

-----------------------------------------------------------------------------
\* The regions the arithmetic of map_physical_region is right for: those that
\* end in the pages mapped for their size, and do not touch physical page 0.
Covered(r) ==
  r.phys >= PageSize /\ (r.phys % PageSize) + r.size <= RoundUp(r.size)

\* Through a live mapping of such a region the crate, and the LAPIC driver, see
\* the region byte by byte, whatever was mapped and unmapped before and since.
RegionSeen ==
  halted = "no" => \A m \in mappings : Covered(m.region) =>
    \A i \in 0 .. m.region.size - 1 :
      mapped[(m.virt + i) \div PageSize] = (m.region.phys + i) \div PageSize

\* A mapping leaves nothing behind, as long as no region was a multiple of the
\* page size: each mapped page is in an area that is in use.
NothingLeft ==
  halted = "no" /\ ~multiple => \A p \in DOMAIN mapped : mapped[p] # NoFrame =>
    \/ \E s \in DOMAIN used : p \in PagesOf(used[s])
    \/ task[Bsp].pc \in {"unmap", "drop"} /\ p \in PagesOf(task[Bsp].vma)

\* Nor does an unwrap of these functions fail then, except for lack of address
\* space or memory: no area has a page left from its last use, and every page
\* to unmap is mapped.
UnwrapsHold ==
  /\ halted # "not mapped"
  /\ halted = "already mapped" => multiple
=============================================================================
