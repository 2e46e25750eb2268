----------------------------- MODULE FrameSetup -----------------------------
(***************************************************************************)
(* State::setup (mm/frame/state.rs): how the frame array and the           *)
(* statistics are built at boot from the memory map of the bootloader.     *)
(* The function runs alone, on one core; each of its loops over the map    *)
(* advances by one memory map entry per step, so that what the loops       *)
(* maintain can be stated.  Addresses and sizes are in bytes.              *)
(***************************************************************************)
EXTENDS FrameState, Sequences, FiniteSetsExt

CONSTANTS
  PageSize,        \* bytes in a page (4096)
  SizeFrame,       \* size_of::<Frame>() (8)
  SizeFrameInfo,   \* size_of::<FrameInfo>() (24)
  MemoryMaps       \* the memory maps a bootloader may pass

EntryType == {"Usable", "KernelAndModules", "BootloaderReclaimable",
              "BadMemory", "Reserved"}

RegularMemory == {"Usable", "KernelAndModules", "BootloaderReclaimable"}

End(entry) == entry.base + entry.len

\* The bootloader protocol: entries are sorted by their base; usable and
\* reclaimable ones are page aligned and overlap no other.  Of the others,
\* the kernel and its modules included, nothing is promised.
IsMemoryMap(m) ==
  /\ m \in Seq([base : Nat, len : Nat \ {0}, typ : EntryType])
  /\ \A e \in 1 .. Len(m) - 1 : m[e].base <= m[e + 1].base
  /\ \A e \in 1 .. Len(m) : m[e].typ \in {"Usable", "BootloaderReclaimable"} =>
       /\ m[e].base % PageSize = 0 /\ m[e].len % PageSize = 0
       /\ \A d \in 1 .. Len(m) \ {e} :
            End(m[d]) <= m[e].base \/ End(m[e]) <= m[d].base

ASSUME SizeAssumption ==
  /\ PageSize \in Nat \ {0} /\ SizeFrame \in Nat \ {0}
  /\ SizeFrameInfo = 3 * SizeFrame
ASSUME MapAssumption == \A m \in MemoryMaps : IsMemoryMap(m)

VARIABLES
  mmap,     \* the memory map
  pc,       \* the loop setup is in
  entry,    \* the map entry its main loop is at
  home      \* the first frame of the region chosen for the array

setupVars == <<mmap, pc, entry, frames, stats, home, array>>

\* frame::index: the frame that contains an address.
index(address) == address \div PageSize

\* find_last_usable_frame_index: the length of the array.
find_last_usable_frame_index(m) ==
  LET regular == {e \in DOMAIN m : m[e].typ \in RegularMemory} IN
  IF regular = {} THEN 0 ELSE index(Max({End(m[e]) : e \in regular}))

\* Mutant: the room is computed with the size of a Frame.
ArrayLocations_SizeOfFrame(m, last) ==
  {e \in DOMAIN m : m[e].typ = "Usable" /\ m[e].len >= last * SizeFrame}

\* find_array_location: the entries with room for an array of that length;
\* the first one is used.
ArrayLocations(m, last) ==
  {e \in DOMAIN m : m[e].typ = "Usable" /\ m[e].len >= last * SizeFrameInfo}

-----------------------------------------------------------------------------
SetupInit ==
  /\ mmap \in MemoryMaps
  /\ pc = "begin"
  /\ entry = 1
  /\ frames = <<>>
  /\ stats = NoStats
  /\ home = 0
  /\ array = {}

\* The array is placed, and all its frames are poisoned.
Begin ==
  LET last == find_last_usable_frame_index(mmap)
      locations == ArrayLocations(mmap, last) IN
  /\ pc = "begin"
  /\ \/ /\ locations = {}
        /\ pc' = "panic"
        /\ UNCHANGED <<mmap, entry, frames, stats, home, array>>
     \/ /\ locations # {}
        /\ home' = index(mmap[Min(locations)].base)
        /\ frames' = [f \in 0 .. last - 1 |-> PoisonedInfo]
        /\ stats' = [NoStats EXCEPT !.poisoned = last, !.total = last]
        /\ pc' = "entries"
        /\ UNCHANGED <<mmap, entry, array>>

\* Mutant: the range is inclusive.
FramesOf_Inclusive(e) ==
  LET last == Cardinality(DOMAIN frames) IN
  Min({index(e.base), last}) .. Min({index(End(e)), last - 1})

\* The frames of an entry that are in the array, first one to last one.
FramesOf(e) ==
  LET last == Cardinality(DOMAIN frames) IN
  Min({index(e.base), last}) .. Min({index(End(e)), last}) - 1

\* Replace the flags of the frames of S, dropping some and adding some.
Flag(S, drop, add, count) ==
  [f \in DOMAIN frames |->
     IF f \in S
     THEN [flags |-> (frames[f].flags \ drop) \cup add,
           count |-> IF count = 0 THEN frames[f].count ELSE count]
     ELSE frames[f]]

MarkUsable(S) ==
  /\ frames' = Flag(S, {"POISONED"}, {"FREE"}, 0)
  /\ stats' = [stats EXCEPT !.poisoned = @ - Cardinality(S),
                            !.usable = @ + Cardinality(S)]

\* Mutant: the frames of the kernel are not counted as allocated.
MarkKernel_NotAllocated(S) ==
  /\ frames' = Flag(S, {"POISONED"}, {"KERNEL"}, 1)
  /\ stats' = [stats EXCEPT !.poisoned = @ - Cardinality(S),
                            !.kernel = @ + Cardinality(S),
                            !.usable = @ + Cardinality(S)]

MarkKernel(S) ==
  /\ frames' = Flag(S, {"POISONED"}, {"KERNEL"}, 1)
  /\ stats' = [stats EXCEPT !.allocated = @ + Cardinality(S),
                            !.poisoned = @ - Cardinality(S),
                            !.kernel = @ + Cardinality(S),
                            !.usable = @ + Cardinality(S)]

\* Only frames that are no longer poisoned become RESERVED, and they are taken
\* off the poisoned ones once more.
MarkReserved(S) ==
  LET clean == S \ With(frames, "POISONED") IN
  /\ frames' = Flag(clean, {"POISONED"}, {"RESERVED"}, 0)
  /\ stats' = [stats EXCEPT !.poisoned = @ - Cardinality(clean),
                            !.reserved = @ + Cardinality(clean)]

\* One entry of the map.  When poisoned goes below zero, a build with overflow
\* checks panics, and one without goes on.
Entry ==
  /\ pc = "entries" /\ entry <= Len(mmap)
  /\ LET e == mmap[entry] IN
     \/ e.typ = "Usable" /\ MarkUsable(FramesOf(e))
     \/ /\ e.typ \in {"KernelAndModules", "BootloaderReclaimable"}
        /\ MarkKernel(FramesOf(e))
     \/ e.typ = "BadMemory" /\ UNCHANGED <<frames, stats>>
     \/ e.typ = "Reserved" /\ MarkReserved(FramesOf(e))
  /\ entry' = entry + 1
  /\ pc' \in IF stats'.poisoned < 0 THEN {"entries", "overflow"} ELSE {"entries"}
  /\ UNCHANGED <<mmap, home, array>>

\* The frames array[start..=end] setup marks as the place of the array.
ArrayRange ==
  home .. home + (Cardinality(DOMAIN frames) * SizeFrame) \div PageSize

\* The frames of the array itself.  Slicing past the end would panic.
MarkArray ==
  /\ pc = "entries" /\ entry > Len(mmap)
  /\ pc' = IF ArrayRange \subseteq DOMAIN frames THEN "done" ELSE "panic"
  /\ frames' = Flag(ArrayRange, {"FREE"}, {"KERNEL"}, 0)
  /\ stats' = [stats EXCEPT !.allocated = @ + Cardinality(ArrayRange),
                            !.kernel = @ + Cardinality(ArrayRange)]
  /\ array' = ArrayRange
  /\ UNCHANGED <<mmap, entry, home>>

Finished == pc \in {"done", "panic", "overflow"} /\ UNCHANGED setupVars

SetupNext == Begin \/ Entry \/ MarkArray \/ Finished

SetupSpec == SetupInit /\ [][SetupNext]_setupVars

-----------------------------------------------------------------------------
\* No page is in two entries of the kernel, or in one and in a later reserved
\* entry.
CountedOnce(m) ==
  \A d, e \in DOMAIN m :
    d < e /\ m[d].typ = "KernelAndModules"
          /\ m[e].typ \in {"KernelAndModules", "Reserved"} =>
      index(m[d].base) .. index(End(m[d])) - 1
        \cap index(m[e].base) .. index(End(m[e])) - 1 = {}

\* What setup hands to the allocator is a state FrameAllocator starts from:
\* each frame in one of the boot states, whichever entries share it and in
\* whatever order they come.  If each page is counted once, every counter
\* equals what it counts, and none goes below zero on the way; if not, they are
\* off as BootStats says.
SetupContract ==
  /\ pc = "done" => BootState(frames, stats, array)
  /\ CountedOnce(mmap) =>
       /\ pc \in {"entries", "done"} =>
            stats = StatsOf(frames) /\ \A counter \in DOMAIN stats : stats[counter] >= 0
       /\ pc # "overflow"

\* The free frames are the usable memory of the map without the frames
\* marked for the array: nothing else may be handed out, and nothing usable
\* is lost.
FreeIsUsable ==
  pc = "done" =>
    With(frames, "FREE") =
      {f \in DOMAIN frames :
         \E e \in DOMAIN mmap :
           /\ mmap[e].typ = "Usable"
           /\ mmap[e].base <= f * PageSize
           /\ (f + 1) * PageSize <= End(mmap[e])} \ array

\* The assertions and the slices of setup panic only as documented, when no
\* usable region can hold the frame array; in particular the frames it marks
\* for the array always exist.
PanicOnlyWithoutRoom ==
  pc = "panic" =>
    ArrayLocations(mmap, find_last_usable_frame_index(mmap)) = {}

\* "After this loop, all kernel frames are marked as used": no frame that
\* holds a part of the frame array is free.
ArrayMarkedUsed ==
  pc = "done" =>
    \A f \in home .. index(home * PageSize
                             + Cardinality(DOMAIN frames) * SizeFrameInfo - 1) :
      f \notin With(frames, "FREE")
=============================================================================
