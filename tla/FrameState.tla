----------------------------- MODULE FrameState -----------------------------
(***************************************************************************)
(* The data of the physical frame allocator: the array of FrameInfo kept   *)
(* by `State` (mm/frame/state.rs) and the `Stats` record                   *)
(* (mm/frame/mod.rs).  A frame is named by its index in the array, a       *)
(* physical address by the frame that contains it.  The zone flags BIOS,   *)
(* ISA and X86 and the never-written flags (ZEROED, DIRTY, BORROWED) are   *)
(* left out: no code reads them.  So is the statistic `borrowed`.          *)
(***************************************************************************)
EXTENDS Integers, FiniteSets

VARIABLES
  frames,   \* State.frames, the array of FrameInfo
  stats,    \* the statistics: setup's, then Allocator.statistic
  array     \* the frames setup marked as the location of State.frames

\* FrameFlags, the ones some code reads or counts.
FrameFlag == {"POISONED", "RESERVED", "FREE", "KERNEL"}

\* FrameInfo: the flags of a frame and the number of references to it.
FrameInfo == [flags : SUBSET FrameFlag, count : Nat]

\* Stats::new: every counter is zero.
NoStats ==
  [total |-> 0, usable |-> 0, allocated |-> 0,
   reserved |-> 0, kernel |-> 0, poisoned |-> 0]

\* The frames of the array fs that carry a flag.
With(fs, flag) == {f \in DOMAIN fs : flag \in fs[f].flags}

\* The states in which State::setup can leave a frame: not regular memory;
\* usable; used by the kernel image or the bootloader, with the one reference
\* setup gives it, and perhaps in a reserved entry of the map as well; holding
\* the frame array itself, which setup marks as used without a reference.
PoisonedInfo == [flags |-> {"POISONED"}, count |-> 0]
FreeInfo     == [flags |-> {"FREE"},     count |-> 0]
BootInfo     == [flags |-> {"KERNEL"},   count |-> 1]
ReservedInfo == [flags |-> {"KERNEL", "RESERVED"}, count |-> 1]
ArrayInfo    == [flags |-> {"KERNEL"},   count |-> 0]

\* What the counters of Stats are documented to count, computed from the array.
StatsOf(fs) ==
  LET usable == DOMAIN fs \ With(fs, "POISONED") IN
  [total     |-> Cardinality(DOMAIN fs),
   usable    |-> Cardinality(usable),
   allocated |-> Cardinality(usable) - Cardinality(With(fs, "FREE")),
   reserved  |-> Cardinality(With(fs, "RESERVED")),
   kernel    |-> Cardinality(With(fs, "KERNEL")),
   poisoned  |-> Cardinality(With(fs, "POISONED"))]

\* The statistics State::setup returns for the array fs, when its loops came to
\* k frames of the kernel, and r reserved ones, a second time: these are
\* counted again, and every reserved frame is taken off the poisoned ones,
\* although it was not one.  A negative number stands for a wrapped one.
BootStats(fs, k, r) ==
  LET s == StatsOf(fs) IN
  [total     |-> s.total,
   usable    |-> s.usable + k,
   allocated |-> s.allocated + k,
   reserved  |-> s.reserved + r,
   kernel    |-> s.kernel + k,
   poisoned  |-> s.poisoned - s.reserved - k - r]

\* The interface between boot and the allocator: the array and the statistics
\* State::setup hands to Allocator::setup, arr being the frames it marked as
\* the place of the array.
BootState(fs, st, arr) ==
  /\ \A f \in DOMAIN fs :
       fs[f] \in IF f \in arr THEN {ArrayInfo}
                 ELSE {PoisonedInfo, FreeInfo, BootInfo, ReservedInfo}
  /\ \E a, b \in DOMAIN fs : a <= b /\ arr = a .. b
  /\ LET k == st.usable - StatsOf(fs).usable
         r == st.reserved - StatsOf(fs).reserved
     IN  k \in Nat /\ r \in Nat /\ st = BootStats(fs, k, r)
=============================================================================
