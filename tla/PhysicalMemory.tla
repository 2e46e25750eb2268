--------------------------- MODULE PhysicalMemory ---------------------------
(***************************************************************************)
(* mm::setup and the frame allocator after it: State::setup (FrameSetup)   *)
(* builds the array and the statistics from the memory map, Allocator::    *)
(* setup takes the statistics over, and the allocator (FrameAllocator)     *)
(* runs on what it found.                                                  *)
(***************************************************************************)
EXTENDS FrameSetup, FrameAllocator

\* The array setup builds has the length the allocator is specified for.
ASSUME LengthAssumption ==
  \A m \in MemoryMaps : find_last_usable_frame_index(m) = N

memoryVars == <<setupVars, held, halted>>

MemoryInit ==
  /\ SetupInit
  /\ held = [h \in Holders |-> {}]
  /\ halted = "booting"

\* State::setup returns, and with it its locals go; Allocator::setup.
HandOver ==
  /\ pc = "done"
  /\ pc' = "up" /\ mmap' = <<>> /\ entry' = 1 /\ home' = 0
  /\ held' = BootHeld
  /\ halted' = "no"
  /\ UNCHANGED <<frames, stats, array>>

MemoryNext ==
  \/ SetupNext /\ UNCHANGED <<held, halted>>
  \/ HandOver
  \/ halted # "booting" /\ Next /\ UNCHANGED <<mmap, pc, entry, home>>

MemorySpec == MemoryInit /\ [][MemoryNext]_memoryVars
=============================================================================
