--------------------------- MODULE FrameAllocator ---------------------------
(***************************************************************************)
(* The physical frame allocator (mm/frame/dummy_allocator.rs) over the     *)
(* array of FrameInfo (mm/frame/state.rs).  Every operation runs with      *)
(* FRAME_ALLOCATOR locked by its caller and FRAME_STATE locked inside, with *)
(* interrupts off, so each one is a single action.                         *)
(*                                                                         *)
(* The references that count are those the kernel holds: held[h] is the    *)
(* set of frames a holder h (a page table, a mapping, a CPU) has obtained  *)
(* and not given back.  The holder Boot stands for the kernel image and    *)
(* the bootloader memory, to which setup gives one reference per frame     *)
(* that no code ever drops.                                                *)
(***************************************************************************)
EXTENDS FrameState

CONSTANTS
  N,          \* length of the frame array
  Handles,    \* holders of references
  Boot,       \* the holder of the frames in use when the kernel starts
  MaxCount,   \* largest reference count (2^64 - 1 in the code)
  MaxRange    \* bound on the size asked of allocate_range

ASSUME NAssumption == N \in Nat \ {0}
ASSUME HoldersAssumption == IsFiniteSet(Handles) /\ Boot \notin Handles
ASSUME MaxAssumption == MaxCount \in Nat \ {0} /\ MaxRange \in Nat

VARIABLES
  held,     \* the references each holder owns
  halted    \* "no", or why the kernel panicked ("booting" before setup is over)

vars == <<frames, array, stats, held, halted>>

Frames  == 0 .. N - 1
Holders == Handles \cup {Boot}

\* An address past the array: State::get_frame_info_mut returns None.
Outside == N

FREE == With(frames, "FREE")

\* The holders of a reference to f.
Refs(f) == {h \in Holders : f \in held[h]}

-----------------------------------------------------------------------------
\* The references setup gives out.
BootHeld ==
  [h \in Holders |-> IF h = Boot THEN {f \in Frames : frames[f].count = 1} ELSE {}]

\* After State::setup and Allocator::setup.
Init ==
  /\ frames \in [Frames -> {PoisonedInfo, FreeInfo, BootInfo, ReservedInfo, ArrayInfo}]
  /\ array = {f \in Frames : frames[f] = ArrayInfo}
  /\ BootState(frames, stats, array)
  /\ held = BootHeld
  /\ halted = "no"

\* retain and release: one more and one less reference.  The overflow of
\* retain and the underflow of release are panics, decided by the callers.
retain(info)  == [info EXCEPT !.count = @ + 1]
release(info) == [info EXCEPT !.count = @ - 1]

\* Mutant: the frame is handed out without retain.
Taken_NoRetain(info, kernel) ==
  [flags |-> (info.flags \cup (IF kernel THEN {"KERNEL"} ELSE {})) \ {"FREE"},
   count |-> info.count]

\* What allocate and allocate_range do to each frame they hand out, and to
\* the statistics.
Taken(info, kernel) ==
  [flags |-> (info.flags \cup (IF kernel THEN {"KERNEL"} ELSE {})) \ {"FREE"},
   count |-> retain(info).count]

Take(S, kernel) ==
  /\ frames' = [f \in Frames |->
                  IF f \in S THEN Taken(frames[f], kernel) ELSE frames[f]]
  /\ stats' = [stats EXCEPT
                 !.allocated = @ + Cardinality(S),
                 !.kernel = IF kernel THEN @ + Cardinality(S) ELSE @]

\* allocate: the first free frame of the array, or None.
Allocate(h, kernel) ==
  /\ halted = "no"
  /\ \/ \E f \in FREE :
          /\ \A g \in FREE : f <= g
          /\ Take({f}, kernel)
          /\ held' = [held EXCEPT ![h] = @ \cup {f}]
          /\ UNCHANGED <<array, halted>>
     \/ FREE = {} /\ UNCHANGED vars

\* Mutant: the last frame of the run is not looked at.
Fits_SkipsLast(i, count) ==
  i + count <= N /\ i .. (i + count - 2) \subseteq FREE

\* array[i..i + count] is in bounds and every frame of it is free.
Fits(i, count) == i + count <= N /\ i .. (i + count - 1) \subseteq FREE

\* allocate_range: the first run of count free frames, or None.  The end of
\* the returned Range is read from array[i + count], after the frames of the
\* run have been marked: when the run ends with the array the read is out of
\* bounds, and panics.
AllocateRange(h, count, kernel) ==
  /\ halted = "no"
  /\ \/ \E i \in 0 .. N :
          /\ Fits(i, count)
          /\ \A j \in 0 .. (i - 1) : ~Fits(j, count)
          /\ Take(i .. (i + count - 1), kernel)
          /\ IF i + count < N
             THEN /\ held' = [held EXCEPT ![h] = @ \cup i .. (i + count - 1)]
                  /\ UNCHANGED halted
             ELSE /\ halted' = "index out of bounds"
                  /\ UNCHANGED held
          /\ UNCHANGED array
     \/ (\A i \in 0 .. N : ~Fits(i, count)) /\ UNCHANGED vars

\* State::get_frame_info_mut finds f, and its count is not zero.
Referenced(f) == f \in Frames /\ frames[f].count > 0

\* reference: one more owner for a frame that has one.
Reference(h, f) ==
  /\ halted = "no"
  /\ f \notin held[h]
  /\ \/ /\ Referenced(f) /\ frames[f].count < MaxCount
        /\ frames' = [frames EXCEPT ![f] = retain(@)]
        /\ held' = [held EXCEPT ![h] = @ \cup {f}]
        /\ UNCHANGED <<array, stats, halted>>
     \/ /\ Referenced(f) /\ frames[f].count = MaxCount
        /\ halted' = "count overflow"
        /\ UNCHANGED <<frames, array, stats, held>>
     \/ /\ ~Referenced(f)
        /\ halted' = "not allocated"
        /\ UNCHANGED <<frames, array, stats, held>>

\* Mutant: the last reference goes, and the frame is not marked FREE.
Dropped_NotFreed(info) ==
  LET left == release(info) IN
  IF left.count = 0 THEN [left EXCEPT !.flags = @ \ {"KERNEL"}] ELSE left

\* deallocate drops one reference; the last one frees the frame.
Dropped(info) ==
  LET left == release(info) IN
  IF left.count = 0
  THEN [left EXCEPT !.flags = (@ \ {"KERNEL"}) \cup {"FREE"}]
  ELSE left

\* Mutant: statistic.kernel is not decremented.
Drop_KernelKept(S) ==
  /\ frames' = [f \in Frames |->
                  IF f \in S THEN Dropped(frames[f]) ELSE frames[f]]
  /\ stats' = [stats EXCEPT
                 !.allocated = @ - Cardinality({f \in S : frames[f].count = 1})]

Drop(S) ==
  LET freed == {f \in S : frames[f].count = 1} IN
  /\ frames' = [f \in Frames |->
                  IF f \in S THEN Dropped(frames[f]) ELSE frames[f]]
  /\ stats' = [stats EXCEPT
                 !.allocated = @ - Cardinality(freed),
                 !.kernel = @ - Cardinality(freed \cap With(frames, "KERNEL"))]

\* deallocate, called by the owner of a reference, or for a frame nobody
\* references: the address is not in the array, or the count is zero.
Deallocate(h, f) ==
  /\ halted = "no"
  /\ \/ /\ f \in held[h]
        /\ Drop({f})
        /\ held' = [held EXCEPT ![h] = @ \ {f}]
        /\ UNCHANGED <<array, halted>>
     \/ /\ ~Referenced(f)
        /\ halted' = "deallocated too many times"
        /\ UNCHANGED <<frames, array, stats, held>>

\* deallocate_range: deallocate on each frame from a to b - 1.  The first one
\* nobody references panics, with the frames before it already given back.
DeallocateRange(h, a, b) ==
  LET bad  == {f \in a .. (b - 1) : ~Referenced(f)}
      done == {f \in a .. (b - 1) : \A g \in bad : f < g} IN
  /\ halted = "no"
  /\ done \subseteq held[h]
  /\ Drop(done)
  /\ held' = [held EXCEPT ![h] = @ \ done]
  /\ halted' = IF bad = {} THEN "no" ELSE "deallocated too many times"
  /\ UNCHANGED array

\* A panic ends in an endless loop on every core.
Halted == halted # "no" /\ UNCHANGED vars

Next ==
  \/ \E h \in Handles, kernel \in BOOLEAN :
       \/ Allocate(h, kernel)
       \/ \E count \in 0 .. MaxRange : AllocateRange(h, count, kernel)
  \/ \E h \in Handles, f \in Frames \cup {Outside} :
       Reference(h, f) \/ Deallocate(h, f)
  \/ \E h \in Handles, a, b \in 0 .. Outside + 1 : DeallocateRange(h, a, b)
  \/ Halted

Spec == Init /\ [][Next]_vars

-----------------------------------------------------------------------------
\* The types; in particular a reference count stays within its machine word,
\* and the counters of the statistics allocate and deallocate change do not go
\* below zero.
TypeOK ==
  /\ frames \in [Frames -> [flags : SUBSET FrameFlag, count : 0 .. MaxCount]]
  /\ array \subseteq Frames
  /\ stats.allocated \in Nat /\ stats.kernel \in Nat
  /\ held \in [Holders -> SUBSET Frames]
  /\ halted \in {"no", "index out of bounds", "count overflow",
                 "not allocated", "deallocated too many times"}

\* The count of a frame is the number of references held to it: retain and
\* release are paired by allocate, reference and deallocate, whichever
\* holders share a frame and in whatever order they let go of it.
RefCountExact ==
  halted = "no" => \A f \in Frames : frames[f].count = Cardinality(Refs(f))

\* A frame is free exactly when it is usable memory outside the frame array
\* that nobody holds.  One way, a frame in use is never handed out again;
\* the other way, no frame is lost: deallocate frees it with its last
\* reference, so allocate returns None only when everything is in use.
FreeExact ==
  halted = "no" =>
    FREE = Frames \ (With(frames, "POISONED") \cup array
                       \cup UNION {held[h] : h \in Holders})

\* The counters allocate and deallocate adjust one by one (allocated, kernel)
\* move as the flags of the array do, a panic included: an error setup left in
\* the statistics stays what it is, and none is added.
StatsFollow ==
  [][halted = "no" =>
       \A counter \in DOMAIN NoStats :
         stats'[counter] - stats[counter]
           = StatsOf(frames')[counter] - StatsOf(frames)[counter]]_vars

\* The allocator implements the pool, which is empty until setup is over: a
\* frame goes to a second holder only through reference, and only the memory
\* map decides what can be granted.
Pool == INSTANCE FramePool WITH
          pool <- IF halted = "booting" THEN {}
                  ELSE Frames \ (With(frames, "POISONED") \cup array)
PoolSpec == Pool!Spec
=============================================================================
