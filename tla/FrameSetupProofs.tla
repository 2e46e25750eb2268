-------------------------- MODULE FrameSetupProofs --------------------------
(***************************************************************************)
(* Proofs about FrameSetup for every memory map that keeps the protocol of *)
(* the bootloader, and every size of a page and of a Frame: what setup     *)
(* hands over is a BootState, with exact counters when no page is counted  *)
(* twice (SetupContract), its free frames are the usable ones              *)
(* (FreeIsUsable), and it panics only for want of room                     *)
(* (PanicOnlyWithoutRoom).                                                 *)
(*                                                                         *)
(* The invariant of the loop over the map (Filled) says what the entries   *)
(* so far have made of each frame, and how far the counters are off.  The  *)
(* frames of a usable or reclaimable entry are poisoned when the loop      *)
(* comes to them, because such an entry shares no page with another        *)
(* (Apart); those of an entry of the kernel, or of a reserved one, may     *)
(* have been counted before, and then the statistics go on being those of  *)
(* BootStats with one more frame counted again.  The range marked for the  *)
(* array is inside the region chosen because it takes a third of what the  *)
(* region was chosen for (ArrayRoom): so it is in the array, and all free. *)
(***************************************************************************)
EXTENDS FrameSetup, FiniteSetTheorems, WellFoundedInduction, NaturalsInduction, TLAPS

-----------------------------------------------------------------------------
(* The invariant.                                                          *)

Last == find_last_usable_frame_index(mmap)

\* Frame f is in entry e of the map.
In(f, e) == index(mmap[e].base) <= f /\ f < index(End(mmap[e]))

\* The states of a frame in the main loop.
LoopInfo == {PoisonedInfo, FreeInfo, BootInfo, ReservedInfo}

\* What the main loop maintains: the frames changed are those of the entries of
\* regular memory so far, the free ones those of the usable entries, and the
\* counters are off by the frames counted again, if any.
Filled ==
  /\ frames \in [0 .. Last - 1 -> LoopInfo]
  /\ entry \in 1 .. Len(mmap) + 1
  /\ \A f \in 0 .. Last - 1 :
       /\ frames[f] # PoisonedInfo =>
            \E e \in 1 .. entry - 1 : mmap[e].typ \in RegularMemory /\ In(f, e)
       /\ frames[f] = FreeInfo <=>
            \E e \in 1 .. entry - 1 : mmap[e].typ = "Usable" /\ In(f, e)
       /\ frames[f] = ReservedInfo => ~CountedOnce(mmap)
  /\ \E k, r \in Nat :
       stats = BootStats(frames, k, r) /\ (CountedOnce(mmap) => k = 0 /\ r = 0)

\* The array has its place.
Placed ==
  /\ ArrayLocations(mmap, Last) # {}
  /\ home = index(mmap[Min(ArrayLocations(mmap, Last))].base)

\* The counters are what they count.
Exact ==
  stats = StatsOf(frames) /\ \A counter \in DOMAIN stats : stats[counter] >= 0

IInv ==
  /\ mmap \in MemoryMaps
  /\ pc \in {"begin", "entries", "done", "panic", "overflow"}
  /\ pc = "begin" => entry = 1 /\ stats = NoStats
  /\ pc = "entries" => Filled /\ Placed
  /\ pc = "panic" => ArrayLocations(mmap, Last) = {}
  /\ pc = "overflow" => ~CountedOnce(mmap)
  /\ pc = "done" => FreeIsUsable /\ BootState(frames, stats, array)
                    /\ (CountedOnce(mmap) => Exact)
-----------------------------------------------------------------------------
(* Arithmetic.                                                             *)

LEMMA Sizes == /\ PageSize \in Nat \ {0} /\ SizeFrame \in Nat \ {0}
               /\ SizeFrameInfo = 3 * SizeFrame
BY SizeAssumption

\* The frames of addresses are ordered as the addresses,
LEMMA IndexMono ==
  ASSUME NEW a \in Nat, NEW b \in Nat, a <= b
  PROVE  index(a) \in Nat /\ index(b) \in Nat /\ index(a) <= index(b)
BY Sizes DEF index

LEMMA IndexNat == ASSUME NEW a \in Nat  PROVE index(a) \in Nat
BY IndexMono

\* and a frame starts at the aligned addresses.
LEMMA IndexAligned ==
  ASSUME NEW a \in Nat, a % PageSize = 0
  PROVE  a = index(a) * PageSize
BY Sizes DEF index

LEMMA IndexTimes ==
  ASSUME NEW k \in Nat
  PROVE  k * PageSize \in Nat /\ index(k * PageSize) = k
BY Sizes DEF index

LEMMA Times ==
  ASSUME NEW a \in Nat, NEW b \in Nat
  PROVE  a <= b <=> a * PageSize <= b * PageSize
BY Sizes

\* A set of numbers has a least element,
LEMMA MinIn ==
  ASSUME NEW S \in SUBSET Nat, S # {}
  PROVE  Min(S) \in S /\ \A y \in S : Min(S) <= y
<1> DEFINE R == {p \in Nat \X Nat : p[1] < p[2]}
<1>1. OpToRel(<, Nat) = R  BY Zenon DEF OpToRel
<1>2. ASSUME NEW x \in Nat, NEW y \in Nat, x < y  PROVE <<x, y>> \in R
  <2>1. <<x, y>> \in Nat \X Nat  OBVIOUS
  <2>2. QED  BY <1>2, <2>1
<1> HIDE DEF R
<1>3. IsWellFoundedOn(R, Nat)  BY <1>1, NatLessThanWellFounded, Zenon
<1>4. PICK x \in S : \A y \in S : <<y, x>> \notin R  BY <1>3, WFMin, Zenon
<1>5. ASSUME NEW y \in S  PROVE x <= y
  <2>1. x \in Nat /\ y \in Nat  OBVIOUS
  <2>2. ~(y < x)  BY <1>2, <1>4, <2>1, Zenon
  <2>3. QED  BY <2>1, <2>2
<1>6. \E z \in S : \A y \in S : z <= y  BY <1>5, Zenon
<1>7. QED  BY <1>6, Zenon DEF Min

\* and a greatest one when it is bounded: its least bound.
LEMMA MaxIn ==
  ASSUME NEW S \in SUBSET Nat, S # {}, NEW b \in Nat, \A y \in S : y <= b
  PROVE  Max(S) \in S /\ \A y \in S : y <= Max(S)
<1> DEFINE B == {x \in Nat : \A y \in S : y <= x}
           x == Min(B)
<1>1. x \in B /\ \A y \in B : x <= y  BY MinIn, Zenon
<1> HIDE DEF x
<1>2. x \in Nat /\ \A y \in S : y <= x  BY <1>1
<1>3. x \in S
  <2>1. SUFFICES ASSUME x \notin S  PROVE FALSE  OBVIOUS
  <2>2. \A y \in S : y \in Nat /\ y < x  BY <1>2, <2>1
  <2>3. x - 1 \in Nat /\ \A y \in S : y <= x - 1
    <3>1. PICK z \in S : z \in Nat /\ z < x  BY <2>2, Zenon
    <3>2. \A y \in Nat : y < x => y <= x - 1  BY <1>2
    <3>3. x - 1 \in Nat  BY <1>2, <3>1
    <3>4. QED  BY <2>2, <3>2, <3>3, Zenon
  <2>4. x <= x - 1  BY <1>1, <2>3, Zenon
  <2>5. QED  BY <1>2, <2>4
<1>4. \E z \in S : \A y \in S : z >= y
  <2>1. \A y \in S : x >= y  BY <1>2
  <2>2. QED  BY <1>3, <2>1, Zenon
<1>5. Max(S) \in S /\ \A y \in S : Max(S) >= y  BY <1>4, Zenon DEF Max
<1>6. QED  BY <1>5

LEMMA MinPair ==
  ASSUME NEW a \in Nat, NEW b \in Nat
  PROVE  Min({a, b}) = IF a <= b THEN a ELSE b
<1>1. Min({a, b}) \in {a, b} /\ \A y \in {a, b} : Min({a, b}) <= y  BY MinIn
<1>2. QED  BY <1>1
-----------------------------------------------------------------------------
(* The memory map.                                                         *)

LEMMA MapEntry ==
  ASSUME NEW m \in MemoryMaps
  PROVE  /\ Len(m) \in Nat /\ DOMAIN m = 1 .. Len(m)
         /\ \A e \in 1 .. Len(m) :
              /\ m[e].base \in Nat /\ m[e].len \in Nat \ {0} /\ m[e].typ \in EntryType
              /\ End(m[e]) \in Nat /\ m[e].base <= End(m[e])
<1>1. IsMemoryMap(m)  BY MapAssumption
<1>2. m \in Seq([base : Nat, len : Nat \ {0}, typ : EntryType])
  BY <1>1, Zenon DEF IsMemoryMap
<1>3. Len(m) \in Nat /\ DOMAIN m = 1 .. Len(m)  BY <1>2
<1>4. ASSUME NEW e \in 1 .. Len(m)
      PROVE  /\ m[e].base \in Nat /\ m[e].len \in Nat \ {0} /\ m[e].typ \in EntryType
             /\ End(m[e]) \in Nat /\ m[e].base <= End(m[e])
  <2> DEFINE R == [base : Nat, len : Nat \ {0}, typ : EntryType]
  <2> HIDE DEF R
  <2>0. m[e] \in R
    <3>1. m \in Seq(R)  BY <1>2, Zenon DEF R
    <3>2. QED  BY <3>1
  <2>1. m[e] \in [base : Nat, len : Nat \ {0}, typ : EntryType]  BY <2>0, Zenon DEF R
  <2>2. QED  BY <2>1 DEF End
<1>5. QED  BY <1>3, <1>4, Zenon

\* The entries that are page aligned, and overlap no other.
Whole == {"Usable", "BootloaderReclaimable"}

\* They consist of whole frames.
LEMMA WholeEntry ==
  ASSUME NEW m \in MemoryMaps, NEW e \in 1 .. Len(m), m[e].typ \in Whole
  PROVE  LET a == index(m[e].base)
             b == index(End(m[e])) IN
         /\ a \in Nat /\ b \in Nat /\ a < b
         /\ m[e].base = a * PageSize /\ End(m[e]) = b * PageSize
         /\ m[e].len = (b - a) * PageSize
<1> DEFINE a == index(m[e].base)
           k == index(m[e].len)
           b == index(End(m[e]))
<1>1. m[e].base \in Nat /\ m[e].len \in Nat /\ m[e].len # 0 /\ End(m[e]) \in Nat
  BY MapEntry
<1>2. m[e].base % PageSize = 0 /\ m[e].len % PageSize = 0
  BY MapAssumption, Zenon DEF IsMemoryMap, Whole
<1>3. m[e].base = a * PageSize /\ m[e].len = k * PageSize  BY <1>1, <1>2, IndexAligned
<1>4. a \in Nat /\ k \in Nat  BY <1>1, IndexNat, Zenon
<1>5. End(m[e]) = m[e].base + m[e].len  BY DEF End
<1> HIDE DEF a, k
<1>6. a + k \in Nat /\ End(m[e]) = (a + k) * PageSize  BY <1>3, <1>4, <1>5, Sizes
<1>7. b = a + k  BY <1>6, IndexTimes
<1>8. k # 0  BY <1>1, <1>3, Sizes
<1> HIDE DEF b
<1>9. b \in Nat /\ a < b /\ b - a = k  BY <1>4, <1>7, <1>8
<1>10. QED  BY <1>3, <1>4, <1>6, <1>7, <1>9, Zenon DEF a, b

\* and such an entry shares no frame with another.
LEMMA Apart ==
  ASSUME mmap \in MemoryMaps, NEW e \in 1 .. Len(mmap), mmap[e].typ \in Whole,
         NEW d \in 1 .. Len(mmap), d # e, NEW f \in Nat, In(f, e)
  PROVE  ~In(f, d)
<1>1. /\ End(mmap[e]) \in Nat /\ End(mmap[d]) \in Nat
      /\ mmap[e].base \in Nat /\ mmap[d].base \in Nat
  BY MapEntry
<1>2. End(mmap[d]) <= mmap[e].base \/ End(mmap[e]) <= mmap[d].base
  <2>1. IsMemoryMap(mmap)  BY MapAssumption
  <2>2. QED  BY <2>1, Zenon DEF IsMemoryMap, Whole
<1>3. \/ index(End(mmap[d])) <= index(mmap[e].base)
      \/ index(End(mmap[e])) <= index(mmap[d].base)
  BY <1>1, <1>2, IndexMono, Zenon
<1>4. /\ index(End(mmap[e])) \in Nat /\ index(End(mmap[d])) \in Nat
      /\ index(mmap[e].base) \in Nat /\ index(mmap[d].base) \in Nat
  BY <1>1, IndexNat, Zenon
<1>5. QED  BY <1>3, <1>4 DEF In

\* When each page is counted once, a frame of an entry of the kernel is in no
\* other entry of the kernel, and in no later reserved one.
LEMMA OnceApart ==
  ASSUME mmap \in MemoryMaps, CountedOnce(mmap),
         NEW d \in 1 .. Len(mmap), NEW e \in 1 .. Len(mmap), d < e,
         mmap[d].typ = "KernelAndModules", mmap[e].typ \in {"KernelAndModules", "Reserved"},
         NEW f \in Nat, In(f, d)
  PROVE  ~In(f, e)
<1> DEFINE D == index(mmap[d].base) .. index(End(mmap[d])) - 1
           E == index(mmap[e].base) .. index(End(mmap[e])) - 1
<1>1. DOMAIN mmap = 1 .. Len(mmap)  BY MapEntry
<1>2. D \cap E = {}  BY <1>1, Zenon DEF CountedOnce
<1>3. /\ index(End(mmap[e])) \in Nat /\ index(End(mmap[d])) \in Nat
      /\ index(mmap[e].base) \in Nat /\ index(mmap[d].base) \in Nat
  BY MapEntry, IndexNat, Zenon
<1>4. (In(f, d) <=> f \in D) /\ (In(f, e) <=> f \in E)  BY <1>3 DEF In
<1>5. QED  BY <1>2, <1>4, Zenon

\* Some address is past all entries.
LEMMA EndsBounded ==
  ASSUME NEW m \in MemoryMaps
  PROVE  \E b \in Nat : \A e \in 1 .. Len(m) : End(m[e]) <= b
<1> DEFINE P(n) == \E b \in Nat : \A e \in 1 .. n : End(m[e]) <= b
           Bad == {n \in 0 .. Len(m) : ~P(n)}
<1>1. Len(m) \in Nat /\ \A e \in 1 .. Len(m) : End(m[e]) \in Nat  BY MapEntry
<1>2. SUFFICES ASSUME Bad # {}  PROVE FALSE
  <2>1. Len(m) \in 0 .. Len(m)  BY <1>1
  <2>2. QED  BY <2>1, Zenon
<1> DEFINE n == Min(Bad)
<1>3. Bad \in SUBSET Nat  BY <1>1
<1>4. n \in Bad /\ \A k \in Bad : n <= k  BY <1>2, <1>3, MinIn, Zenon
<1> HIDE DEF n
<1>5. n \in 0 .. Len(m) /\ ~P(n)  BY <1>4
<1>6. n # 0
  <2>1. \A e \in 1 .. 0 : End(m[e]) <= 0  OBVIOUS
  <2>2. P(0)  BY <2>1
  <2>3. QED  BY <1>5, <2>2, Zenon
<1>7. n - 1 \in 0 .. Len(m) /\ ~(n <= n - 1) /\ n \in 1 .. Len(m)  BY <1>1, <1>5, <1>6
<1>8. P(n - 1)  BY <1>4, <1>7, Zenon
<1>9. PICK b \in Nat : \A e \in 1 .. n - 1 : End(m[e]) <= b  BY <1>8
<1>10. End(m[n]) \in Nat  BY <1>1, <1>7, Zenon
<1>11. ASSUME NEW e \in 1 .. n  PROVE End(m[e]) <= b + End(m[n])
  <2>1. e \in 1 .. Len(m) /\ (e = n \/ e \in 1 .. n - 1)  BY <1>1, <1>7
  <2>2. End(m[e]) \in Nat  BY <1>1, <2>1, Zenon
  <2>3. CASE e = n  BY <1>10, <2>3
  <2>4. CASE e \in 1 .. n - 1
    <3>1. End(m[e]) <= b  BY <1>9, <2>4, Zenon
    <3>2. QED  BY <1>10, <2>2, <3>1
  <2>5. QED  BY <2>1, <2>3, <2>4, Zenon
<1>12. b + End(m[n]) \in Nat  BY <1>10
<1>13. QED  BY <1>5, <1>11, <1>12, Zenon

\* The array is long enough for the regular memory.
LEMMA LastIs ==
  ASSUME NEW m \in MemoryMaps
  PROVE  /\ find_last_usable_frame_index(m) \in Nat
         /\ \A e \in 1 .. Len(m) : m[e].typ \in RegularMemory =>
              index(End(m[e])) <= find_last_usable_frame_index(m)
<1> DEFINE regular == {e \in DOMAIN m : m[e].typ \in RegularMemory}
           ends == {End(m[e]) : e \in regular}
           last == find_last_usable_frame_index(m)
<1>1. /\ Len(m) \in Nat /\ DOMAIN m = 1 .. Len(m)
      /\ \A e \in 1 .. Len(m) : End(m[e]) \in Nat
  BY MapEntry, Zenon
<1>2. last = IF regular = {} THEN 0 ELSE index(Max(ends))
  BY Zenon DEF find_last_usable_frame_index
<1> HIDE DEF last
<1>3. CASE regular = {}  BY <1>1, <1>2, <1>3 DEF last
<1>4. CASE regular # {}
  <2>1. PICK b \in Nat : \A e \in 1 .. Len(m) : End(m[e]) <= b  BY EndsBounded
  <2>2. ends \in SUBSET Nat /\ ends # {} /\ \A y \in ends : y <= b
    BY <1>1, <1>4, <2>1, Zenon
  <2>3. Max(ends) \in ends /\ \A y \in ends : y <= Max(ends)  BY <2>2, MaxIn, Zenon
  <2>4. Max(ends) \in Nat  BY <2>2, <2>3
  <2>5. last = index(Max(ends)) /\ index(Max(ends)) \in Nat
    BY <1>2, <1>4, <2>4, IndexMono
  <2>6. ASSUME NEW e \in 1 .. Len(m), m[e].typ \in RegularMemory
        PROVE  index(End(m[e])) <= last
    <3>1. End(m[e]) \in ends /\ End(m[e]) \in Nat  BY <1>1, <2>6, Zenon
    <3>2. End(m[e]) <= Max(ends)  BY <2>3, <3>1, Zenon
    <3>3. QED  BY <2>4, <2>5, <3>1, <3>2, IndexMono, Zenon
  <2>7. QED  BY <2>5, <2>6, Zenon DEF last
<1>5. QED  BY <1>3, <1>4, Zenon
\* What the loops do with an entry depends on which frames of the array it has.
LEMMA FramesOfIs ==
  ASSUME mmap \in MemoryMaps, DOMAIN frames = 0 .. Last - 1, NEW e \in 1 .. Len(mmap)
  PROVE  FramesOf(mmap[e]) = {f \in 0 .. Last - 1 : In(f, e)}
<1> DEFINE a == index(mmap[e].base)
           b == index(End(mmap[e]))
<1>1. Last \in Nat  BY LastIs DEF Last
<1>2. a \in Nat /\ b \in Nat  BY MapEntry, IndexNat, Zenon
<1>3. Cardinality(DOMAIN frames) = Last
  <2>1. Cardinality(0 .. Last - 1) = IF 0 > Last - 1 THEN 0 ELSE Last - 1 - 0 + 1
    BY <1>1, FS_Interval
  <2>2. QED  BY <1>1, <2>1
<1>4. FramesOf(mmap[e]) = Min({a, Last}) .. Min({b, Last}) - 1
  BY <1>3, Zenon DEF FramesOf
<1>5. /\ Min({a, Last}) = IF a <= Last THEN a ELSE Last
      /\ Min({b, Last}) = IF b <= Last THEN b ELSE Last
  BY <1>1, <1>2, MinPair
<1>6. \A f : In(f, e) <=> a <= f /\ f < b  BY DEF In
<1> HIDE DEF a, b
<1>7. QED  BY <1>1, <1>2, <1>4, <1>5, <1>6

-----------------------------------------------------------------------------
(* The statistics.                                                         *)

\* The array fs after the frames of S became info.
Change(fs, S, info) == [f \in DOMAIN fs |-> IF f \in S THEN info ELSE fs[f]]

LEMMA WithChange ==
  ASSUME NEW fs, NEW S \in SUBSET DOMAIN fs, NEW info, NEW flag
  PROVE  /\ flag \in info.flags => With(Change(fs, S, info), flag) = With(fs, flag) \cup S
         /\ flag \notin info.flags => With(Change(fs, S, info), flag) = With(fs, flag) \ S
BY Zenon DEF With, Change

\* The flags of a frame setup has not marked, and of those it has.
LEMMA InfoFlags ==
  /\ PoisonedInfo.flags = {"POISONED"} /\ PoisonedInfo.count = 0
  /\ FreeInfo.flags = {"FREE"} /\ FreeInfo.count = 0
  /\ BootInfo.flags = {"KERNEL"} /\ ArrayInfo.flags = {"KERNEL"}
  /\ ReservedInfo.flags = {"KERNEL", "RESERVED"}
BY DEF PoisonedInfo, FreeInfo, BootInfo, ReservedInfo, ArrayInfo

\* What the loops write: only frames that were poisoned become frames of the
\* kernel, and only those that were not reserved yet become reserved.
LEMMA FlagIs ==
  ASSUME NEW S \in SUBSET DOMAIN frames
  PROVE  /\ (\A f \in S : frames[f] = PoisonedInfo) =>
              Flag(S, {"POISONED"}, {"FREE"}, 0) = Change(frames, S, FreeInfo)
         /\ (\A f \in S : frames[f] \in {PoisonedInfo, BootInfo, ReservedInfo}) =>
              Flag(S, {"POISONED"}, {"KERNEL"}, 1)
                = Change(frames, S \cap With(frames, "POISONED"), BootInfo)
         /\ (\A f \in S : frames[f] \in {BootInfo, ReservedInfo}) =>
              Flag(S, {"POISONED"}, {"RESERVED"}, 0)
                = Change(frames, S \ With(frames, "RESERVED"), ReservedInfo)
         /\ (\A f \in S : frames[f] = FreeInfo) =>
              Flag(S, {"FREE"}, {"KERNEL"}, 0) = Change(frames, S, ArrayInfo)
<1> DEFINE Set(x, drop, add, count) ==
             [flags |-> (x.flags \ drop) \cup add, count |-> IF count = 0 THEN x.count ELSE count]
<1>1. /\ Set(PoisonedInfo, {"POISONED"}, {"FREE"}, 0) = FreeInfo
      /\ Set(PoisonedInfo, {"POISONED"}, {"KERNEL"}, 1) = BootInfo
      /\ Set(BootInfo, {"POISONED"}, {"KERNEL"}, 1) = BootInfo
      /\ Set(ReservedInfo, {"POISONED"}, {"KERNEL"}, 1) = ReservedInfo
      /\ Set(BootInfo, {"POISONED"}, {"RESERVED"}, 0) = ReservedInfo
      /\ Set(ReservedInfo, {"POISONED"}, {"RESERVED"}, 0) = ReservedInfo
      /\ Set(FreeInfo, {"FREE"}, {"KERNEL"}, 0) = ArrayInfo
  BY DEF PoisonedInfo, FreeInfo, BootInfo, ReservedInfo, ArrayInfo
<1>2. \A drop, add, count :
        Flag(S, drop, add, count) =
          [f \in DOMAIN frames |->
             IF f \in S THEN Set(frames[f], drop, add, count) ELSE frames[f]]
  BY Zenon DEF Flag
<1>3. ASSUME NEW f \in S
      PROVE  /\ f \in With(frames, "POISONED") <=> "POISONED" \in frames[f].flags
             /\ f \in With(frames, "RESERVED") <=> "RESERVED" \in frames[f].flags
  BY DEF With
<1> HIDE DEF Set
<1>4. ASSUME \A f \in S : frames[f] \in {PoisonedInfo, BootInfo, ReservedInfo}, NEW f \in S
      PROVE  Set(frames[f], {"POISONED"}, {"KERNEL"}, 1)
               = IF f \in With(frames, "POISONED") THEN BootInfo ELSE frames[f]
  BY <1>1, <1>3, <1>4, InfoFlags
<1>5. ASSUME \A f \in S : frames[f] \in {BootInfo, ReservedInfo}, NEW f \in S
      PROVE  Set(frames[f], {"POISONED"}, {"RESERVED"}, 0)
               = IF f \in With(frames, "RESERVED") THEN frames[f] ELSE ReservedInfo
  BY <1>1, <1>3, <1>5, InfoFlags
<1>7. ASSUME \A f \in S : frames[f] \in {PoisonedInfo, BootInfo, ReservedInfo}
      PROVE  Flag(S, {"POISONED"}, {"KERNEL"}, 1)
               = Change(frames, S \cap With(frames, "POISONED"), BootInfo)
  <2>1. \A f \in DOMAIN frames :
          (IF f \in S THEN Set(frames[f], {"POISONED"}, {"KERNEL"}, 1) ELSE frames[f])
            = IF f \in S \cap With(frames, "POISONED") THEN BootInfo ELSE frames[f]
    BY <1>4, <1>7
  <2>2. QED  BY <1>2, <2>1 DEF Change
<1>8. ASSUME \A f \in S : frames[f] \in {BootInfo, ReservedInfo}
      PROVE  Flag(S, {"POISONED"}, {"RESERVED"}, 0)
               = Change(frames, S \ With(frames, "RESERVED"), ReservedInfo)
  <2>1. \A f \in DOMAIN frames :
          (IF f \in S THEN Set(frames[f], {"POISONED"}, {"RESERVED"}, 0) ELSE frames[f])
            = IF f \in S \ With(frames, "RESERVED") THEN ReservedInfo ELSE frames[f]
    BY <1>5, <1>8
  <2>2. QED  BY <1>2, <2>1 DEF Change
<1>9. ASSUME \A f \in S : frames[f] = PoisonedInfo
      PROVE  Flag(S, {"POISONED"}, {"FREE"}, 0) = Change(frames, S, FreeInfo)
  <2>1. \A f \in DOMAIN frames :
          (IF f \in S THEN Set(frames[f], {"POISONED"}, {"FREE"}, 0) ELSE frames[f])
            = IF f \in S THEN FreeInfo ELSE frames[f]
    BY <1>1, <1>9
  <2>2. QED  BY <1>2, <2>1 DEF Change
<1>10. ASSUME \A f \in S : frames[f] = FreeInfo
       PROVE  Flag(S, {"FREE"}, {"KERNEL"}, 0) = Change(frames, S, ArrayInfo)
  <2>1. \A f \in DOMAIN frames :
          (IF f \in S THEN Set(frames[f], {"FREE"}, {"KERNEL"}, 0) ELSE frames[f])
            = IF f \in S THEN ArrayInfo ELSE frames[f]
    BY <1>1, <1>10
  <2>2. QED  BY <1>2, <2>1 DEF Change
<1>11. QED  BY <1>7, <1>8, <1>9, <1>10, Zenon

\* Disjoint sets add up, and taking a subset away subtracts its size.
LEMMA CardAdd ==
  ASSUME NEW D, IsFiniteSet(D), NEW S \in SUBSET D, NEW T \in SUBSET D, S \cap T = {}
  PROVE  /\ Cardinality(S \cup T) = Cardinality(S) + Cardinality(T)
         /\ Cardinality(S) \in Nat /\ Cardinality(T) \in Nat
<1>1. IsFiniteSet(S) /\ IsFiniteSet(T)  BY FS_Subset, Zenon
<1>2. Cardinality(S) \in Nat /\ Cardinality(T) \in Nat  BY <1>1, FS_CardinalityType
<1>3. Cardinality(S \cup T) = Cardinality(S) + Cardinality(T) - Cardinality(S \cap T)
  BY <1>1, FS_Union, Zenon
<1>4. Cardinality(S \cap T) = 0  BY FS_EmptySet
<1>5. QED  BY <1>2, <1>3, <1>4

LEMMA CardSub ==
  ASSUME NEW D, IsFiniteSet(D), NEW S \in SUBSET D, NEW T \in SUBSET S
  PROVE  /\ Cardinality(S \ T) = Cardinality(S) - Cardinality(T)
         /\ Cardinality(S) \in Nat /\ Cardinality(T) \in Nat
<1>1. IsFiniteSet(S) /\ IsFiniteSet(T)  BY FS_Subset, Zenon
<1>2. Cardinality(S \ T) = Cardinality(S) - Cardinality(S \cap T)
  BY <1>1, FS_Difference, Zenon
<1>3. S \cap T = T  OBVIOUS
<1>4. QED  BY <1>1, <1>2, <1>3, FS_CardinalityType, Zenon
\* Stats with its six counters, and how the loops change them.
Record(t, u, a, r, k, p) ==
  [total |-> t, usable |-> u, allocated |-> a, reserved |-> r, kernel |-> k, poisoned |-> p]

AddUsable(x, n) == [x EXCEPT !.poisoned = @ - n, !.usable = @ + n]
AddKernel(x, n) ==
  [x EXCEPT !.allocated = @ + n, !.poisoned = @ - n, !.kernel = @ + n, !.usable = @ + n]
AddReserved(x, n) == [x EXCEPT !.poisoned = @ - n, !.reserved = @ + n]
AddArray(x, n) == [x EXCEPT !.allocated = @ + n, !.kernel = @ + n]

LEMMA RecordFields ==
  ASSUME NEW t, NEW u, NEW a, NEW r, NEW k, NEW p,
         NEW t1, NEW u1, NEW a1, NEW r1, NEW k1, NEW p1,
         Record(t, u, a, r, k, p) = Record(t1, u1, a1, r1, k1, p1)
  PROVE  t = t1 /\ u = u1 /\ a = a1 /\ r = r1 /\ k = k1 /\ p = p1
BY DEF Record

LEMMA RecordExcept ==
  ASSUME NEW t, NEW u, NEW a, NEW r, NEW k, NEW p, NEW n, NEW x, x = Record(t, u, a, r, k, p)
  PROVE  /\ AddUsable(x, n) = Record(t, u + n, a, r, k, p - n)
         /\ AddKernel(x, n) = Record(t, u + n, a + n, r, k + n, p - n)
         /\ AddReserved(x, n) = Record(t, u, a, r + n, k, p - n)
         /\ AddArray(x, n) = Record(t, u, a + n, r, k + n, p)
<1>1. x = [total |-> t, usable |-> u, allocated |-> a, reserved |-> r,
           kernel |-> k, poisoned |-> p]
  BY Zenon DEF Record
<1>2. /\ x.total = t /\ x.usable = u /\ x.allocated = a
      /\ x.reserved = r /\ x.kernel = k /\ x.poisoned = p
  BY <1>1
<1>3. ASSUME NEW y, y = AddUsable(x, n)
      PROVE  y = [total |-> x.total, usable |-> x.usable + n, allocated |-> x.allocated,
                  reserved |-> x.reserved, kernel |-> x.kernel, poisoned |-> x.poisoned - n]
  BY <1>1, <1>3, Zenon DEF AddUsable
<1>4. ASSUME NEW y, y = AddKernel(x, n)
      PROVE  y = [total |-> x.total, usable |-> x.usable + n, allocated |-> x.allocated + n,
                  reserved |-> x.reserved, kernel |-> x.kernel + n, poisoned |-> x.poisoned - n]
  BY <1>1, <1>4, Zenon DEF AddKernel
<1>5. ASSUME NEW y, y = AddArray(x, n)
      PROVE  y = [total |-> x.total, usable |-> x.usable, allocated |-> x.allocated + n,
                  reserved |-> x.reserved, kernel |-> x.kernel + n, poisoned |-> x.poisoned]
  BY <1>1, <1>5, Zenon DEF AddArray
<1>6. ASSUME NEW y, y = AddReserved(x, n)
      PROVE  y = [total |-> x.total, usable |-> x.usable, allocated |-> x.allocated,
                  reserved |-> x.reserved + n, kernel |-> x.kernel, poisoned |-> x.poisoned - n]
  BY <1>1, <1>6, Zenon DEF AddReserved
<1>7. QED  BY <1>2, <1>3, <1>4, <1>5, <1>6, Zenon DEF Record

LEMMA StatsFields ==
  ASSUME NEW fs, NEW U, NEW P, NEW F, NEW K, NEW R,
         With(fs, "POISONED") = P, With(fs, "FREE") = F, With(fs, "KERNEL") = K,
         With(fs, "RESERVED") = R, DOMAIN fs \ P = U
  PROVE  StatsOf(fs) = Record(Cardinality(DOMAIN fs), Cardinality(U),
                              Cardinality(U) - Cardinality(F), Cardinality(R),
                              Cardinality(K), Cardinality(P))
BY Zenon DEF StatsOf, Record

\* Frames that were poisoned become free, or frames of the kernel,
LEMMA MarkStats ==
  ASSUME NEW fs, IsFiniteSet(DOMAIN fs), NEW S \in SUBSET DOMAIN fs,
         \A f \in S : fs[f] = PoisonedInfo
  PROVE  /\ StatsOf(Change(fs, S, FreeInfo)) = AddUsable(StatsOf(fs), Cardinality(S))
         /\ StatsOf(Change(fs, S, BootInfo)) = AddKernel(StatsOf(fs), Cardinality(S))
<1> DEFINE D == DOMAIN fs
           P == With(fs, "POISONED")
           F == With(fs, "FREE")
           K == With(fs, "KERNEL")
           R == With(fs, "RESERVED")
           n == Cardinality(S)
<1>1. /\ S \in SUBSET P /\ S \cap F = {} /\ S \cap K = {} /\ S \cap R = {}
      /\ P \in SUBSET D /\ F \in SUBSET D /\ K \in SUBSET D /\ R \in SUBSET D
  BY InfoFlags DEF With
<1>2. \A i \in {FreeInfo, BootInfo} : DOMAIN Change(fs, S, i) = D  BY DEF Change
<1>3. /\ With(Change(fs, S, FreeInfo), "POISONED") = P \ S
      /\ With(Change(fs, S, FreeInfo), "FREE") = F \cup S
      /\ With(Change(fs, S, FreeInfo), "KERNEL") = K \ S
      /\ With(Change(fs, S, FreeInfo), "RESERVED") = R \ S
  BY WithChange, InfoFlags
<1>4. /\ With(Change(fs, S, BootInfo), "POISONED") = P \ S
      /\ With(Change(fs, S, BootInfo), "FREE") = F \ S
      /\ With(Change(fs, S, BootInfo), "KERNEL") = K \cup S
      /\ With(Change(fs, S, BootInfo), "RESERVED") = R \ S
  BY WithChange, InfoFlags
<1>5. StatsOf(fs) = Record(Cardinality(D), Cardinality(D \ P),
                           Cardinality(D \ P) - Cardinality(F), Cardinality(R),
                           Cardinality(K), Cardinality(P))
  BY StatsFields
<1>0. IsFiniteSet(D)  OBVIOUS
<1> HIDE DEF D, P, F, K, R
<1>6. F \ S = F /\ K \ S = K /\ R \ S = R /\ D \ (P \ S) = (D \ P) \cup S
      /\ (D \ P) \cap S = {} /\ D \ P \in SUBSET D /\ S \in SUBSET D
      /\ F \cap S = {} /\ K \cap S = {}
  BY <1>1, Zenon
<1>7. /\ Cardinality(P \ S) = Cardinality(P) - n
      /\ Cardinality(P) \in Nat /\ n \in Nat
  BY <1>1, <1>0, CardSub, Zenon
<1>8. /\ Cardinality(F \cup S) = Cardinality(F) + n
      /\ Cardinality(K \cup S) = Cardinality(K) + n
      /\ Cardinality(F) \in Nat
  <2>0. Cardinality(F) \in Nat  BY <1>0, <1>1, FS_Subset, FS_CardinalityType
  <2>1. Cardinality(F \cup S) = Cardinality(F) + Cardinality(S)
    BY <1>0, <1>1, <1>6, CardAdd
  <2>2. Cardinality(K \cup S) = Cardinality(K) + Cardinality(S)
    BY <1>0, <1>1, <1>6, CardAdd
  <2>3. QED  BY <2>0, <2>1, <2>2, Zenon
<1>9. /\ Cardinality((D \ P) \cup S) = Cardinality(D \ P) + n
      /\ Cardinality(D \ P) \in Nat
  <2>0. Cardinality(D \ P) \in Nat  BY <1>0, <1>6, FS_Subset, FS_CardinalityType
  <2> DEFINE U == D \ P
  <2>1. U \in SUBSET D /\ S \in SUBSET D /\ U \cap S = {}  BY <1>6, Zenon
  <2> HIDE DEF U
  <2>2. Cardinality(U \cup S) = Cardinality(U) + Cardinality(S)  BY <1>0, <2>1, CardAdd
  <2>3. QED  BY <2>0, <2>2, Zenon DEF U
<1> HIDE DEF n
<1>10. StatsOf(Change(fs, S, FreeInfo)) =
         Record(Cardinality(D), Cardinality(D \ P) + n, Cardinality(D \ P) - Cardinality(F),
                Cardinality(R), Cardinality(K), Cardinality(P) - n)
  <2>1. Cardinality(D \ P) + n - (Cardinality(F) + n) = Cardinality(D \ P) - Cardinality(F)
    BY <1>7, <1>8, <1>9
  <2>2. StatsOf(Change(fs, S, FreeInfo)) =
          Record(Cardinality(D), Cardinality((D \ P) \cup S),
                 Cardinality((D \ P) \cup S) - Cardinality(F \cup S), Cardinality(R),
                 Cardinality(K), Cardinality(P \ S))
    BY <1>2, <1>3, <1>6, StatsFields
  <2>3. QED  BY <1>7, <1>8, <1>9, <2>1, <2>2
<1>11. StatsOf(Change(fs, S, BootInfo)) =
         Record(Cardinality(D), Cardinality(D \ P) + n,
                Cardinality(D \ P) - Cardinality(F) + n,
                Cardinality(R), Cardinality(K) + n, Cardinality(P) - n)
  <2>1. Cardinality(D \ P) + n - Cardinality(F) = Cardinality(D \ P) - Cardinality(F) + n
    BY <1>7, <1>8, <1>9
  <2>2. StatsOf(Change(fs, S, BootInfo)) =
          Record(Cardinality(D), Cardinality((D \ P) \cup S),
                 Cardinality((D \ P) \cup S) - Cardinality(F), Cardinality(R),
                 Cardinality(K \cup S), Cardinality(P \ S))
    BY <1>2, <1>4, <1>6, StatsFields
  <2>3. QED  BY <1>7, <1>8, <1>9, <2>1, <2>2
<1>12. /\ AddUsable(StatsOf(fs), n) = StatsOf(Change(fs, S, FreeInfo))
       /\ AddKernel(StatsOf(fs), n) = StatsOf(Change(fs, S, BootInfo))
  BY <1>5, <1>10, <1>11, RecordExcept
<1>13. QED  BY <1>12, Zenon DEF n

\* and free frames become the place of the array.
LEMMA ArrayStats ==
  ASSUME NEW fs, IsFiniteSet(DOMAIN fs), NEW S \in SUBSET DOMAIN fs,
         \A f \in S : fs[f] = FreeInfo
  PROVE  StatsOf(Change(fs, S, ArrayInfo)) = AddArray(StatsOf(fs), Cardinality(S))
<1> DEFINE D == DOMAIN fs
           P == With(fs, "POISONED")
           F == With(fs, "FREE")
           K == With(fs, "KERNEL")
           R == With(fs, "RESERVED")
           n == Cardinality(S)
<1>1. /\ S \in SUBSET F /\ S \cap P = {} /\ S \cap K = {} /\ S \cap R = {}
      /\ P \in SUBSET D /\ F \in SUBSET D /\ K \in SUBSET D /\ R \in SUBSET D
  BY InfoFlags DEF With
<1>2. DOMAIN Change(fs, S, ArrayInfo) = D  BY DEF Change
<1>3. /\ With(Change(fs, S, ArrayInfo), "POISONED") = P \ S
      /\ With(Change(fs, S, ArrayInfo), "FREE") = F \ S
      /\ With(Change(fs, S, ArrayInfo), "KERNEL") = K \cup S
      /\ With(Change(fs, S, ArrayInfo), "RESERVED") = R \ S
  BY WithChange, InfoFlags
<1>4. StatsOf(fs) = Record(Cardinality(D), Cardinality(D \ P),
                           Cardinality(D \ P) - Cardinality(F), Cardinality(R),
                           Cardinality(K), Cardinality(P))
  BY StatsFields
<1>0. IsFiniteSet(D)  OBVIOUS
<1> HIDE DEF D, P, F, K, R
<1>5. P \ S = P /\ R \ S = R /\ S \in SUBSET D /\ D \ P \in SUBSET D  BY <1>1, Zenon
<1>6. /\ Cardinality(F \ S) = Cardinality(F) - n
      /\ Cardinality(F) \in Nat /\ n \in Nat
  BY <1>1, <1>0, CardSub, Zenon
<1>7. /\ Cardinality(K \cup S) = Cardinality(K) + n
      /\ Cardinality(D \ P) \in Nat
  <2>1. Cardinality(K \cup S) = Cardinality(K) + n  BY <1>0, <1>1, <1>5, CardAdd
  <2>2. IsFiniteSet(D \ P)  BY <1>0, <1>5, FS_Subset, Zenon
  <2>3. QED  BY <2>1, <2>2, FS_CardinalityType, Zenon
<1> HIDE DEF n
<1>8. StatsOf(Change(fs, S, ArrayInfo)) =
        Record(Cardinality(D), Cardinality(D \ P), Cardinality(D \ P) - Cardinality(F) + n,
               Cardinality(R), Cardinality(K) + n, Cardinality(P))
  <2>1. Cardinality(D \ P) - (Cardinality(F) - n) = Cardinality(D \ P) - Cardinality(F) + n
    BY <1>6, <1>7
  <2>2. StatsOf(Change(fs, S, ArrayInfo)) =
          Record(Cardinality(D), Cardinality(D \ P), Cardinality(D \ P) - Cardinality(F \ S),
                 Cardinality(R), Cardinality(K \cup S), Cardinality(P))
    BY <1>2, <1>3, <1>5, StatsFields
  <2>3. QED  BY <1>6, <1>7, <2>1, <2>2, Zenon
<1>9. AddArray(StatsOf(fs), n) = StatsOf(Change(fs, S, ArrayInfo))
  BY <1>4, <1>8, RecordExcept
<1>10. QED  BY <1>9, Zenon DEF n

\* A frame of the kernel that becomes a reserved one is counted as both.
LEMMA ReservedStats ==
  ASSUME NEW fs, IsFiniteSet(DOMAIN fs), NEW S \in SUBSET DOMAIN fs,
         \A f \in S : fs[f] = BootInfo,
         NEW t, NEW u, NEW a, NEW r, NEW k, NEW p, StatsOf(fs) = Record(t, u, a, r, k, p)
  PROVE  StatsOf(Change(fs, S, ReservedInfo)) = Record(t, u, a, r + Cardinality(S), k, p)
<1> DEFINE D == DOMAIN fs
           P == With(fs, "POISONED")
           F == With(fs, "FREE")
           K == With(fs, "KERNEL")
           R == With(fs, "RESERVED")
<1>1. /\ S \in SUBSET K /\ S \cap P = {} /\ S \cap F = {} /\ R \cap S = {}
      /\ S \in SUBSET D /\ R \in SUBSET D
  BY InfoFlags DEF With
<1>2. DOMAIN Change(fs, S, ReservedInfo) = D  BY DEF Change
<1>3. /\ With(Change(fs, S, ReservedInfo), "POISONED") = P \ S
      /\ With(Change(fs, S, ReservedInfo), "FREE") = F \ S
      /\ With(Change(fs, S, ReservedInfo), "KERNEL") = K \cup S
      /\ With(Change(fs, S, ReservedInfo), "RESERVED") = R \cup S
  BY WithChange, InfoFlags
<1>4. StatsOf(fs) = Record(Cardinality(D), Cardinality(D \ P),
                           Cardinality(D \ P) - Cardinality(F), Cardinality(R),
                           Cardinality(K), Cardinality(P))
  BY StatsFields
<1>0. IsFiniteSet(D)  OBVIOUS
<1> HIDE DEF D, P, F, K, R
<1>5. P \ S = P /\ F \ S = F /\ K \cup S = K  BY <1>1, Zenon
<1>6. Cardinality(R \cup S) = Cardinality(R) + Cardinality(S)
  <2>1. R \in SUBSET D /\ S \in SUBSET D /\ R \cap S = {}  BY <1>1, Zenon
  <2>2. QED  BY <1>0, <2>1, CardAdd
<1>7. StatsOf(Change(fs, S, ReservedInfo)) =
        Record(Cardinality(D), Cardinality(D \ P), Cardinality(D \ P) - Cardinality(F),
               Cardinality(R \cup S), Cardinality(K), Cardinality(P))
  BY <1>2, <1>3, <1>5, StatsFields
<1>8. /\ t = Cardinality(D) /\ u = Cardinality(D \ P)
      /\ a = Cardinality(D \ P) - Cardinality(F)
      /\ r = Cardinality(R) /\ k = Cardinality(K) /\ p = Cardinality(P)
  <2>1. Record(t, u, a, r, k, p) =
          Record(Cardinality(D), Cardinality(D \ P), Cardinality(D \ P) - Cardinality(F),
                 Cardinality(R), Cardinality(K), Cardinality(P))
    BY <1>4, Zenon
  <2>2. QED  BY <2>1, RecordFields
<1>9. QED  BY <1>6, <1>7, <1>8, Zenon

\* The counts are numbers, and no counter of them is negative.
LEMMA StatsNat ==
  ASSUME NEW fs, IsFiniteSet(DOMAIN fs),
         \A f \in DOMAIN fs : fs[f] \in LoopInfo \cup {ArrayInfo}
  PROVE  \E t, u, a, r, k, p \in Nat :
           /\ StatsOf(fs) = Record(t, u, a, r, k, p)
           /\ r = Cardinality(With(fs, "RESERVED"))
<1> DEFINE D == DOMAIN fs
           P == With(fs, "POISONED")
           F == With(fs, "FREE")
           K == With(fs, "KERNEL")
           R == With(fs, "RESERVED")
           U == D \ P
<1>1. /\ P \in SUBSET D /\ F \in SUBSET D /\ K \in SUBSET D /\ R \in SUBSET D
      /\ U \in SUBSET D
  BY DEF With
<1>2. F \in SUBSET U
  <2>1. ASSUME NEW f \in D, "FREE" \in fs[f].flags  PROVE "POISONED" \notin fs[f].flags
    BY <2>1, InfoFlags DEF LoopInfo
  <2>2. QED  BY <2>1 DEF With
<1>3. StatsOf(fs) = Record(Cardinality(D), Cardinality(U), Cardinality(U) - Cardinality(F),
                           Cardinality(R), Cardinality(K), Cardinality(P))
  BY StatsFields
<1>0. IsFiniteSet(D)  OBVIOUS
<1> HIDE DEF D, P, F, K, R, U
<1>4. /\ IsFiniteSet(P) /\ IsFiniteSet(F) /\ IsFiniteSet(K) /\ IsFiniteSet(R)
      /\ IsFiniteSet(U)
  BY <1>0, <1>1, FS_Subset, Zenon
<1>5. /\ Cardinality(D) \in Nat /\ Cardinality(P) \in Nat /\ Cardinality(F) \in Nat
      /\ Cardinality(K) \in Nat /\ Cardinality(R) \in Nat /\ Cardinality(U) \in Nat
  BY <1>0, <1>4, FS_CardinalityType, Zenon
<1>6. Cardinality(F) <= Cardinality(U)  BY <1>2, <1>4, FS_Subset, Zenon
<1>7. Cardinality(U) - Cardinality(F) \in Nat  BY <1>5, <1>6
<1>8. QED  BY <1>3, <1>5, <1>7, Zenon DEF R

LEMMA BootRecord ==
  ASSUME NEW fs, NEW t \in Int, NEW u \in Int, NEW a \in Int, NEW r \in Int, NEW k \in Int,
         NEW p \in Int, NEW x \in Int, NEW y \in Int, StatsOf(fs) = Record(t, u, a, r, k, p)
  PROVE  BootStats(fs, x, y) = Record(t, u + x, a + x, r + y, k + x, p - r - x - y)
<1> DEFINE s == StatsOf(fs)
<1>1. s = [total |-> t, usable |-> u, allocated |-> a, reserved |-> r,
           kernel |-> k, poisoned |-> p]
  BY Zenon DEF Record
<1>2. BootStats(fs, x, y) =
        Record(s.total, s.usable + x, s.allocated + x, s.reserved + y, s.kernel + x,
               s.poisoned - s.reserved - x - y)
  BY Zenon DEF BootStats, Record
<1> HIDE DEF s
<1>3. /\ s.total = t /\ s.usable = u /\ s.allocated = a
      /\ s.reserved = r /\ s.kernel = k /\ s.poisoned = p
  BY <1>1
<1>4. QED  BY <1>2, <1>3, Zenon

\* How the loops change the counters: the frames of S counted by a step are
\* those it changes, T, and the ones it comes to again.
LEMMA BootAdd ==
  ASSUME NEW fs, IsFiniteSet(DOMAIN fs), \A f \in DOMAIN fs : fs[f] \in LoopInfo,
         NEW S \in SUBSET DOMAIN fs, NEW T \in SUBSET S, NEW x \in Nat, NEW y \in Nat
  PROVE  LET s == Cardinality(S)
             again == Cardinality(S \ T) IN
         /\ again \in Nat
         /\ (S = T /\ \A f \in T : fs[f] = PoisonedInfo) =>
              AddUsable(BootStats(fs, x, y), s) = BootStats(Change(fs, T, FreeInfo), x, y)
         /\ (\A f \in T : fs[f] = PoisonedInfo) =>
              AddKernel(BootStats(fs, x, y), s)
                = BootStats(Change(fs, T, BootInfo), x + again, y)
         /\ (S = T /\ \A f \in T : fs[f] = FreeInfo) =>
              AddArray(BootStats(fs, x, y), s) = BootStats(Change(fs, T, ArrayInfo), x, y)
<1> DEFINE s == Cardinality(S)
           n == Cardinality(T)
           m == Cardinality(S \ T)
           b == BootStats(fs, x, y)
<1>1. m = s - n /\ s \in Nat /\ n \in Nat  BY CardSub, Zenon
<1>2. m \in Nat
  <2>1. IsFiniteSet(S \ T)  BY FS_Subset, FS_Difference, Zenon
  <2>2. QED  BY <2>1, FS_CardinalityType, Zenon
<1>3. PICK t \in Nat, u \in Nat, a \in Nat, r \in Nat, k \in Nat, p \in Nat :
        StatsOf(fs) = Record(t, u, a, r, k, p)
  BY StatsNat, Zenon
<1>4. b = Record(t, u + x, a + x, r + y, k + x, p - r - x - y)  BY <1>3, BootRecord
<1>5. T \in SUBSET DOMAIN fs  OBVIOUS
<1> HIDE DEF b, s, n, m
<1>0. /\ u + n \in Int /\ a + n \in Int /\ r + n \in Int /\ k + n \in Int /\ p - n \in Int
      /\ x + m \in Int /\ y + m \in Int /\ t \in Int /\ u \in Int /\ a \in Int /\ r \in Int
      /\ k \in Int /\ p \in Int /\ x \in Int /\ y \in Int
  BY <1>1, <1>2
<1>6. /\ AddUsable(b, s) = Record(t, u + x + s, a + x, r + y, k + x, p - r - x - y - s)
      /\ AddKernel(b, s) = Record(t, u + x + s, a + x + s, r + y, k + x + s, p - r - x - y - s)
      /\ AddArray(b, s) = Record(t, u + x, a + x + s, r + y, k + x + s, p - r - x - y)
  BY <1>4, RecordExcept
<1>7. ASSUME S = T, \A f \in T : fs[f] = PoisonedInfo
      PROVE  AddUsable(b, s) = BootStats(Change(fs, T, FreeInfo), x, y)
  <2>1. StatsOf(Change(fs, T, FreeInfo)) = AddUsable(StatsOf(fs), n)
    BY <1>5, <1>7, MarkStats, Zenon DEF n
  <2>2. StatsOf(Change(fs, T, FreeInfo)) = Record(t, u + n, a, r, k, p - n)
    BY <1>3, <2>1, RecordExcept
  <2>3. BootStats(Change(fs, T, FreeInfo), x, y) =
          Record(t, u + n + x, a + x, r + y, k + x, p - n - r - x - y)
    BY <1>0, <2>2, BootRecord
  <2>4. s = n  BY <1>7, Zenon DEF s, n
  <2>5. u + n + x = u + x + s /\ p - n - r - x - y = p - r - x - y - s  BY <1>1, <2>4
  <2>6. QED  BY <1>6, <2>3, <2>5, Zenon
<1>8. ASSUME \A f \in T : fs[f] = PoisonedInfo
      PROVE  AddKernel(b, s) = BootStats(Change(fs, T, BootInfo), x + m, y)
  <2>1. StatsOf(Change(fs, T, BootInfo)) = AddKernel(StatsOf(fs), n)
    BY <1>5, <1>8, MarkStats, Zenon DEF n
  <2>2. StatsOf(Change(fs, T, BootInfo)) = Record(t, u + n, a + n, r, k + n, p - n)
    BY <1>3, <2>1, RecordExcept
  <2>3. BootStats(Change(fs, T, BootInfo), x + m, y) =
          Record(t, u + n + (x + m), a + n + (x + m), r + y, k + n + (x + m),
                 p - n - r - (x + m) - y)
    BY <1>0, <2>2, BootRecord
  <2>4. /\ u + n + (x + m) = u + x + s /\ a + n + (x + m) = a + x + s
        /\ k + n + (x + m) = k + x + s /\ p - n - r - (x + m) - y = p - r - x - y - s
    BY <1>1
  <2>5. QED  BY <1>6, <2>3, <2>4, Zenon
<1>10. ASSUME S = T, \A f \in T : fs[f] = FreeInfo
       PROVE  AddArray(b, s) = BootStats(Change(fs, T, ArrayInfo), x, y)
  <2>1. StatsOf(Change(fs, T, ArrayInfo)) = AddArray(StatsOf(fs), n)
    BY <1>5, <1>10, ArrayStats, Zenon DEF n
  <2>2. StatsOf(Change(fs, T, ArrayInfo)) = Record(t, u, a + n, r, k + n, p)
    BY <1>3, <2>1, RecordExcept
  <2>3. BootStats(Change(fs, T, ArrayInfo), x, y) =
          Record(t, u + x, a + n + x, r + y, k + n + x, p - r - x - y)
    BY <1>0, <2>2, BootRecord
  <2>4. s = n  BY <1>10, Zenon DEF s, n
  <2>5. a + n + x = a + x + s /\ k + n + x = k + x + s  BY <1>1, <2>4
  <2>6. QED  BY <1>6, <2>3, <2>5, Zenon
<1>11. QED  BY <1>2, <1>7, <1>8, <1>10, Zenon DEF b, s, m

LEMMA BootReserve ==
  ASSUME NEW fs, IsFiniteSet(DOMAIN fs), \A f \in DOMAIN fs : fs[f] \in LoopInfo,
         NEW S \in SUBSET DOMAIN fs, NEW T \in SUBSET S, NEW x \in Nat, NEW y \in Nat,
         \A f \in T : fs[f] = BootInfo
  PROVE  /\ Cardinality(S \ T) \in Nat
         /\ AddReserved(BootStats(fs, x, y), Cardinality(S))
              = BootStats(Change(fs, T, ReservedInfo), x, y + Cardinality(S \ T))
<1> DEFINE s == Cardinality(S)
           n == Cardinality(T)
           m == Cardinality(S \ T)
           b == BootStats(fs, x, y)
<1>1. m = s - n /\ s \in Nat /\ n \in Nat  BY CardSub, Zenon
<1>2. m \in Nat
  <2>1. IsFiniteSet(S \ T)  BY FS_Subset, FS_Difference, Zenon
  <2>2. QED  BY <2>1, FS_CardinalityType, Zenon
<1>3. PICK t \in Nat, u \in Nat, a \in Nat, r \in Nat, k \in Nat, p \in Nat :
        StatsOf(fs) = Record(t, u, a, r, k, p)
  BY StatsNat, Zenon
<1>4. b = Record(t, u + x, a + x, r + y, k + x, p - r - x - y)  BY <1>3, BootRecord
<1>5. T \in SUBSET DOMAIN fs  OBVIOUS
<1> HIDE DEF b, s, n, m
<1>0. /\ u + n \in Int /\ a + n \in Int /\ r + n \in Int /\ k + n \in Int /\ p - n \in Int
      /\ x + m \in Int /\ y + m \in Int /\ t \in Int /\ u \in Int /\ a \in Int /\ r \in Int
      /\ k \in Int /\ p \in Int /\ x \in Int /\ y \in Int
  BY <1>1, <1>2
<1>6. AddReserved(b, s) = Record(t, u + x, a + x, r + y + s, k + x, p - r - x - y - s)
  BY <1>4, RecordExcept
<1>7. StatsOf(Change(fs, T, ReservedInfo)) = Record(t, u, a, r + n, k, p)
  BY <1>3, <1>5, ReservedStats DEF n
<1>8. BootStats(Change(fs, T, ReservedInfo), x, y + m) =
        Record(t, u + x, a + x, r + n + (y + m), k + x, p - (r + n) - x - (y + m))
  BY <1>0, <1>7, BootRecord
<1>9. /\ r + n + (y + m) = r + y + s
      /\ p - (r + n) - x - (y + m) = p - r - x - y - s
  BY <1>1
<1>10. QED  BY <1>2, <1>6, <1>8, <1>9, Zenon DEF b, s, m

\* How far the statistics are off can be read from them; and without a reserved
\* frame, and none counted again, they are exact.
LEMMA BootCounts ==
  ASSUME NEW fs, IsFiniteSet(DOMAIN fs),
         \A f \in DOMAIN fs : fs[f] \in LoopInfo \cup {ArrayInfo},
         NEW x \in Nat, NEW y \in Nat
  PROVE  /\ BootStats(fs, x, y).usable - StatsOf(fs).usable = x
         /\ BootStats(fs, x, y).reserved - StatsOf(fs).reserved = y
         /\ (x = 0 /\ y = 0 /\ \A f \in DOMAIN fs : fs[f] # ReservedInfo) =>
              /\ BootStats(fs, x, y) = StatsOf(fs)
              /\ StatsOf(fs).poisoned \in Nat
              /\ \A counter \in DOMAIN StatsOf(fs) : StatsOf(fs)[counter] >= 0
<1>1. PICK t \in Nat, u \in Nat, a \in Nat, r \in Nat, k \in Nat, p \in Nat :
        /\ StatsOf(fs) = Record(t, u, a, r, k, p)
        /\ r = Cardinality(With(fs, "RESERVED"))
  BY StatsNat, Zenon
<1>2. BootStats(fs, x, y) = Record(t, u + x, a + x, r + y, k + x, p - r - x - y)
  BY <1>1, BootRecord
<1>3. /\ StatsOf(fs).usable = u /\ StatsOf(fs).reserved = r
      /\ BootStats(fs, x, y).usable = u + x /\ BootStats(fs, x, y).reserved = r + y
  BY <1>1, <1>2 DEF Record
<1>4. ASSUME x = 0, y = 0, \A f \in DOMAIN fs : fs[f] # ReservedInfo
      PROVE  /\ BootStats(fs, x, y) = StatsOf(fs)
             /\ StatsOf(fs).poisoned \in Nat
             /\ \A counter \in DOMAIN StatsOf(fs) : StatsOf(fs)[counter] >= 0
  <2>1. With(fs, "RESERVED") = {}
    <3>1. \A f \in DOMAIN fs : "RESERVED" \notin fs[f].flags
      BY <1>4, InfoFlags DEF LoopInfo
    <3>2. QED  BY <3>1 DEF With
  <2>2. r = 0  BY <1>1, <2>1, FS_EmptySet
  <2>3. /\ u + x = u /\ a + x = a /\ r + y = r /\ k + x = k /\ p - r - x - y = p
    BY <1>4, <2>2
  <2>4. BootStats(fs, x, y) = StatsOf(fs)  BY <1>1, <1>2, <2>3, Zenon
  <2> DEFINE z == StatsOf(fs)
  <2>5. z = [total |-> t, usable |-> u, allocated |-> a, reserved |-> r,
             kernel |-> k, poisoned |-> p]
    BY <1>1, Zenon DEF Record
  <2> HIDE DEF z
  <2>6. z.poisoned \in Nat /\ \A counter \in DOMAIN z : z[counter] >= 0  BY <2>5
  <2>7. QED  BY <2>4, <2>6 DEF z
<1>5. QED  BY <1>3, <1>4
-----------------------------------------------------------------------------
(* The steps.                                                              *)

LEMMA Infos == /\ PoisonedInfo # FreeInfo /\ PoisonedInfo # BootInfo /\ FreeInfo # BootInfo
               /\ PoisonedInfo # ReservedInfo /\ FreeInfo # ReservedInfo /\ BootInfo # ReservedInfo
               /\ ArrayInfo # ReservedInfo
<1>1. /\ "POISONED" \in PoisonedInfo.flags /\ "POISONED" \notin FreeInfo.flags
      /\ "POISONED" \notin BootInfo.flags /\ "FREE" \in FreeInfo.flags
      /\ "FREE" \notin BootInfo.flags /\ "RESERVED" \in ReservedInfo.flags
      /\ "RESERVED" \notin BootInfo.flags /\ "RESERVED" \notin PoisonedInfo.flags
      /\ "RESERVED" \notin FreeInfo.flags /\ "RESERVED" \notin ArrayInfo.flags
  BY InfoFlags
<1>2. QED  BY <1>1, Zenon

LEMMA InitOK == SetupInit => IInv
BY Zenon DEF SetupInit, IInv

\* Begin: all frames are poisoned, and counted as such.
LEMMA PoisonedStats ==
  ASSUME NEW last \in Nat
  PROVE  StatsOf([f \in 0 .. last - 1 |-> PoisonedInfo])
           = [NoStats EXCEPT !.poisoned = last, !.total = last]
<1> DEFINE fs == [f \in 0 .. last - 1 |-> PoisonedInfo]
<1>1. DOMAIN fs = 0 .. last - 1  OBVIOUS
<1>2. \A f \in 0 .. last - 1 : fs[f].flags = {"POISONED"}  BY InfoFlags
<1> HIDE DEF fs
<1>3. /\ With(fs, "POISONED") = 0 .. last - 1 /\ With(fs, "FREE") = {}
      /\ With(fs, "KERNEL") = {} /\ With(fs, "RESERVED") = {}
  BY <1>1, <1>2 DEF With
<1>4. Cardinality(0 .. last - 1) = last
  <2>1. Cardinality(0 .. last - 1) = IF 0 > last - 1 THEN 0 ELSE last - 1 - 0 + 1
    BY FS_Interval
  <2>2. QED  BY <2>1
<1>5. (0 .. last - 1) \ (0 .. last - 1) = {}  OBVIOUS
<1>6. Cardinality({}) = 0  BY FS_EmptySet
<1>7. StatsOf(fs) = Record(Cardinality(0 .. last - 1), Cardinality({}),
                           Cardinality({}) - Cardinality({}), Cardinality({}),
                           Cardinality({}), Cardinality(0 .. last - 1))
  BY <1>1, <1>3, <1>5, StatsFields, Zenon
<1>8. StatsOf(fs) = Record(last, 0, 0, 0, 0, last)  BY <1>4, <1>6, <1>7
<1>9. ASSUME NEW y, y = [NoStats EXCEPT !.poisoned = last, !.total = last]
      PROVE  y = [total |-> last, usable |-> 0, allocated |-> 0, reserved |-> 0,
                  kernel |-> 0, poisoned |-> last]
  BY <1>9, Zenon DEF NoStats
<1>10. QED  BY <1>8, <1>9, Zenon DEF fs, Record

LEMMA BeginOK == ASSUME IInv, Begin  PROVE IInv'
<1> DEFINE locations == ArrayLocations(mmap, Last)
<1>1. /\ mmap \in MemoryMaps /\ mmap' = mmap /\ pc = "begin" /\ entry' = entry
      /\ entry = 1 /\ stats = NoStats
  BY Zenon DEF IInv, Begin
<1>2. Last' = Last /\ ArrayLocations(mmap, Last)' = locations
  BY <1>1 DEF Last, ArrayLocations
<1>3. CASE locations = {}
  <2>1. pc' = "panic" /\ stats' = stats  BY <1>3, Zenon DEF Begin, Last
  <2>2. QED  BY <1>1, <1>2, <1>3, <2>1 DEF IInv
<1>4. CASE locations # {}
  <2>1. /\ home' = index(mmap[Min(locations)].base) /\ pc' = "entries"
        /\ frames' = [f \in 0 .. Last - 1 |-> PoisonedInfo]
        /\ stats' = [NoStats EXCEPT !.poisoned = Last, !.total = Last]
    BY <1>4, Zenon DEF Begin, Last
  <2>2. Last \in Nat /\ Len(mmap) \in Nat  BY <1>1, LastIs, MapEntry DEF Last
  <2>3. stats' = StatsOf(frames')  BY <2>1, <2>2, PoisonedStats, Zenon
  <2>4. frames' \in [0 .. Last - 1 -> LoopInfo]  BY <2>1 DEF LoopInfo
  <2>5. /\ \A f \in 0 .. Last - 1 : frames'[f] = PoisonedInfo
        /\ DOMAIN frames' = 0 .. Last - 1
    BY <2>1
  <2>6. entry \in 1 .. Len(mmap) + 1 /\ 1 .. entry - 1 = {}  BY <1>1, <2>2
  <2>7. stats' = BootStats(frames', 0, 0) /\ 0 \in Nat
    <3>1. IsFiniteSet(0 .. Last - 1)  BY <2>2, FS_Interval
    <3>2. QED  BY <2>3, <2>4, <2>5, <3>1, BootCounts, Infos, Zenon
  <2>10. Filled'
    BY <1>1, <1>2, <2>4, <2>5, <2>6, <2>7, Infos, Zenon DEF Filled
  <2>8. Placed'  BY <1>1, <1>2, <1>4, <2>1, Zenon DEF Placed
  <2>9. QED  BY <1>1, <2>1, <2>8, <2>10 DEF IInv
<1>5. QED  BY <1>3, <1>4, Zenon
\* What the loop finds in the frames of the entry it is at: those it has changed
\* are in an entry before, which neither shares a page with a usable or a
\* reclaimable entry nor, if each page is counted once, with any.
LEMMA EntryFinds ==
  ASSUME mmap \in MemoryMaps, Filled, entry \in 1 .. Len(mmap),
         NEW f \in 0 .. Last - 1, In(f, entry)
  PROVE  /\ mmap[entry].typ \in Whole => frames[f] = PoisonedInfo
         /\ mmap[entry].typ \notin Whole => frames[f] # FreeInfo
         /\ CountedOnce(mmap) /\ mmap[entry].typ \in {"KernelAndModules", "Reserved"} =>
              frames[f] = PoisonedInfo
<1>0. Last \in Nat /\ Len(mmap) \in Nat  BY LastIs, MapEntry DEF Last
<1>1. f \in Nat  BY <1>0
<1>2. ASSUME NEW d \in 1 .. entry - 1, mmap[d].typ \in RegularMemory, In(f, d)
      PROVE  /\ mmap[entry].typ \notin Whole
             /\ mmap[d].typ = "KernelAndModules"
             /\ ~(CountedOnce(mmap) /\ mmap[entry].typ \in {"KernelAndModules", "Reserved"})
  <2>1. d \in 1 .. Len(mmap) /\ d # entry /\ d < entry  BY <1>0
  <2>2. mmap[entry].typ \notin Whole  BY <1>1, <1>2, <2>1, Apart, Zenon
  <2>3. mmap[d].typ \notin Whole  BY <1>1, <1>2, <2>1, Apart, Zenon
  <2>4. mmap[d].typ = "KernelAndModules"  BY <1>2, <2>3 DEF RegularMemory, Whole
  <2>5. QED  BY <1>1, <1>2, <2>1, <2>2, <2>4, OnceApart, Zenon
<1>3. ASSUME frames[f] # PoisonedInfo
      PROVE  /\ mmap[entry].typ \notin Whole
             /\ ~(CountedOnce(mmap) /\ mmap[entry].typ \in {"KernelAndModules", "Reserved"})
  <2>1. PICK d \in 1 .. entry - 1 : mmap[d].typ \in RegularMemory /\ In(f, d)
    BY <1>3, Zenon DEF Filled
  <2>2. QED  BY <1>2, <2>1, Zenon
<1>4. frames[f] # FreeInfo \/ mmap[entry].typ \in Whole
  <2>1. SUFFICES ASSUME frames[f] = FreeInfo  PROVE FALSE  OBVIOUS
  <2>2. PICK d \in 1 .. entry - 1 : mmap[d].typ = "Usable" /\ In(f, d)
    BY <2>1, Zenon DEF Filled
  <2>3. mmap[d].typ \in RegularMemory /\ mmap[d].typ # "KernelAndModules"
    BY <2>2 DEF RegularMemory
  <2>4. QED  BY <1>2, <2>2, <2>3, Zenon
<1>5. QED  BY <1>3, <1>4, Zenon

\* The loop goes on, having changed frames of a usable entry, or of another.
LEMMA MarkFilled ==
  ASSUME mmap \in MemoryMaps, Filled, entry \in 1 .. Len(mmap), NEW info \in LoopInfo,
         NEW T \in SUBSET {f \in 0 .. Last - 1 : In(f, entry)},
         \/ /\ info = FreeInfo /\ mmap[entry].typ = "Usable"
            /\ T = {f \in 0 .. Last - 1 : In(f, entry)}
         \/ /\ info # FreeInfo /\ mmap[entry].typ # "Usable"
            /\ \A f \in T : frames[f] # FreeInfo,
         \A f \in T : /\ mmap[entry].typ \in RegularMemory \/ frames[f] # PoisonedInfo
                      /\ info = ReservedInfo => ~CountedOnce(mmap),
         frames' = Change(frames, T, info), entry' = entry + 1, mmap' = mmap,
         \E k, r \in Nat :
           stats' = BootStats(frames', k, r) /\ (CountedOnce(mmap) => k = 0 /\ r = 0)
  PROVE  Filled'
<1>0. Last \in Nat /\ Len(mmap) \in Nat  BY LastIs, MapEntry DEF Last
<1>1. /\ Last' = Last /\ (\A f, e : In(f, e)' <=> In(f, e))
      /\ CountedOnce(mmap)' <=> CountedOnce(mmap)
  BY DEF Last, In
<1>2. /\ entry' \in 1 .. Len(mmap) + 1 /\ entry' - 1 = entry /\ entry \in 1 .. entry
      /\ \A e : e \in 1 .. entry <=> e \in 1 .. entry - 1 \/ e = entry
  BY <1>0
<1>3. DOMAIN frames = 0 .. Last - 1 /\ \A f \in 0 .. Last - 1 : frames[f] \in LoopInfo
  BY DEF Filled
<1>4. frames' = [f \in 0 .. Last - 1 |-> IF f \in T THEN info ELSE frames[f]]
  BY <1>3, Zenon DEF Change
<1>5. frames' \in [0 .. Last - 1 -> LoopInfo]  BY <1>3, <1>4, Zenon
<1>6. ASSUME NEW f \in 0 .. Last - 1
      PROVE  /\ frames'[f] # PoisonedInfo =>
                  \E e \in 1 .. entry : mmap[e].typ \in RegularMemory /\ In(f, e)
             /\ frames'[f] = FreeInfo <=>
                  \E e \in 1 .. entry : mmap[e].typ = "Usable" /\ In(f, e)
             /\ frames'[f] = ReservedInfo => ~CountedOnce(mmap)
  <2>1. frames'[f] = IF f \in T THEN info ELSE frames[f]  BY <1>4
  <2>2. f \in T => In(f, entry)  OBVIOUS
  <2>3. /\ frames[f] # PoisonedInfo =>
             \E e \in 1 .. entry - 1 : mmap[e].typ \in RegularMemory /\ In(f, e)
        /\ frames[f] = FreeInfo <=>
             \E e \in 1 .. entry - 1 : mmap[e].typ = "Usable" /\ In(f, e)
        /\ frames[f] = ReservedInfo => ~CountedOnce(mmap)
    BY Zenon DEF Filled
  <2>4. frames'[f] # PoisonedInfo =>
          \E e \in 1 .. entry : mmap[e].typ \in RegularMemory /\ In(f, e)
    BY <1>2, <2>1, <2>2, <2>3, Zenon
  <2>5. frames'[f] = ReservedInfo => ~CountedOnce(mmap)  BY <2>1, <2>3, Zenon
  <2>6. frames'[f] = FreeInfo <=>
          \E e \in 1 .. entry : mmap[e].typ = "Usable" /\ In(f, e)
    <3>1. CASE mmap[entry].typ = "Usable"
      <4>1. f \in T <=> In(f, entry)  BY <3>1, Zenon
      <4>2. info = FreeInfo  BY <3>1, Zenon
      <4>3. QED  BY <1>2, <2>1, <2>3, <3>1, <4>1, <4>2, Zenon
    <3>2. CASE mmap[entry].typ # "Usable"
      <4>1. info # FreeInfo /\ (f \in T => frames[f] # FreeInfo)  BY <3>2, Zenon
      <4>2. QED  BY <1>2, <2>1, <2>3, <3>2, <4>1, Zenon
    <3>3. QED  BY <3>1, <3>2, Zenon
  <2>7. QED  BY <2>4, <2>5, <2>6, Zenon
<1>7. QED  BY <1>1, <1>2, <1>5, <1>6, Zenon DEF Filled

LEMMA FilledFinite ==
  ASSUME mmap \in MemoryMaps, Filled
  PROVE  DOMAIN frames = 0 .. Last - 1 /\ IsFiniteSet(DOMAIN frames)
<1>1. Last \in Nat /\ 0 \in Int /\ Last - 1 \in Int  BY LastIs DEF Last
<1>2. IsFiniteSet(0 .. Last - 1)  BY <1>1, FS_Interval
<1>3. DOMAIN frames = 0 .. Last - 1  BY DEF Filled
<1>4. QED  BY <1>2, <1>3

\* With each page counted once, the counters are exact.
LEMMA OnceExact ==
  ASSUME NEW fs, NEW st, NEW last \in Nat, fs \in [0 .. last - 1 -> LoopInfo \cup {ArrayInfo}],
         \A f \in 0 .. last - 1 : fs[f] # ReservedInfo, st = BootStats(fs, 0, 0)
  PROVE  /\ st = StatsOf(fs) /\ st.poisoned \in Nat
         /\ \A counter \in DOMAIN st : st[counter] >= 0
<1>1. IsFiniteSet(0 .. last - 1) /\ 0 \in Nat  BY FS_Interval
<1>2. DOMAIN fs = 0 .. last - 1 /\ \A f \in 0 .. last - 1 : fs[f] \in LoopInfo \cup {ArrayInfo}
  OBVIOUS
<1>3. QED  BY <1>1, <1>2, BootCounts

LEMMA EntryOK == ASSUME IInv, Entry  PROVE IInv'
<1> DEFINE e == mmap[entry]
           S == FramesOf(e)
           P == With(frames, "POISONED")
<1>1. /\ mmap \in MemoryMaps /\ Filled /\ Placed /\ pc = "entries" /\ entry <= Len(mmap)
      /\ entry' = entry + 1 /\ mmap' = mmap /\ home' = home /\ array' = array
  BY Zenon DEF IInv, Entry
<1>2. entry \in 1 .. Len(mmap)
  <2>1. Len(mmap) \in Nat /\ entry \in 1 .. Len(mmap) + 1  BY <1>1, MapEntry DEF Filled
  <2>2. QED  BY <1>1, <2>1
<1>3. /\ DOMAIN frames = 0 .. Last - 1 /\ IsFiniteSet(DOMAIN frames)
      /\ \A f \in DOMAIN frames : frames[f] \in LoopInfo
  BY <1>1, FilledFinite DEF Filled
<1>4. S = {f \in 0 .. Last - 1 : In(f, entry)}  BY <1>1, <1>2, <1>3, FramesOfIs, Zenon
<1>5. S \in SUBSET DOMAIN frames  BY <1>3, <1>4
<1>6. PICK k \in Nat, r \in Nat :
        stats = BootStats(frames, k, r) /\ (CountedOnce(mmap) => k = 0 /\ r = 0)
  BY <1>1, Zenon DEF Filled
<1>7. \A f \in S : /\ e.typ \in Whole => frames[f] = PoisonedInfo
                   /\ e.typ \notin Whole => frames[f] # FreeInfo
                   /\ CountedOnce(mmap) /\ e.typ \in {"KernelAndModules", "Reserved"} =>
                        frames[f] = PoisonedInfo
  BY <1>1, <1>2, <1>4, EntryFinds, Zenon
<1>8. \A f \in DOMAIN frames : f \in P <=> frames[f] = PoisonedInfo
  BY <1>3, InfoFlags DEF With, LoopInfo
<1>9. Cardinality({}) = 0  BY FS_EmptySet
<1>10. k + 0 = k /\ r + 0 = r  OBVIOUS
<1>11. Filled'
  <2>1. CASE e.typ = "Usable" /\ MarkUsable(S)
    <3>1. \A f \in S : frames[f] = PoisonedInfo  BY <1>7, <2>1 DEF Whole
    <3>2. frames' = Change(frames, S, FreeInfo)
      BY <1>5, <2>1, <3>1, FlagIs, Zenon DEF MarkUsable
    <3>3. stats' = AddUsable(stats, Cardinality(S))  BY <2>1, Zenon DEF MarkUsable, AddUsable
    <3>4. stats' = BootStats(frames', k, r)
      <4>1. S \in SUBSET S  OBVIOUS
      <4> HIDE DEF S
      <4>2. QED  BY <1>3, <1>5, <1>6, <3>1, <3>2, <3>3, <4>1, BootAdd, Zenon
    <3>5. FreeInfo \in LoopInfo /\ e.typ \in RegularMemory /\ FreeInfo # ReservedInfo
      BY <2>1, Infos DEF LoopInfo, RegularMemory
    <3>6. QED  BY <1>1, <1>2, <1>4, <1>6, <2>1, <3>2, <3>4, <3>5, MarkFilled, Zenon
  <2>2. CASE e.typ \in {"KernelAndModules", "BootloaderReclaimable"} /\ MarkKernel(S)
    <3> DEFINE T == S \cap P
               m == Cardinality(S \ T)
    <3>1. \A f \in S : frames[f] \in {PoisonedInfo, BootInfo, ReservedInfo}
      <4>1. \A f \in S : frames[f] # FreeInfo  BY <1>7, <2>2, Infos, Zenon
      <4>2. QED  BY <1>3, <1>5, <4>1 DEF LoopInfo
    <3>2. frames' = Change(frames, T, BootInfo)
      BY <1>5, <2>2, <3>1, FlagIs, Zenon DEF MarkKernel
    <3>3. stats' = AddKernel(stats, Cardinality(S))  BY <2>2, Zenon DEF MarkKernel, AddKernel
    <3>4. T \in SUBSET S /\ \A f \in T : frames[f] = PoisonedInfo  BY <1>5, <1>8, Zenon
    <3>5. CountedOnce(mmap) => S \ T = {}
      <4>1. CountedOnce(mmap) => \A f \in S : frames[f] = PoisonedInfo
        BY <1>7, <2>2 DEF Whole
      <4>2. QED  BY <1>5, <1>8, <4>1, Zenon
    <3> HIDE DEF T
    <3>6. m \in Nat /\ stats' = BootStats(frames', k + m, r)
      BY <1>3, <1>5, <1>6, <3>2, <3>3, <3>4, BootAdd, Zenon
    <3>7. k + m \in Nat /\ (CountedOnce(mmap) => k + m = 0 /\ r = 0)
      <4>1. CountedOnce(mmap) => m = 0  BY <1>9, <3>5, Zenon
      <4> HIDE DEF m
      <4>2. QED  BY <1>6, <3>6, <4>1
    <3>8. /\ BootInfo \in LoopInfo /\ e.typ \in RegularMemory /\ e.typ # "Usable"
          /\ BootInfo # ReservedInfo /\ BootInfo # FreeInfo
      BY <2>2, Infos DEF LoopInfo, RegularMemory
    <3>9. \A f \in T : frames[f] # FreeInfo  BY <3>4, Infos, Zenon
    <3>10. \E x, y \in Nat :
             stats' = BootStats(frames', x, y) /\ (CountedOnce(mmap) => x = 0 /\ y = 0)
      BY <3>6, <3>7, Zenon
    <3>11. QED  BY <1>1, <1>2, <1>4, <3>2, <3>4, <3>8, <3>9, <3>10, MarkFilled, Zenon
  <2>3. CASE e.typ = "BadMemory" /\ UNCHANGED <<frames, stats>>
    <3>1. frames' = Change(frames, {}, BootInfo)
      <4>1. frames = [f \in DOMAIN frames |-> frames[f]]  BY <1>1 DEF Filled
      <4>2. QED  BY <2>3, <4>1, Zenon DEF Change
    <3>2. /\ BootInfo \in LoopInfo /\ e.typ # "Usable" /\ BootInfo # FreeInfo
      BY <2>3, Infos DEF LoopInfo
    <3>3. \E x, y \in Nat :
            stats' = BootStats(frames', x, y) /\ (CountedOnce(mmap) => x = 0 /\ y = 0)
      BY <1>6, <2>3, Zenon
    <3>4. {} \in SUBSET {f \in 0 .. Last - 1 : In(f, entry)}  OBVIOUS
    <3>5. QED  BY <1>1, <1>2, <3>1, <3>2, <3>3, <3>4, MarkFilled
  <2>4. CASE e.typ = "Reserved" /\ MarkReserved(S)
    <3> DEFINE C == S \ P
               R == With(frames, "RESERVED")
               T == C \ R
               m == Cardinality(C \ T)
    <3>1. \A f \in C : frames[f] \in {BootInfo, ReservedInfo}
      <4>1. \A f \in C : frames[f] # FreeInfo /\ frames[f] # PoisonedInfo
        <5>1. e.typ \notin Whole  BY <2>4 DEF Whole
        <5>2. QED  BY <1>5, <1>7, <1>8, <5>1, Zenon
      <4>2. QED  BY <1>3, <1>5, <4>1 DEF LoopInfo
    <3>2. C \in SUBSET DOMAIN frames /\ C \in SUBSET S  BY <1>5, Zenon
    <3>3. frames' = Change(frames, T, ReservedInfo)
      BY <2>4, <3>1, <3>2, FlagIs, Zenon DEF MarkReserved
    <3>4. stats' = AddReserved(stats, Cardinality(C))
      BY <2>4, Zenon DEF MarkReserved, AddReserved
    <3>5. T \in SUBSET C /\ \A f \in T : frames[f] = BootInfo
      <4>1. \A f \in DOMAIN frames : frames[f] = ReservedInfo => f \in R
        BY InfoFlags DEF With
      <4>2. QED  BY <3>1, <3>2, <4>1, Zenon
    <3>6. CountedOnce(mmap) => C = {}
      <4>1. CountedOnce(mmap) => \A f \in S : frames[f] = PoisonedInfo  BY <1>7, <2>4, Zenon
      <4>2. QED  BY <1>5, <1>8, <4>1, Zenon
    <3> HIDE DEF C, T
    <3>7. m \in Nat /\ stats' = BootStats(frames', k, r + m)
      <4>1. AddReserved(BootStats(frames, k, r), Cardinality(C))
              = BootStats(Change(frames, T, ReservedInfo), k, r + m) /\ m \in Nat
        <5>1. /\ IsFiniteSet(DOMAIN frames) /\ C \in SUBSET DOMAIN frames /\ T \in SUBSET C
              /\ \A f \in DOMAIN frames : frames[f] \in LoopInfo
          BY <1>3, <3>2, <3>5, Zenon
        <5>2. \A f \in T : frames[f] = BootInfo  BY <3>5, Zenon
        <5> HIDE DEF S, P, R, e
        <5>3. Cardinality(C \ T) \in Nat  BY <5>1, <5>2, BootReserve, Zenon
        <5>4. AddReserved(BootStats(frames, k, r), Cardinality(C))
                = BootStats(Change(frames, T, ReservedInfo), k, r + Cardinality(C \ T))
          BY <5>1, <5>2, BootReserve
        <5>5. QED  BY <5>3, <5>4, Zenon
      <4>2. QED  BY <1>6, <3>3, <3>4, <4>1, Zenon
    <3>8. r + m \in Nat /\ (CountedOnce(mmap) => k = 0 /\ r + m = 0)
      <4>1. CountedOnce(mmap) => C \ T = {}  BY <3>6, Zenon
      <4>2. CountedOnce(mmap) => m = 0  BY <1>9, <4>1, Zenon
      <4> HIDE DEF m
      <4>3. QED  BY <1>6, <3>7, <4>2
    <3>9. /\ ReservedInfo \in LoopInfo /\ e.typ # "Usable" /\ ReservedInfo # FreeInfo
          /\ BootInfo # FreeInfo /\ BootInfo # PoisonedInfo
      BY <2>4, Infos DEF LoopInfo
    <3>10. \A f \in T : /\ frames[f] # FreeInfo /\ frames[f] # PoisonedInfo
                        /\ ~CountedOnce(mmap)
      BY <3>5, <3>6, <3>9, Zenon
    <3>11. T \in SUBSET S  BY <3>2, <3>5, Zenon
    <3>12. \E x, y \in Nat :
             stats' = BootStats(frames', x, y) /\ (CountedOnce(mmap) => x = 0 /\ y = 0)
      BY <3>7, <3>8, Zenon
    <3>13. QED  BY <1>1, <1>2, <1>4, <3>3, <3>9, <3>10, <3>11, <3>12, MarkFilled, Zenon
  <2>5. QED  BY <2>1, <2>2, <2>3, <2>4, Zenon DEF Entry
<1>12. Placed'  BY <1>1, Zenon DEF Placed, Last
<1>13. pc' \in IF stats'.poisoned < 0 THEN {"entries", "overflow"} ELSE {"entries"}
  BY Zenon DEF Entry
<1>14. CountedOnce(mmap) => stats'.poisoned \in Nat
  <2>1. Last' = Last /\ Last \in Nat  BY <1>1, LastIs DEF Last
  <2>2. SUFFICES ASSUME CountedOnce(mmap)  PROVE stats'.poisoned \in Nat  OBVIOUS
  <2>3. /\ frames' \in [0 .. Last - 1 -> LoopInfo]
        /\ \A f \in 0 .. Last - 1 : frames'[f] # ReservedInfo
        /\ stats' = BootStats(frames', 0, 0)
    BY <1>1, <1>11, <2>1, <2>2, Zenon DEF Filled
  <2>4. frames' \in [0 .. Last - 1 -> LoopInfo \cup {ArrayInfo}]  BY <2>3
  <2>5. QED  BY <2>1, <2>3, <2>4, OnceExact, Zenon
<1>15. CASE pc' = "entries"  BY <1>1, <1>11, <1>12, <1>15 DEF IInv
<1>16. CASE pc' = "overflow"
  <2>1. ~CountedOnce(mmap)
    <3>1. stats'.poisoned \in Nat => ~(stats'.poisoned < 0)  OBVIOUS
    <3>2. stats'.poisoned < 0  BY <1>13, <1>16
    <3>3. QED  BY <1>14, <3>1, <3>2, Zenon
  <2>2. QED  BY <1>1, <1>16, <2>1 DEF IInv
<1>17. QED  BY <1>13, <1>15, <1>16

\* The range marked for the array is inside the region chosen for it: setup
\* computes it from the size of a Frame, a third of what it made room for.
LEMMA ArrayRoom ==
  ASSUME mmap \in MemoryMaps, Placed, DOMAIN frames = 0 .. Last - 1
  PROVE  /\ \E e \in 1 .. Len(mmap) :
              /\ mmap[e].typ = "Usable"
              /\ \A f \in ArrayRange : f \in 0 .. Last - 1 /\ In(f, e)
         /\ \E b \in ArrayRange : home \in ArrayRange /\ home <= b /\ ArrayRange = home .. b
<1> DEFINE L == ArrayLocations(mmap, Last)
           e == Min(L)
           x == Last * SizeFrame
           q == index(x)
           a == index(mmap[e].base)
           b == index(End(mmap[e]))
           d == b - a
<1>1. Last \in Nat /\ Len(mmap) \in Nat /\ DOMAIN mmap = 1 .. Len(mmap)
  BY LastIs, MapEntry DEF Last
<1>2. e \in 1 .. Len(mmap) /\ mmap[e].typ = "Usable" /\ mmap[e].len >= Last * SizeFrameInfo
  <2>1. L \in SUBSET Nat /\ L # {}  BY <1>1 DEF ArrayLocations, Placed
  <2>2. e \in L
    <3> HIDE DEF L
    <3>1. QED  BY <2>1, MinIn, Zenon
  <2>3. QED  BY <1>1, <2>2, Zenon DEF ArrayLocations
<1> HIDE DEF e
<1>3. /\ a \in Nat /\ b \in Nat /\ a < b /\ mmap[e].len = d * PageSize
      /\ b <= Last
  <2>1. mmap[e].typ \in RegularMemory  BY <1>2 DEF RegularMemory
  <2>2. mmap[e].typ \in Whole  BY <1>2 DEF Whole
  <2>3. QED  BY <1>2, <2>1, <2>2, WholeEntry, LastIs, Zenon DEF Last
<1>4. home = a  BY Zenon DEF Placed, e
<1>5. x \in Nat /\ Last * SizeFrameInfo = 3 * x  BY <1>1, Sizes
<1>6. Cardinality(DOMAIN frames) = Last
  <2>1. Cardinality(0 .. Last - 1) = IF 0 > Last - 1 THEN 0 ELSE Last - 1 - 0 + 1
    BY <1>1, FS_Interval
  <2>2. QED  BY <1>1, <2>1
<1>7. ArrayRange = a .. a + q  BY <1>4, <1>6, Zenon DEF ArrayRange, index
<1> HIDE DEF a, b
<1>8. d \in Nat /\ d # 0  BY <1>3
<1> HIDE DEF d, x
<1>9. q \in Nat /\ q * PageSize <= x /\ q * PageSize \in Nat  BY <1>5, Sizes DEF index
<1>10. x = 0 => q = 0  BY Sizes DEF index
<1> HIDE DEF q
<1>11. q < d
  <2>1. SUFFICES ASSUME d <= q  PROVE FALSE  BY <1>8, <1>9
  <2>2. d * PageSize <= q * PageSize  BY <1>8, <1>9, <2>1, Times
  <2>3. d * PageSize >= 3 * x /\ d * PageSize \in Nat  BY <1>2, <1>3, <1>5, <1>8, Sizes, IndexTimes
  <2>4. x = 0  BY <1>5, <1>9, <2>2, <2>3
  <2>5. QED  BY <1>8, <1>9, <1>10, <2>1, <2>4
<1>12. a + q \in Nat /\ a <= a + q /\ a + q < b /\ a + q < Last  BY <1>3, <1>9, <1>11, <1>1 DEF d
<1>13. ASSUME NEW f \in ArrayRange  PROVE f \in 0 .. Last - 1 /\ In(f, e)
  <2>1. f \in 0 .. Last - 1 /\ a <= f /\ f < b  BY <1>1, <1>3, <1>7, <1>12
  <2>2. QED  BY <2>1 DEF In, a, b
<1>14. a + q \in ArrayRange /\ a \in ArrayRange  BY <1>3, <1>7, <1>12
<1>15. QED  BY <1>2, <1>4, <1>7, <1>12, <1>13, <1>14, Zenon
\* The frames of a usable entry are the pages that are in it.
LEMMA UsablePages ==
  ASSUME mmap \in MemoryMaps, NEW e \in 1 .. Len(mmap), mmap[e].typ = "Usable", NEW f \in Nat
  PROVE  In(f, e) <=> mmap[e].base <= f * PageSize /\ (f + 1) * PageSize <= End(mmap[e])
<1> DEFINE a == index(mmap[e].base)
           b == index(End(mmap[e]))
<1>1. mmap[e].typ \in Whole  BY DEF Whole
<1>2. a \in Nat /\ b \in Nat /\ mmap[e].base = a * PageSize /\ End(mmap[e]) = b * PageSize
  BY <1>1, WholeEntry, Zenon
<1>3. In(f, e) <=> a <= f /\ f < b  BY DEF In
<1> HIDE DEF a, b
<1>4. In(f, e) <=> a <= f /\ f + 1 <= b  BY <1>2, <1>3
<1>5. f + 1 \in Nat  OBVIOUS
<1>6. (a <= f <=> a * PageSize <= f * PageSize)
      /\ (f + 1 <= b <=> (f + 1) * PageSize <= b * PageSize)
  BY <1>2, <1>5, Times
<1>7. QED  BY <1>2, <1>4, <1>6, Zenon

LEMMA MarkArrayOK == ASSUME IInv, MarkArray  PROVE IInv'
<1> DEFINE A == ArrayRange
<1>1. /\ mmap \in MemoryMaps /\ Filled /\ Placed /\ entry > Len(mmap)
      /\ mmap' = mmap /\ array' = A /\ pc' = IF A \subseteq DOMAIN frames THEN "done" ELSE "panic"
      /\ frames' = Flag(A, {"FREE"}, {"KERNEL"}, 0)
      /\ stats' = AddArray(stats, Cardinality(A))
  BY Zenon DEF IInv, MarkArray, AddArray
<1>2. Last \in Nat /\ Len(mmap) \in Nat /\ DOMAIN mmap = 1 .. Len(mmap)
  BY <1>1, LastIs, MapEntry DEF Last
<1>3. entry - 1 = Len(mmap)
  <2>1. entry \in 1 .. Len(mmap) + 1  BY <1>1, Zenon DEF Filled
  <2>2. QED  BY <1>1, <1>2, <2>1
<1>4. DOMAIN frames = 0 .. Last - 1 /\ IsFiniteSet(DOMAIN frames)
  BY <1>1, FilledFinite, Zenon
<1>5. \A f \in 0 .. Last - 1 :
        /\ frames[f] \in LoopInfo
        /\ frames[f] = ReservedInfo => ~CountedOnce(mmap)
        /\ frames[f] = FreeInfo <=>
             \E e \in 1 .. Len(mmap) : mmap[e].typ = "Usable" /\ In(f, e)
  BY <1>1, <1>3, Zenon DEF Filled
<1>6. PICK h \in 1 .. Len(mmap) :
        /\ mmap[h].typ = "Usable"
        /\ \A f \in A : f \in 0 .. Last - 1 /\ In(f, h)
  BY <1>1, <1>4, ArrayRoom, Zenon
<1>7. PICK z \in A : home \in A /\ home <= z /\ A = home .. z  BY <1>1, <1>4, ArrayRoom, Zenon
<1> HIDE DEF A
<1>8. A \in SUBSET DOMAIN frames /\ \A f \in A : frames[f] = FreeInfo
  BY <1>4, <1>5, <1>6, Zenon
<1>9. pc' = "done"  BY <1>1, <1>8
<1>10. frames' = Change(frames, A, ArrayInfo)  BY <1>1, <1>8, FlagIs, Zenon
<1>11. PICK k \in Nat, r \in Nat :
         stats' = BootStats(frames', k, r) /\ (CountedOnce(mmap) => k = 0 /\ r = 0)
  <2>1. PICK k \in Nat, r \in Nat :
          stats = BootStats(frames, k, r) /\ (CountedOnce(mmap) => k = 0 /\ r = 0)
    BY <1>1, Zenon DEF Filled
  <2>2. A \in SUBSET A /\ \A f \in DOMAIN frames : frames[f] \in LoopInfo  BY <1>4, <1>5
  <2>3. AddArray(BootStats(frames, k, r), Cardinality(A)) = BootStats(frames', k, r)
    BY <1>4, <1>8, <1>10, <2>2, BootAdd, Zenon
  <2>4. QED  BY <1>1, <2>1, <2>3, Zenon
<1>12. /\ DOMAIN frames' = 0 .. Last - 1
       /\ \A f \in 0 .. Last - 1 : frames'[f] = IF f \in A THEN ArrayInfo ELSE frames[f]
  BY <1>4, <1>10 DEF Change
<1>13. frames' \in [0 .. Last - 1 -> LoopInfo \cup {ArrayInfo}]
  <2>1. frames' = [f \in 0 .. Last - 1 |-> IF f \in A THEN ArrayInfo ELSE frames[f]]
    BY <1>4, <1>10, Zenon DEF Change
  <2>2. QED  BY <1>5, <2>1
<1>15. BootState(frames, stats, array)'
  <2>1. ASSUME NEW f \in 0 .. Last - 1
        PROVE  frames'[f] \in IF f \in A THEN {ArrayInfo}
                              ELSE {PoisonedInfo, FreeInfo, BootInfo, ReservedInfo}
    BY <1>5, <1>12 DEF LoopInfo
  <2>2. home \in DOMAIN frames' /\ z \in DOMAIN frames'  BY <1>4, <1>7, <1>8, <1>12
  <2>3. IsFiniteSet(DOMAIN frames') /\ \A f \in DOMAIN frames' : frames'[f] \in LoopInfo \cup {ArrayInfo}
    BY <1>4, <1>12, <1>13
  <2>4. /\ stats'.usable - StatsOf(frames').usable = k
        /\ stats'.reserved - StatsOf(frames').reserved = r
    BY <1>11, <2>3, BootCounts
  <2>5. LET x == stats'.usable - StatsOf(frames').usable
            y == stats'.reserved - StatsOf(frames').reserved
        IN  x \in Nat /\ y \in Nat /\ stats' = BootStats(frames', x, y)
    BY <1>11, <2>4, Zenon
  <2>6. QED  BY <1>1, <1>7, <1>12, <2>1, <2>2, <2>5, Zenon DEF BootState
<1>16. CountedOnce(mmap) => Exact'
  <2>1. SUFFICES ASSUME CountedOnce(mmap)  PROVE Exact'  OBVIOUS
  <2>2. \A f \in 0 .. Last - 1 : frames'[f] # ReservedInfo  BY <1>5, <1>12, <2>1, Infos, Zenon
  <2>3. stats' = BootStats(frames', 0, 0)  BY <1>11, <2>1, Zenon
  <2>4. QED  BY <1>2, <1>13, <2>2, <2>3, OnceExact, Zenon DEF Exact
<1>14. FreeIsUsable'
  <2>1. With(frames', "FREE") = With(frames, "FREE") \ A
    BY <1>8, <1>10, WithChange, InfoFlags
  <2>2. ASSUME NEW f \in 0 .. Last - 1
        PROVE  f \in With(frames, "FREE") <=>
                 \E e \in DOMAIN mmap : /\ mmap[e].typ = "Usable"
                                        /\ mmap[e].base <= f * PageSize
                                        /\ (f + 1) * PageSize <= End(mmap[e])
    <3>1. f \in With(frames, "FREE") <=> frames[f] = FreeInfo
      <4>1. frames[f] \in LoopInfo  BY <1>5
      <4>2. QED  BY <1>4, <4>1, InfoFlags DEF With, LoopInfo
    <3>2. f \in Nat  BY <1>2
    <3>3. QED  BY <1>1, <1>2, <1>5, <3>1, <3>2, UsablePages, Zenon
  <2>3. With(frames, "FREE") \in SUBSET (0 .. Last - 1)  BY <1>4 DEF With
  <2>4. With(frames', "FREE") =
          {f \in 0 .. Last - 1 :
             \E e \in DOMAIN mmap : /\ mmap[e].typ = "Usable"
                                    /\ mmap[e].base <= f * PageSize
                                    /\ (f + 1) * PageSize <= End(mmap[e])} \ A
    BY <2>1, <2>2, <2>3, Zenon
  <2>5. QED  BY <1>1, <1>12, <2>4, Zenon DEF FreeIsUsable
<1>17. QED  BY <1>1, <1>9, <1>14, <1>15, <1>16 DEF IInv
-----------------------------------------------------------------------------
(* The theorems.                                                           *)

LEMMA NextOK == ASSUME IInv, [SetupNext]_setupVars  PROVE IInv'
<1>1. CASE UNCHANGED setupVars
  <2>1. /\ mmap' = mmap /\ pc' = pc /\ entry' = entry /\ frames' = frames /\ stats' = stats
        /\ home' = home /\ array' = array
    BY <1>1 DEF setupVars
  <2>2. /\ Last' = Last /\ Filled' = Filled /\ Placed' = Placed
        /\ FreeIsUsable' = FreeIsUsable /\ Exact' = Exact
    BY <2>1 DEF Last, Filled, Placed, FreeIsUsable, Exact, In
  <2>3. QED  BY <2>1, <2>2 DEF IInv
<1>2. QED  BY <1>1, BeginOK, EntryOK, MarkArrayOK, Zenon DEF SetupNext, Finished

\* The loops of setup keep what they are meant to keep.
THEOREM Inductive == SetupSpec => []IInv
<1>1. IInv /\ [SetupNext]_setupVars => IInv'  BY NextOK, Zenon
<1>2. QED  BY InitOK, <1>1, PTL DEF SetupSpec

\* Whatever the memory map, also when entries of the kernel and reserved ones
\* overlap, what State::setup hands over is a state the allocator is specified to
\* start from; and if each page is counted once, every counter of Stats equals
\* what it counts, and none goes below zero while the loops add and subtract.
THEOREM ContractHolds == SetupSpec => []SetupContract
<1>1. IInv => SetupContract
  <2>1. SUFFICES ASSUME IInv, pc = "entries", CountedOnce(mmap)  PROVE Exact
    <3>1. ASSUME IInv, pc \in {"entries", "done"}, CountedOnce(mmap)  PROVE Exact
      BY <2>1, <3>1, Zenon DEF IInv
    <3>2. QED  BY <3>1, Zenon DEF IInv, SetupContract, Exact
  <2>2. mmap \in MemoryMaps /\ Filled  BY <2>1, Zenon DEF IInv
  <2>3. Last \in Nat  BY <2>2, LastIs DEF Last
  <2>4. /\ frames \in [0 .. Last - 1 -> LoopInfo] /\ stats = BootStats(frames, 0, 0)
        /\ \A f \in 0 .. Last - 1 : frames[f] # ReservedInfo
    BY <2>1, <2>2, Zenon DEF Filled
  <2>5. frames \in [0 .. Last - 1 -> LoopInfo \cup {ArrayInfo}]  BY <2>4
  <2>6. QED  BY <2>3, <2>4, <2>5, OnceExact, Zenon DEF Exact
<1>2. QED  BY Inductive, <1>1, PTL

\* Whatever the memory map, the frames State::setup leaves free are the pages of
\* its usable entries but those it marks for the array.
THEOREM FreeHolds == SetupSpec => []FreeIsUsable
<1>1. IInv => FreeIsUsable  BY Zenon DEF IInv, FreeIsUsable
<1>2. QED  BY Inductive, <1>1, PTL

\* State::setup panics when no usable entry has room for the array, and in no
\* other case: the range it marks for the array never leaves the array.
THEOREM PanicHolds == SetupSpec => []PanicOnlyWithoutRoom
<1>1. IInv => PanicOnlyWithoutRoom  BY Zenon DEF IInv, PanicOnlyWithoutRoom, Last
<1>2. QED  BY Inductive, <1>1, PTL

=============================================================================
