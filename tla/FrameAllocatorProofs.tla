------------------------ MODULE FrameAllocatorProofs ------------------------
(***************************************************************************)
(* Proofs about FrameAllocator, for every number of frames, every finite   *)
(* set of holders and every bound on the reference count: its counts and   *)
(* flags, how its statistics follow them whatever setup has left in them,  *)
(* and the pool it implements.                                             *)
(***************************************************************************)
EXTENDS FrameAllocator, FiniteSetTheorems, TLAPS

-----------------------------------------------------------------------------
(* The inductive invariant.                                                *)

\* The types, without the bounds that only follow from the rest.
Types ==
  /\ frames \in [Frames -> [flags : SUBSET FrameFlag, count : 0 .. MaxCount]]
  /\ array \in SUBSET Frames
  /\ held \in [Holders -> SUBSET Frames]
  /\ halted \in {"no", "index out of bounds", "count overflow",
                 "not allocated", "deallocated too many times"}

\* The flag FREE excludes POISONED and KERNEL.
FreeIsClean ==
  \A f \in Frames : "FREE" \in frames[f].flags =>
    "POISONED" \notin frames[f].flags /\ "KERNEL" \notin frames[f].flags

\* What FreeExact says, frame by frame, and that the frames which can never
\* be granted have no holder.
FrameOK(f) ==
  /\ frames[f].count = Cardinality(Refs(f))
  /\ "FREE" \in frames[f].flags
       <=> f \notin array /\ "POISONED" \notin frames[f].flags /\ Refs(f) = {}
  /\ Refs(f) # {} => f \notin array /\ "POISONED" \notin frames[f].flags

IInv ==
  /\ Types
  /\ FreeIsClean
  /\ halted = "no" => \A f \in Frames : FrameOK(f)

-----------------------------------------------------------------------------
(* Counting.                                                               *)

\* Any set of frames is finite.
LEMMA FramesFinite == ASSUME NEW S \in SUBSET Frames
                      PROVE  IsFiniteSet(S) /\ Cardinality(S) \in Nat
<1>1. IsFiniteSet(Frames)
  BY FS_Interval, NAssumption DEF Frames
<1>. QED BY <1>1, FS_Subset, FS_CardinalityType

\* So is any set of holders.
LEMMA HoldersFinite == ASSUME NEW S \in SUBSET Holders
                       PROVE  IsFiniteSet(S) /\ Cardinality(S) \in Nat
<1>1. IsFiniteSet(Holders)
  BY FS_AddElement, HoldersAssumption DEF Holders
<1>. QED BY <1>1, FS_Subset, FS_CardinalityType

\* Disjoint sets add up.
LEMMA DisjointUnion == ASSUME NEW S \in SUBSET Frames, NEW T \in SUBSET Frames,
                              S \cap T = {}
                       PROVE  Cardinality(S \cup T) = Cardinality(S) + Cardinality(T)
<1>1. IsFiniteSet(S) /\ IsFiniteSet(T) /\ Cardinality(S) \in Nat /\ Cardinality(T) \in Nat
  BY FramesFinite
<1>2. Cardinality(S \cup T) = Cardinality(S) + Cardinality(T) - Cardinality(S \cap T)
  BY <1>1, FS_Union
<1>3. Cardinality(S \cap T) = 0
  BY FS_EmptySet
<1>. QED BY <1>1, <1>2, <1>3

\* release leaves zero exactly when the count was one.
LEMMA OneLess == \A n \in Nat : n = 1 <=> n - 1 = 0
OBVIOUS

\* Taking a subset away subtracts its size.
LEMMA SubsetDifference == ASSUME NEW S \in SUBSET Frames, NEW T \in SUBSET S
                          PROVE  Cardinality(S \ T) = Cardinality(S) - Cardinality(T)
<1>1. S \cap T = T
  OBVIOUS
<1>2. IsFiniteSet(S)
  BY FramesFinite
<1>3. Cardinality(S \ T) = Cardinality(S) - Cardinality(S \cap T)
  BY <1>2, FS_Difference
<1>. QED BY <1>1, <1>3

-----------------------------------------------------------------------------
(* The statistics, as a function of the flags.                             *)

\* The counters of BootStats, from the sets they count.
LEMMA BootRecord ==
  ASSUME NEW fs, NEW x, NEW y, NEW P, NEW F, NEW K, NEW R, DOMAIN fs = Frames,
         With(fs, "POISONED") = P, With(fs, "FREE") = F,
         With(fs, "KERNEL") = K, With(fs, "RESERVED") = R
  PROVE  /\ BootStats(fs, x, y) =
              [total     |-> Cardinality(Frames),
               usable    |-> Cardinality(Frames \ P) + x,
               allocated |-> Cardinality(Frames \ P) - Cardinality(F) + x,
               reserved  |-> Cardinality(R) + y,
               kernel    |-> Cardinality(K) + x,
               poisoned  |-> Cardinality(P) - Cardinality(R) - x - y]
         /\ StatsOf(fs) =
              [total     |-> Cardinality(Frames),
               usable    |-> Cardinality(Frames \ P),
               allocated |-> Cardinality(Frames \ P) - Cardinality(F),
               reserved  |-> Cardinality(R),
               kernel    |-> Cardinality(K),
               poisoned  |-> Cardinality(P)]
<1>. DEFINE s == StatsOf(fs)
<1>1. s = [total |-> Cardinality(Frames), usable |-> Cardinality(Frames \ P),
           allocated |-> Cardinality(Frames \ P) - Cardinality(F),
           reserved |-> Cardinality(R), kernel |-> Cardinality(K),
           poisoned |-> Cardinality(P)]
  BY Zenon DEF StatsOf
<1>2. BootStats(fs, x, y) =
        [total |-> s.total, usable |-> s.usable + x, allocated |-> s.allocated + x,
         reserved |-> s.reserved + y, kernel |-> s.kernel + x,
         poisoned |-> s.poisoned - s.reserved - x - y]
  BY Zenon DEF BootStats
<1>. HIDE DEF s
<1>3. /\ s.total = Cardinality(Frames) /\ s.usable = Cardinality(Frames \ P)
      /\ s.allocated = Cardinality(Frames \ P) - Cardinality(F)
      /\ s.reserved = Cardinality(R) /\ s.kernel = Cardinality(K)
      /\ s.poisoned = Cardinality(P)
  BY <1>1
<1>4. BootStats(fs, x, y) =
        [total |-> Cardinality(Frames), usable |-> Cardinality(Frames \ P) + x,
         allocated |-> Cardinality(Frames \ P) - Cardinality(F) + x,
         reserved |-> Cardinality(R) + y, kernel |-> Cardinality(K) + x,
         poisoned |-> Cardinality(P) - Cardinality(R) - x - y]
  BY <1>2, <1>3, Zenon
<1>. QED BY <1>1, <1>4, Zenon DEF s

\* Handing out free frames: what Take does to the flags and the counters.
LEMMA TakeStats ==
  ASSUME Types, FreeIsClean, NEW x \in Nat, NEW y \in Nat, stats = BootStats(frames, x, y),
         NEW S \in SUBSET FREE, NEW kernel \in BOOLEAN, Take(S, kernel)
  PROVE  /\ stats' = BootStats(frames', x, y)
         /\ With(frames', "RESERVED") = With(frames, "RESERVED")
<1>. DEFINE P == With(frames, "POISONED")
            K == With(frames, "KERNEL")
<1>1. DOMAIN frames = Frames /\ DOMAIN frames' = Frames
  BY Zenon DEF Types, Take
<1>2. P \in SUBSET Frames /\ K \in SUBSET Frames /\ FREE \in SUBSET Frames
  BY <1>1 DEF With, FREE
<1>3. With(frames', "POISONED") = P /\ With(frames', "RESERVED") = With(frames, "RESERVED")
  BY <1>1, Zenon DEF With, Take, Taken, retain, Types
<1>4. With(frames', "FREE") = FREE \ S
  BY <1>1, Zenon DEF With, FREE, Take, Taken, retain, Types
<1>5. With(frames', "KERNEL") = IF kernel THEN K \cup S ELSE K
  BY <1>1, <1>2, Zenon DEF With, Take, Taken, retain, Types
<1>6. S \cap K = {}
  BY <1>1 DEF With, FREE, FreeIsClean
<1>7. Cardinality(K \cup S) = Cardinality(K) + Cardinality(S)
  BY <1>2, <1>6, DisjointUnion
<1>8. Cardinality(FREE \ S) = Cardinality(FREE) - Cardinality(S)
  BY <1>2, SubsetDifference
<1>9. /\ Cardinality(S) \in Nat /\ Cardinality(FREE) \in Nat
      /\ Cardinality(K) \in Nat /\ Cardinality(Frames \ P) \in Nat
  BY <1>2, FramesFinite
<1>10. stats = [total     |-> Cardinality(Frames),
                usable    |-> Cardinality(Frames \ P) + x,
                allocated |-> Cardinality(Frames \ P) - Cardinality(FREE) + x,
                reserved  |-> Cardinality(With(frames, "RESERVED")) + y,
                kernel    |-> Cardinality(K) + x,
                poisoned  |-> Cardinality(P) - Cardinality(With(frames, "RESERVED")) - x - y]
  BY <1>1, BootRecord DEF FREE
<1>11. BootStats(frames', x, y) =
         [total     |-> Cardinality(Frames),
          usable    |-> Cardinality(Frames \ P) + x,
          allocated |-> Cardinality(Frames \ P) - Cardinality(FREE \ S) + x,
          reserved  |-> Cardinality(With(frames, "RESERVED")) + y,
          kernel    |-> Cardinality(IF kernel THEN K \cup S ELSE K) + x,
          poisoned  |-> Cardinality(P) - Cardinality(With(frames, "RESERVED")) - x - y]
  BY <1>1, <1>3, <1>4, <1>5, Zenon DEF BootStats, StatsOf
<1>. HIDE DEF P, K
<1>12. /\ stats.allocated + Cardinality(S)
            = Cardinality(Frames \ P) - Cardinality(FREE \ S) + x
       /\ (IF kernel THEN stats.kernel + Cardinality(S) ELSE stats.kernel)
            = Cardinality(IF kernel THEN K \cup S ELSE K) + x
  BY <1>7, <1>8, <1>9, <1>10
<1>13. stats' = [total     |-> stats.total,
                 usable    |-> stats.usable,
                 allocated |-> stats.allocated + Cardinality(S),
                 reserved  |-> stats.reserved,
                 kernel    |-> IF kernel THEN stats.kernel + Cardinality(S) ELSE stats.kernel,
                 poisoned  |-> stats.poisoned]
  BY <1>10, Zenon DEF Take
<1>14. stats' = BootStats(frames', x, y)
  BY <1>10, <1>11, <1>12, <1>13
<1>. QED BY <1>3, <1>14, Zenon

\* Giving references back: what Drop does to the flags and the counters.
LEMMA DropStats ==
  ASSUME Types, NEW x \in Nat, NEW y \in Nat, stats = BootStats(frames, x, y),
         NEW S \in SUBSET (Frames \ FREE), \A f \in S : frames[f].count > 0, Drop(S)
  PROVE  /\ stats' = BootStats(frames', x, y)
         /\ With(frames', "RESERVED") = With(frames, "RESERVED")
<1>. DEFINE P == With(frames, "POISONED")
            K == With(frames, "KERNEL")
            D == {f \in S : frames[f].count = 1}
            n == Cardinality(D)
            k == Cardinality(D \cap K)
<1>1. DOMAIN frames = Frames /\ DOMAIN frames' = Frames
  BY Zenon DEF Types, Drop
<1>2. /\ P \in SUBSET Frames /\ K \in SUBSET Frames /\ FREE \in SUBSET Frames
      /\ D \in SUBSET Frames /\ D \cap FREE = {} /\ D \cap K \in SUBSET K
  BY <1>1 DEF With, FREE
<1>3. \A f \in Frames :
        frames'[f].flags = IF f \in D THEN (frames[f].flags \ {"KERNEL"}) \cup {"FREE"}
                                      ELSE frames[f].flags
  <2>. SUFFICES ASSUME NEW f \in Frames
       PROVE frames'[f].flags = IF f \in D THEN (frames[f].flags \ {"KERNEL"}) \cup {"FREE"}
                                          ELSE frames[f].flags
    OBVIOUS
  <2>1. frames[f] \in [flags : SUBSET FrameFlag, count : 0 .. MaxCount] /\ MaxCount \in Nat
    BY MaxAssumption, Zenon DEF Types
  <2>2. frames'[f] = IF f \in S THEN Dropped(frames[f]) ELSE frames[f]
    BY DEF Drop
  <2>3. CASE f \in D
    BY <2>1, <2>2, <2>3 DEF Dropped, release
  <2>4. CASE f \in S \ D
    BY <2>1, <2>2, <2>4 DEF Dropped, release
  <2>5. CASE f \notin S
    BY <2>2, <2>5
  <2>. QED BY <2>3, <2>4, <2>5
<1>. HIDE DEF D
<1>3a. ASSUME NEW f \in Frames
      PROVE  /\ "POISONED" \in frames'[f].flags <=> "POISONED" \in frames[f].flags
             /\ "RESERVED" \in frames'[f].flags <=> "RESERVED" \in frames[f].flags
             /\ "FREE" \in frames'[f].flags <=> "FREE" \in frames[f].flags \/ f \in D
             /\ "KERNEL" \in frames'[f].flags <=> "KERNEL" \in frames[f].flags /\ f \notin D
  <2>1. CASE f \in D
    <3>1. frames'[f].flags = (frames[f].flags \ {"KERNEL"}) \cup {"FREE"}
      BY <1>3, <2>1, Zenon
    <3>. QED BY <3>1, <2>1
  <2>2. CASE f \notin D
    BY <1>3, <2>2, Zenon
  <2>. QED BY <2>1, <2>2
<1>4. With(frames', "POISONED") = P /\ With(frames', "RESERVED") = With(frames, "RESERVED")
  BY <1>1, <1>3a DEF With
<1>5. With(frames', "FREE") = FREE \cup D
  BY <1>1, <1>2, <1>3a DEF With, FREE
<1>6. With(frames', "KERNEL") = K \ (D \cap K)
  BY <1>1, <1>3a DEF With
<1>7. Cardinality(FREE \cup D) = Cardinality(FREE) + n
  BY <1>2, DisjointUnion
<1>8. Cardinality(K \ (D \cap K)) = Cardinality(K) - k
  BY <1>2, SubsetDifference
<1>9. /\ n \in Nat /\ k \in Nat
      /\ Cardinality(FREE) \in Nat
      /\ Cardinality(K) \in Nat /\ Cardinality(Frames \ P) \in Nat
  BY <1>2, FramesFinite
<1>10. stats = [total     |-> Cardinality(Frames),
                usable    |-> Cardinality(Frames \ P) + x,
                allocated |-> Cardinality(Frames \ P) - Cardinality(FREE) + x,
                reserved  |-> Cardinality(With(frames, "RESERVED")) + y,
                kernel    |-> Cardinality(K) + x,
                poisoned  |-> Cardinality(P) - Cardinality(With(frames, "RESERVED")) - x - y]
  BY <1>1, BootRecord DEF FREE
<1>11. BootStats(frames', x, y) =
         [total     |-> Cardinality(Frames),
          usable    |-> Cardinality(Frames \ P) + x,
          allocated |-> Cardinality(Frames \ P) - Cardinality(FREE \cup D) + x,
          reserved  |-> Cardinality(With(frames, "RESERVED")) + y,
          kernel    |-> Cardinality(K \ (D \cap K)) + x,
          poisoned  |-> Cardinality(P) - Cardinality(With(frames, "RESERVED")) - x - y]
  BY <1>1, <1>4, <1>5, <1>6, Zenon DEF BootStats, StatsOf
<1>12. stats' = [stats EXCEPT !.allocated = @ - n, !.kernel = @ - k]
  BY DEF Drop, D
<1>. HIDE DEF P, K, n, k
<1>13. stats' = [total     |-> stats.total,
                 usable    |-> stats.usable,
                 allocated |-> stats.allocated - n,
                 reserved  |-> stats.reserved,
                 kernel    |-> stats.kernel - k,
                 poisoned  |-> stats.poisoned]
  BY <1>10, <1>12, Zenon
<1>14. /\ stats.allocated - n = Cardinality(Frames \ P) - Cardinality(FREE \cup D) + x
       /\ stats.kernel - k = Cardinality(K \ (D \cap K)) + x
  BY <1>7, <1>8, <1>9, <1>10
<1>15. stats' = BootStats(frames', x, y)
  BY <1>10, <1>11, <1>13, <1>14
<1>. QED BY <1>4, <1>15, Zenon

-----------------------------------------------------------------------------
(* The references.                                                         *)

\* The holders of a frame can be counted.
LEMMA RefsType == ASSUME NEW f PROVE IsFiniteSet(Refs(f)) /\ Cardinality(Refs(f)) \in Nat
BY HoldersFinite DEF Refs

\* A holder that takes the frames of S.
LEMMA RefsAdd ==
  ASSUME Types, NEW h \in Holders, NEW S \in SUBSET Frames,
         held' = [held EXCEPT ![h] = @ \cup S], NEW f
  PROVE  Refs(f)' = IF f \in S THEN Refs(f) \cup {h} ELSE Refs(f)
BY Zenon DEF Refs, Types

\* A holder that gives back the frames of S.
LEMMA RefsRemove ==
  ASSUME Types, NEW h \in Holders, NEW S \in SUBSET held[h],
         held' = [held EXCEPT ![h] = @ \ S], NEW f
  PROVE  Refs(f)' = IF f \in S THEN Refs(f) \ {h} ELSE Refs(f)
BY Zenon DEF Refs, Types

\* While the kernel runs, free frames have no references, and the frames a
\* holder has are referenced and not free.
LEMMA FreeAndHeld ==
  ASSUME IInv, halted = "no"
  PROVE  /\ \A f \in FREE : f \in Frames /\ frames[f].count = 0 /\ Refs(f) = {}
         /\ \A h \in Holders : \A f \in held[h] :
              f \in Frames \ FREE /\ frames[f].count > 0 /\ h \in Refs(f)
<1>1. ASSUME NEW f \in FREE PROVE f \in Frames /\ Refs(f) = {} /\ frames[f].count = 0
  BY <1>1, FS_EmptySet, Zenon DEF FREE, With, IInv, FrameOK, Types
<1>2. ASSUME NEW h \in Holders, NEW f \in held[h]
      PROVE  f \in Frames \ FREE /\ frames[f].count > 0 /\ h \in Refs(f)
  <2>1. f \in Frames /\ h \in Refs(f)
    BY DEF IInv, Types, Refs
  <2>2. f \notin FREE
    BY <2>1, <1>1
  <2>3. Cardinality(Refs(f)) # 0
    BY <2>1, RefsType, FS_EmptySet
  <2>. QED BY <2>1, <2>2, <2>3, RefsType DEF IInv, FrameOK
<1>. QED BY <1>1, <1>2

-----------------------------------------------------------------------------
(* What the two bulk updates do to each frame.                             *)

InfoType == [flags : SUBSET FrameFlag, count : 0 .. MaxCount]

\* Take on a set of free frames keeps the types and the flags consistent.
LEMMA TakeFrames ==
  ASSUME IInv, halted = "no",
         NEW S \in SUBSET FREE, NEW kernel \in BOOLEAN, Take(S, kernel)
  PROVE  /\ frames' \in [Frames -> InfoType]
         /\ FreeIsClean'
         /\ \A f \in Frames :
              /\ frames'[f].count = IF f \in S THEN 1 ELSE frames[f].count
              /\ "POISONED" \in frames'[f].flags <=> "POISONED" \in frames[f].flags
              /\ "FREE" \in frames'[f].flags <=> "FREE" \in frames[f].flags /\ f \notin S
<1>1. ASSUME NEW f \in Frames
      PROVE  /\ frames'[f] \in InfoType
             /\ frames'[f].count = IF f \in S THEN 1 ELSE frames[f].count
             /\ "POISONED" \in frames'[f].flags <=> "POISONED" \in frames[f].flags
             /\ "FREE" \in frames'[f].flags <=> "FREE" \in frames[f].flags /\ f \notin S
             /\ "FREE" \in frames'[f].flags =>
                  "POISONED" \notin frames'[f].flags /\ "KERNEL" \notin frames'[f].flags
  <2>1. frames[f] \in InfoType
    BY DEF IInv, Types, InfoType
  <2>2. CASE f \notin S
    <3>1. frames'[f] = frames[f]
      BY <2>2 DEF Take
    <3>. QED BY <3>1, <2>1, <2>2 DEF IInv, FreeIsClean
  <2>3. CASE f \in S
    <3>1. frames[f].count = 0
      BY <2>3, FreeAndHeld
    <3>2. frames'[f] = Taken(frames[f], kernel)
      BY <2>3 DEF Take
    <3>. DEFINE fl == (frames[f].flags \cup (IF kernel THEN {"KERNEL"} ELSE {})) \ {"FREE"}
    <3>3. Taken(frames[f], kernel) = [flags |-> fl, count |-> 1]
      BY <2>1, <3>1 DEF Taken, retain, InfoType
    <3>4. fl \in SUBSET FrameFlag
      BY <2>1 DEF InfoType, FrameFlag
    <3>5. "FREE" \notin fl /\ ("POISONED" \in fl <=> "POISONED" \in frames[f].flags)
      BY <2>1
    <3>6. 1 \in 0 .. MaxCount
      BY MaxAssumption
    <3>. HIDE DEF fl
    <3>. QED BY <3>2, <3>3, <3>4, <3>5, <3>6, <2>3 DEF InfoType
  <2>. QED BY <2>2, <2>3
<1>2. frames' \in [Frames -> InfoType]
  BY <1>1 DEF Take
<1>. QED BY <1>1, <1>2 DEF FreeIsClean

\* Drop on a set of referenced frames does as well.
LEMMA DropFrames ==
  ASSUME IInv, halted = "no", NEW h \in Holders, NEW S \in SUBSET held[h], Drop(S)
  PROVE  /\ frames' \in [Frames -> InfoType]
         /\ FreeIsClean'
         /\ \A f \in Frames :
              /\ frames'[f].count = IF f \in S THEN frames[f].count - 1 ELSE frames[f].count
              /\ "POISONED" \in frames'[f].flags <=> "POISONED" \in frames[f].flags
              /\ "FREE" \in frames'[f].flags <=>
                   "FREE" \in frames[f].flags \/ (f \in S /\ frames[f].count = 1)
<1>1. ASSUME NEW f \in Frames
      PROVE  /\ frames'[f] \in InfoType
             /\ frames'[f].count = IF f \in S THEN frames[f].count - 1 ELSE frames[f].count
             /\ "POISONED" \in frames'[f].flags <=> "POISONED" \in frames[f].flags
             /\ "FREE" \in frames'[f].flags <=>
                  "FREE" \in frames[f].flags \/ (f \in S /\ frames[f].count = 1)
             /\ "FREE" \in frames'[f].flags =>
                  "POISONED" \notin frames'[f].flags /\ "KERNEL" \notin frames'[f].flags
  <2>1. frames[f] \in InfoType
    BY DEF IInv, Types, InfoType
  <2>2. CASE f \notin S
    <3>1. frames'[f] = frames[f]
      BY <2>2 DEF Drop
    <3>. QED BY <3>1, <2>1, <2>2 DEF IInv, FreeIsClean
  <2>3. CASE f \in S
    <3>1. frames[f].count > 0 /\ "FREE" \notin frames[f].flags /\ Refs(f) # {}
      BY <2>3, FreeAndHeld DEF FREE, With, IInv, Types
    <3>2. "POISONED" \notin frames[f].flags
      BY <3>1 DEF IInv, FrameOK
    <3>3. frames'[f] = Dropped(frames[f])
      BY <2>3 DEF Drop
    <3>. DEFINE n == frames[f].count - 1
                fl == IF n = 0 THEN (frames[f].flags \ {"KERNEL"}) \cup {"FREE"}
                               ELSE frames[f].flags
    <3>4. frames[f].count \in Nat /\ n \in 0 .. MaxCount /\ (n = 0 <=> frames[f].count = 1)
      BY <2>1, <3>1, MaxAssumption DEF InfoType
    <3>5. Dropped(frames[f]) = [flags |-> fl, count |-> n]
      BY <2>1, Zenon DEF Dropped, release, InfoType
    <3>6. /\ fl \in SUBSET FrameFlag /\ "POISONED" \notin fl
          /\ "FREE" \in fl <=> n = 0
          /\ "FREE" \in fl => "KERNEL" \notin fl
      BY <2>1, <3>1, <3>2 DEF InfoType, FrameFlag
    <3>7. n = frames[f].count - 1
      OBVIOUS
    <3>. HIDE DEF fl, n
    <3>. QED BY <3>1, <3>2, <3>3, <3>4, <3>5, <3>6, <3>7, <2>3 DEF InfoType
  <2>. QED BY <2>2, <2>3
<1>2. frames' \in [Frames -> InfoType]
  BY <1>1 DEF Drop
<1>. QED BY <1>1, <1>2 DEF FreeIsClean

-----------------------------------------------------------------------------
(* The invariant is inductive.                                             *)

\* The frames that change hands in the two directions, seen from FrameOK.
LEMMA TakeOK ==
  ASSUME IInv, halted = "no", NEW h \in Holders,
         NEW S \in SUBSET FREE, NEW kernel \in BOOLEAN, Take(S, kernel),
         held' = [held EXCEPT ![h] = @ \cup S], UNCHANGED <<array, halted>>
  PROVE  IInv'
<1>0. S \in SUBSET Frames
  BY DEF FREE, With, IInv, Types
<1>1. Types'
  BY <1>0, TakeFrames, Zenon DEF IInv, Types, InfoType
<1>1a. \A f \in Frames :
         /\ frames'[f].count = IF f \in S THEN 1 ELSE frames[f].count
         /\ "POISONED" \in frames'[f].flags <=> "POISONED" \in frames[f].flags
         /\ "FREE" \in frames'[f].flags <=> "FREE" \in frames[f].flags /\ f \notin S
  BY TakeFrames
<1>2. ASSUME NEW f \in Frames PROVE FrameOK(f)'
  <2>1. Refs(f)' = IF f \in S THEN Refs(f) \cup {h} ELSE Refs(f)
    BY <1>0, RefsAdd, Zenon DEF IInv
  <2>2. /\ frames'[f].count = IF f \in S THEN 1 ELSE frames[f].count
        /\ "POISONED" \in frames'[f].flags <=> "POISONED" \in frames[f].flags
        /\ "FREE" \in frames'[f].flags <=> "FREE" \in frames[f].flags /\ f \notin S
    BY <1>1a
  <2>3. FrameOK(f)
    BY DEF IInv
  <2>4. CASE f \in S
    <3>1. Refs(f) = {} /\ "FREE" \in frames[f].flags
      BY <2>4, FreeAndHeld DEF FREE, With
    <3>2. Refs(f)' = {h} /\ Cardinality({h}) = 1
      BY <2>1, <2>4, <3>1, FS_Singleton, Zenon
    <3>. QED BY <2>2, <2>3, <2>4, <3>1, <3>2 DEF FrameOK
  <2>5. CASE f \notin S
    BY <2>1, <2>2, <2>3, <2>5 DEF FrameOK
  <2>. QED BY <2>4, <2>5
<1>. QED BY <1>1, <1>2, TakeFrames DEF IInv

\* The other direction: a holder gives back frames it has.
LEMMA DropOK ==
  ASSUME IInv, halted = "no", NEW h \in Holders, NEW S \in SUBSET held[h], Drop(S),
         held' = [held EXCEPT ![h] = @ \ S], array' = array,
         halted' \in {"no", "deallocated too many times"}
  PROVE  IInv'
<1>1. Types'
  BY DropFrames, Zenon DEF IInv, Types, InfoType
<1>2. ASSUME NEW f \in Frames PROVE FrameOK(f)'
  <2>1. Refs(f)' = IF f \in S THEN Refs(f) \ {h} ELSE Refs(f)
    BY RefsRemove, Zenon DEF IInv
  <2>2. /\ frames'[f].count = IF f \in S THEN frames[f].count - 1 ELSE frames[f].count
        /\ "POISONED" \in frames'[f].flags <=> "POISONED" \in frames[f].flags
        /\ "FREE" \in frames'[f].flags <=>
             "FREE" \in frames[f].flags \/ (f \in S /\ frames[f].count = 1)
    BY DropFrames, Zenon
  <2>3. FrameOK(f)
    BY Zenon DEF IInv
  <2>4. CASE f \in S
    <3>0. f \in Frames \ FREE /\ h \in Refs(f) /\ DOMAIN frames = Frames
      BY <2>4, FreeAndHeld, Zenon DEF IInv, Types
    <3>1. h \in Refs(f) /\ "FREE" \notin frames[f].flags
      BY <3>0, Zenon DEF FREE, With
    <3>. DEFINE R == Refs(f) \ {h}
    <3>2. Cardinality(R) = Cardinality(Refs(f)) - 1 /\ IsFiniteSet(R)
      BY <3>1, RefsType, FS_RemoveElement, Zenon
    <3>3. Cardinality(R) = 0 <=> R = {}
      BY <3>2, FS_EmptySet, Zenon
    <3>4. Cardinality(Refs(f)) \in Nat /\ frames[f].count = Cardinality(Refs(f))
      BY <2>3, RefsType, Zenon DEF FrameOK
    <3>5. Refs(f)' = R
      BY <2>1, <2>4, Zenon
    <3>. HIDE DEF R
    <3>6. frames[f].count = 1 <=> Cardinality(R) = 0
      BY <3>2, <3>4, OneLess, Zenon
    <3>7. frames[f].count = 1 <=> R = {}
      BY <3>3, <3>6, Zenon
    <3>. QED BY <2>2, <2>3, <2>4, <3>1, <3>2, <3>4, <3>5, <3>7, Zenon DEF FrameOK
  <2>5. CASE f \notin S
    BY <2>1, <2>2, <2>3, <2>5, Zenon DEF FrameOK
  <2>. QED BY <2>4, <2>5, Zenon
<1>. QED BY <1>1, <1>2, DropFrames, Zenon DEF IInv

\* A stuttering step, and a panic that leaves everything as it was.
LEMMA StutterOK == ASSUME IInv, UNCHANGED vars PROVE IInv'
BY Zenon DEF vars, IInv, Types, FreeIsClean, FrameOK, Refs

\* A panic that only sets halted.
LEMMA HaltOK ==
  ASSUME IInv, UNCHANGED <<frames, array, stats, held>>,
         halted' \in {"count overflow", "not allocated", "deallocated too many times"}
  PROVE  IInv'
BY Zenon DEF IInv, Types, FreeIsClean

\* One more reference to one frame.
LEMMA ReferenceOK ==
  ASSUME IInv, NEW h \in Holders, NEW g \in Frames,
         frames[g].count > 0, frames[g].count < MaxCount, g \notin held[h],
         frames' = [frames EXCEPT ![g] = retain(@)],
         held' = [held EXCEPT ![h] = @ \cup {g}],
         UNCHANGED <<array, stats, halted>>, halted = "no"
  PROVE  IInv'
<1>1. ASSUME NEW f \in Frames
      PROVE  /\ frames'[f] \in InfoType
             /\ frames'[f].flags = frames[f].flags
             /\ frames'[f].count = IF f = g THEN frames[f].count + 1 ELSE frames[f].count
  <2>1. frames[f] \in InfoType /\ f \in DOMAIN frames
    BY DEF IInv, Types, InfoType
  <2>2. CASE f = g
    BY <2>1, <2>2, MaxAssumption DEF retain, InfoType
  <2>3. CASE f # g
    BY <2>1, <2>3
  <2>. QED BY <2>2, <2>3
<1>2. frames' \in [Frames -> InfoType]
  BY <1>1 DEF IInv, Types
<1>3. Types'
  BY <1>2 DEF IInv, Types, InfoType
<1>5. ASSUME NEW f \in Frames PROVE FrameOK(f)'
  <2>1. Refs(f)' = IF f = g THEN Refs(f) \cup {h} ELSE Refs(f)
    BY DEF Refs, IInv, Types
  <2>2. FrameOK(f)
    BY DEF IInv
  <2>3. CASE f = g
    <3>1. h \notin Refs(f)
      BY <2>3 DEF Refs
    <3>2. Cardinality(Refs(f) \cup {h}) = Cardinality(Refs(f)) + 1
      BY <3>1, RefsType, FS_AddElement, Zenon
    <3>3. Refs(f) # {}
      <4>1. Cardinality({}) = 0
        BY FS_EmptySet
      <4>2. frames[f].count = Cardinality(Refs(f))
        BY <2>2 DEF FrameOK
      <4>. QED BY <2>3, <4>1, <4>2
    <3>. QED BY <2>1, <2>2, <2>3, <3>2, <3>3, <1>1 DEF FrameOK
  <2>4. CASE f # g
    BY <2>1, <2>2, <2>4, <1>1 DEF FrameOK
  <2>. QED BY <2>3, <2>4
<1>. QED BY <1>1, <1>3, <1>5 DEF IInv, FreeIsClean

\* Every state setup can leave satisfies the invariant.
LEMMA InitOK == Init => IInv
<1>. SUFFICES ASSUME Init PROVE IInv
  OBVIOUS
<1>0. \A f \in Frames : frames[f] \in {PoisonedInfo, FreeInfo, BootInfo, ReservedInfo, ArrayInfo}
  BY DEF Init
<1>1. Types
  <2>1. {PoisonedInfo, FreeInfo, BootInfo, ReservedInfo, ArrayInfo} \subseteq InfoType
    BY MaxAssumption
    DEF PoisonedInfo, FreeInfo, BootInfo, ReservedInfo, ArrayInfo, InfoType, FrameFlag
  <2>. QED BY <2>1 DEF Init, BootHeld, Types, InfoType, Holders
<1>2. FreeIsClean
  BY <1>0 DEF FreeIsClean, PoisonedInfo, FreeInfo, BootInfo, ReservedInfo, ArrayInfo
<1>3. ASSUME NEW f \in Frames PROVE FrameOK(f)
  <2>1. Refs(f) = IF frames[f].count = 1 THEN {Boot} ELSE {}
    BY DEF Init, BootHeld, Refs, Holders
  <2>2. Cardinality({}) = 0 /\ Cardinality({Boot}) = 1
    BY FS_EmptySet, FS_Singleton, Zenon
  <2>3. f \in array <=> frames[f] = ArrayInfo
    BY DEF Init
  <2>4. CASE frames[f] \in {PoisonedInfo, FreeInfo}
    BY <2>1, <2>2, <2>3, <2>4 DEF FrameOK, PoisonedInfo, FreeInfo, ArrayInfo
  <2>5. CASE frames[f] \in {BootInfo, ReservedInfo}
    BY <2>1, <2>2, <2>3, <2>5 DEF FrameOK, BootInfo, ReservedInfo, ArrayInfo
  <2>6. CASE frames[f] = ArrayInfo
    BY <2>1, <2>2, <2>3, <2>6 DEF FrameOK, ArrayInfo
  <2>. QED BY <1>0, <2>4, <2>5, <2>6
<1>. QED BY <1>1, <1>2, <1>3 DEF IInv

\* Each action preserves the invariant.
LEMMA NextOK == IInv /\ [Next]_vars => IInv'
<1>. SUFFICES ASSUME IInv, [Next]_vars PROVE IInv'
  OBVIOUS
<1>. Handles \subseteq Holders
  BY DEF Holders
<1>1. ASSUME NEW h \in Handles, NEW kernel \in BOOLEAN, Allocate(h, kernel)
      PROVE  IInv'
  <2>1. CASE UNCHANGED vars
    BY <2>1, StutterOK
  <2>2. CASE ~UNCHANGED vars
    <3>1. PICK f \in FREE : /\ Take({f}, kernel)
                            /\ held' = [held EXCEPT ![h] = @ \cup {f}]
                            /\ UNCHANGED <<array, halted>>
      BY <1>1, <2>2, Zenon DEF Allocate
    <3>2. halted = "no"
      BY <1>1 DEF Allocate
    <3>. QED BY <3>1, <3>2, TakeOK, Zenon
  <2>. QED BY <2>1, <2>2
<1>2. ASSUME NEW h \in Handles, NEW kernel \in BOOLEAN, NEW count \in 0 .. MaxRange,
             AllocateRange(h, count, kernel)
      PROVE  IInv'
  <2>1. CASE UNCHANGED vars
    BY <2>1, StutterOK
  <2>2. CASE ~UNCHANGED vars
    <3>1. PICK i \in 0 .. N :
            /\ Fits(i, count)
            /\ Take(i .. (i + count - 1), kernel)
            /\ IF i + count < N
               THEN /\ held' = [held EXCEPT ![h] = @ \cup i .. (i + count - 1)]
                    /\ UNCHANGED halted
               ELSE /\ halted' = "index out of bounds"
                    /\ UNCHANGED held
            /\ UNCHANGED array
      BY <1>2, <2>2, Zenon DEF AllocateRange
    <3>2. halted = "no"
      BY <1>2, Zenon DEF AllocateRange
    <3>. DEFINE S == i .. (i + count - 1)
    <3>3. S \in SUBSET FREE
      BY <3>1, Zenon DEF Fits
    <3>. HIDE DEF S
    <3>4. CASE i + count < N
      <4>1. Take(S, kernel) /\ held' = [held EXCEPT ![h] = @ \cup S] /\ UNCHANGED <<array, halted>>
        BY <3>1, <3>4 DEF S
      <4>. QED BY <4>1, <3>2, <3>3, TakeOK, Zenon
    <3>5. CASE ~(i + count < N)
      <4>1. Take(S, kernel) /\ halted' = "index out of bounds" /\ UNCHANGED <<array, held>>
        BY <3>1, <3>5, Zenon DEF S
      <4>2. Types'
        BY <4>1, <3>2, <3>3, TakeFrames, Zenon DEF IInv, Types, InfoType
      <4>. QED BY <4>1, <4>2, <3>2, <3>3, TakeFrames, Zenon DEF IInv
    <3>. QED BY <3>4, <3>5
  <2>. QED BY <2>1, <2>2
<1>3. ASSUME NEW h \in Handles, NEW f \in Frames \cup {Outside}, Reference(h, f)
      PROVE  IInv'
  <2>1. CASE halted' # "no"
    <3>1. /\ UNCHANGED <<frames, array, stats, held>>
          /\ halted' \in {"count overflow", "not allocated"}
      BY <1>3, <2>1, Zenon DEF Reference
    <3>. QED BY <3>1, HaltOK, Zenon
  <2>2. CASE halted' = "no"
    <3>1. /\ f \in Frames /\ frames[f].count > 0 /\ frames[f].count < MaxCount
          /\ f \notin held[h]
          /\ frames' = [frames EXCEPT ![f] = retain(@)]
          /\ held' = [held EXCEPT ![h] = @ \cup {f}]
          /\ UNCHANGED <<array, stats, halted>>
      BY <1>3, <2>2 DEF Reference, Referenced
    <3>. QED BY <3>1, <2>2, ReferenceOK, Zenon
  <2>. QED BY <2>1, <2>2
<1>4. ASSUME NEW h \in Handles, NEW f \in Frames \cup {Outside}, Deallocate(h, f)
      PROVE  IInv'
  <2>1. CASE halted' # "no"
    <3>1. /\ UNCHANGED <<frames, array, stats, held>>
          /\ halted' = "deallocated too many times"
      BY <1>4, <2>1, Zenon DEF Deallocate
    <3>. QED BY <3>1, HaltOK, Zenon
  <2>2. CASE halted' = "no"
    <3>1. /\ halted = "no" /\ f \in held[h] /\ Drop({f})
          /\ held' = [held EXCEPT ![h] = @ \ {f}]
          /\ array' = array
      BY <1>4, <2>2 DEF Deallocate
    <3>. QED BY <3>1, <2>2, DropOK, Zenon
  <2>. QED BY <2>1, <2>2
<1>5. ASSUME NEW h \in Handles, NEW a \in 0 .. Outside + 1, NEW b \in 0 .. Outside + 1,
             DeallocateRange(h, a, b)
      PROVE  IInv'
  BY <1>5, DropOK, Zenon DEF DeallocateRange
<1>6. CASE Halted \/ UNCHANGED vars
  BY <1>6, StutterOK DEF Halted
<1>. QED BY <1>1, <1>2, <1>3, <1>4, <1>5, <1>6 DEF Next

-----------------------------------------------------------------------------
(* The theorems.                                                           *)

\* The invariant holds of every behaviour.
LEMMA Inductive == Spec => []IInv
BY InitOK, NextOK, PTL DEF Spec

\* The reference count of every frame is the number of its holders.
THEOREM CountsHold == Spec => []RefCountExact
<1>1. IInv => RefCountExact
  BY DEF IInv, RefCountExact, FrameOK
<1>. QED BY <1>1, Inductive, PTL

\* Exactly the usable frames nobody holds are free: none is handed out while
\* it is in use, and none is lost.
THEOREM FreeHolds == Spec => []FreeExact
<1>1. IInv => FreeExact
  <2>. SUFFICES ASSUME IInv, halted = "no", NEW f \in Frames
       PROVE  f \in FREE <=> f \notin (With(frames, "POISONED") \cup array
                                         \cup UNION {held[h] : h \in Holders})
    BY DEF FreeExact, FREE, With, IInv, Types
  <2>1. f \in FREE <=> "FREE" \in frames[f].flags
    BY DEF FREE, With, IInv, Types
  <2>2. f \in With(frames, "POISONED") <=> "POISONED" \in frames[f].flags
    BY DEF With, IInv, Types
  <2>3. f \in UNION {held[h] : h \in Holders} <=> Refs(f) # {}
    BY DEF Refs
  <2>. QED BY <2>1, <2>2, <2>3 DEF IInv, FrameOK
<1>. QED BY <1>1, Inductive, PTL

-----------------------------------------------------------------------------
(* What a step does to the array and to the statistics.                    *)

\* One more reference: no flag changes, and no counter.
Retain(g) == frames' = [frames EXCEPT ![g] = retain(@)] /\ stats' = stats

\* Every step takes free frames, drops references, adds one, or does nothing.
LEMMA Moves ==
  ASSUME IInv, [Next]_vars
  PROVE  /\ array' = array
         /\ \/ UNCHANGED <<frames, stats>>
            \/ halted = "no" /\ \E S \in SUBSET FREE, kernel \in BOOLEAN : Take(S, kernel)
            \/ halted = "no" /\ \E h \in Holders : \E S \in SUBSET held[h] : Drop(S)
            \/ \E g \in Frames : Retain(g)
<1>. DEFINE Goal ==
       /\ array' = array
       /\ \/ UNCHANGED <<frames, stats>>
          \/ halted = "no" /\ \E S \in SUBSET FREE, kernel \in BOOLEAN : Take(S, kernel)
          \/ halted = "no" /\ \E h \in Holders : \E S \in SUBSET held[h] : Drop(S)
          \/ \E g \in Frames : Retain(g)
<1>. Handles \subseteq Holders
  BY DEF Holders
<1>1. CASE UNCHANGED vars
  BY <1>1 DEF vars
<1>2. ASSUME NEW h \in Handles, NEW kernel \in BOOLEAN, Allocate(h, kernel)
      PROVE  Goal
  <2>1. CASE UNCHANGED vars
    BY <1>1, <2>1, Zenon
  <2>2. CASE ~UNCHANGED vars
    <3>1. PICK f \in FREE : Take({f}, kernel) /\ array' = array /\ halted = "no"
      BY <1>2, <2>2 DEF Allocate
    <3>2. {f} \in SUBSET FREE
      OBVIOUS
    <3>. QED BY <3>1, <3>2, Zenon
  <2>. QED BY <2>1, <2>2
<1>3. ASSUME NEW h \in Handles, NEW kernel \in BOOLEAN, NEW count \in 0 .. MaxRange,
             AllocateRange(h, count, kernel)
      PROVE  Goal
  <2>1. CASE UNCHANGED vars
    BY <1>1, <2>1, Zenon
  <2>2. CASE ~UNCHANGED vars
    <3>1. PICK i \in 0 .. N : /\ Fits(i, count) /\ array' = array /\ halted = "no"
                              /\ Take(i .. (i + count - 1), kernel)
      BY <1>3, <2>2, Zenon DEF AllocateRange
    <3>2. i .. (i + count - 1) \in SUBSET FREE
      BY <3>1, Zenon DEF Fits
    <3>. QED BY <3>1, <3>2, Zenon
  <2>. QED BY <2>1, <2>2
<1>4. ASSUME NEW h \in Handles, NEW f \in Frames \cup {Outside}, Reference(h, f)
      PROVE  Goal
  BY <1>4, Zenon DEF Reference, Referenced, Retain
<1>5. ASSUME NEW h \in Handles, NEW f \in Frames \cup {Outside}, Deallocate(h, f)
      PROVE  Goal
  BY <1>5, Zenon DEF Deallocate
<1>6. ASSUME NEW h \in Handles, NEW a \in 0 .. Outside + 1, NEW b \in 0 .. Outside + 1,
             DeallocateRange(h, a, b)
      PROVE  Goal
  BY <1>6, Zenon DEF DeallocateRange
<1>7. CASE Halted
  BY <1>7, <1>1, Zenon DEF Halted
<1>. HIDE DEF Goal
<1>8. Goal  BY <1>1, <1>2, <1>3, <1>4, <1>5, <1>6, <1>7, Zenon DEF Next, Goal
<1>. QED BY <1>8 DEF Goal

\* A reference more leaves the flags.
LEMMA RetainFlags ==
  ASSUME Types, NEW g \in Frames, Retain(g)
  PROVE  DOMAIN frames' = DOMAIN frames /\ \A flag : With(frames', flag) = With(frames, flag)
<1>1. DOMAIN frames' = Frames /\ DOMAIN frames = Frames
  BY Zenon DEF Types, Retain
<1>2. \A f \in Frames : frames'[f].flags = frames[f].flags
  <2>. SUFFICES ASSUME NEW f \in Frames PROVE frames'[f].flags = frames[f].flags
    OBVIOUS
  <2>1. frames[f] \in [flags : SUBSET FrameFlag, count : 0 .. MaxCount]
    BY Zenon DEF Types
  <2>2. frames'[f] = IF f = g THEN [frames[f] EXCEPT !.count = @ + 1] ELSE frames[f]
    BY <1>1 DEF Retain, retain
  <2>. QED BY <2>1, <2>2
<1>. QED BY <1>1, <1>2 DEF With

\* The error setup left in the statistics stays what it is.
LEMMA StatsStep ==
  ASSUME IInv, [Next]_vars, NEW x \in Nat, NEW y \in Nat, stats = BootStats(frames, x, y)
  PROVE  /\ stats' = BootStats(frames', x, y)
         /\ With(frames', "RESERVED") = With(frames, "RESERVED")
<1>1. CASE UNCHANGED <<frames, stats>>
  BY <1>1, Zenon
<1>2. ASSUME NEW S \in SUBSET FREE, NEW kernel \in BOOLEAN, Take(S, kernel)
      PROVE  /\ stats' = BootStats(frames', x, y)
             /\ With(frames', "RESERVED") = With(frames, "RESERVED")
  BY <1>2, TakeStats, Zenon DEF IInv
<1>3. ASSUME halted = "no", NEW h \in Holders, NEW S \in SUBSET held[h], Drop(S)
      PROVE  /\ stats' = BootStats(frames', x, y)
             /\ With(frames', "RESERVED") = With(frames, "RESERVED")
  <2>1. S \in SUBSET (Frames \ FREE) /\ \A f \in S : frames[f].count > 0
    BY <1>3, FreeAndHeld, Zenon
  <2>. QED BY <1>3, <2>1, DropStats, Zenon DEF IInv
<1>4. ASSUME NEW g \in Frames, Retain(g)
      PROVE  /\ stats' = BootStats(frames', x, y)
             /\ With(frames', "RESERVED") = With(frames, "RESERVED")
  <2>1. DOMAIN frames' = DOMAIN frames /\ \A flag : With(frames', flag) = With(frames, flag)
    BY <1>4, RetainFlags, Zenon DEF IInv
  <2>2. StatsOf(frames') = StatsOf(frames)
    <3>1. /\ With(frames', "POISONED") = With(frames, "POISONED")
          /\ With(frames', "FREE") = With(frames, "FREE")
          /\ With(frames', "KERNEL") = With(frames, "KERNEL")
          /\ With(frames', "RESERVED") = With(frames, "RESERVED")
      BY <2>1, Zenon
    <3>. QED BY <2>1, <3>1, Zenon DEF StatsOf
  <2>. QED BY <1>4, <2>1, <2>2, Zenon DEF Retain, BootStats
<1>. QED BY <1>1, <1>2, <1>3, <1>4, Moves, Zenon

\* The statistics are those of setup for the array as it is now.
StatsOff == \E x, y \in Nat : stats = BootStats(frames, x, y)

LEMMA StatsInv == Spec => []StatsOff
<1>1. Init => StatsOff
  BY Zenon DEF Init, BootState, StatsOff
<1>2. IInv /\ StatsOff /\ [Next]_vars => StatsOff'
  BY StatsStep, Zenon DEF StatsOff
<1>. QED BY <1>1, <1>2, Inductive, PTL DEF Spec

\* Every reference count fits its machine word, and the counters that allocate
\* and deallocate change do not go below zero, whatever sequence of calls the
\* allocator receives.
THEOREM TypesHold == Spec => []TypeOK
<1>1. IInv /\ StatsOff => TypeOK
  <2>. SUFFICES ASSUME IInv, StatsOff PROVE stats.allocated \in Nat /\ stats.kernel \in Nat
    BY Zenon DEF IInv, Types, TypeOK
  <2>1. PICK x \in Nat, y \in Nat : stats = BootStats(frames, x, y)
    BY DEF StatsOff
  <2>. DEFINE U == Frames \ With(frames, "POISONED")
              F == With(frames, "FREE")
              K == With(frames, "KERNEL")
  <2>2. DOMAIN frames = Frames
    BY Zenon DEF IInv, Types
  <2>3. stats.allocated = Cardinality(U) - Cardinality(F) + x /\ stats.kernel = Cardinality(K) + x
    BY <2>1, <2>2, BootRecord
  <2>4. F \in SUBSET U /\ U \in SUBSET Frames /\ K \in SUBSET Frames /\ F \in SUBSET Frames
    BY <2>2 DEF With, IInv, FreeIsClean
  <2>. HIDE DEF U, F, K
  <2>5. /\ Cardinality(F) <= Cardinality(U) /\ Cardinality(U) \in Nat
        /\ Cardinality(K) \in Nat /\ Cardinality(F) \in Nat
    BY <2>4, FramesFinite, FS_Subset
  <2>. QED BY <2>3, <2>5
<1>. QED BY <1>1, Inductive, StatsInv, PTL

\* Two arrays with the same reserved frames: the counters differ as the counts do.
LEMMA SameOff ==
  ASSUME NEW fs, NEW gs, NEW x \in Nat, NEW y \in Nat, DOMAIN fs = Frames, DOMAIN gs = Frames,
         With(gs, "RESERVED") = With(fs, "RESERVED"), NEW counter \in DOMAIN NoStats
  PROVE  BootStats(gs, x, y)[counter] - BootStats(fs, x, y)[counter]
           = StatsOf(gs)[counter] - StatsOf(fs)[counter]
<1>. DEFINE n(h, flag) == Cardinality(With(h, flag))
            u(h) == Cardinality(Frames \ With(h, "POISONED"))
            t == Cardinality(Frames)
            r == n(fs, "RESERVED")
<1>1. ASSUME NEW h \in {fs, gs}
      PROVE  /\ n(h, "POISONED") \in Nat /\ n(h, "FREE") \in Nat /\ n(h, "KERNEL") \in Nat
             /\ u(h) \in Nat /\ r \in Nat /\ t \in Nat
  <2>1. /\ With(h, "POISONED") \in SUBSET Frames /\ With(h, "FREE") \in SUBSET Frames
        /\ With(h, "KERNEL") \in SUBSET Frames /\ With(fs, "RESERVED") \in SUBSET Frames
        /\ Frames \ With(h, "POISONED") \in SUBSET Frames /\ Frames \in SUBSET Frames
    BY DEF With
  <2>. QED BY <2>1, FramesFinite, Zenon
<1>2. ASSUME NEW h \in {fs, gs}
      PROVE  /\ BootStats(h, x, y) =
                  [total |-> t, usable |-> u(h) + x, allocated |-> u(h) - n(h, "FREE") + x,
                   reserved |-> r + y, kernel |-> n(h, "KERNEL") + x,
                   poisoned |-> n(h, "POISONED") - r - x - y]
             /\ StatsOf(h) =
                  [total |-> t, usable |-> u(h), allocated |-> u(h) - n(h, "FREE"),
                   reserved |-> r, kernel |-> n(h, "KERNEL"), poisoned |-> n(h, "POISONED")]
  <2>1. DOMAIN h = Frames /\ With(h, "RESERVED") = With(fs, "RESERVED")
    OBVIOUS
  <2>. QED BY <2>1, Zenon DEF BootStats, StatsOf
<1>3. fs \in {fs, gs} /\ gs \in {fs, gs} /\ counter \in {"total", "usable", "allocated",
        "reserved", "kernel", "poisoned"}
  BY DEF NoStats
<1>. DEFINE bf == BootStats(fs, x, y)
            bg == BootStats(gs, x, y)
            sf == StatsOf(fs)
            sg == StatsOf(gs)
<1>. HIDE DEF n, u, t, r
<1>4. bg[counter] - bf[counter] = sg[counter] - sf[counter]
  <2>1. /\ bf = [total |-> t, usable |-> u(fs) + x, allocated |-> u(fs) - n(fs, "FREE") + x,
                 reserved |-> r + y, kernel |-> n(fs, "KERNEL") + x,
                 poisoned |-> n(fs, "POISONED") - r - x - y]
        /\ bg = [total |-> t, usable |-> u(gs) + x, allocated |-> u(gs) - n(gs, "FREE") + x,
                 reserved |-> r + y, kernel |-> n(gs, "KERNEL") + x,
                 poisoned |-> n(gs, "POISONED") - r - x - y]
        /\ sf = [total |-> t, usable |-> u(fs), allocated |-> u(fs) - n(fs, "FREE"),
                 reserved |-> r, kernel |-> n(fs, "KERNEL"), poisoned |-> n(fs, "POISONED")]
        /\ sg = [total |-> t, usable |-> u(gs), allocated |-> u(gs) - n(gs, "FREE"),
                 reserved |-> r, kernel |-> n(gs, "KERNEL"), poisoned |-> n(gs, "POISONED")]
    BY <1>2, <1>3, Zenon
  <2>2. /\ n(fs, "POISONED") \in Nat /\ n(fs, "FREE") \in Nat /\ n(fs, "KERNEL") \in Nat
        /\ u(fs) \in Nat /\ r \in Nat /\ t \in Nat
        /\ n(gs, "POISONED") \in Nat /\ n(gs, "FREE") \in Nat /\ n(gs, "KERNEL") \in Nat
        /\ u(gs) \in Nat
    BY <1>1, <1>3, Zenon
  <2>. HIDE DEF bf, bg, sf, sg
  <2>. QED BY <1>3, <2>1, <2>2
<1>. QED BY <1>4

\* The statistics move with the frame array, in every operation: whatever setup
\* left in them, no error is added.
THEOREM StatsHold == Spec => StatsFollow
<1>1. ASSUME IInv, StatsOff, [Next]_vars, NEW counter \in DOMAIN NoStats
      PROVE  stats'[counter] - stats[counter]
               = StatsOf(frames')[counter] - StatsOf(frames)[counter]
  <2>1. PICK x \in Nat, y \in Nat : stats = BootStats(frames, x, y)
    BY <1>1 DEF StatsOff
  <2>2. /\ stats' = BootStats(frames', x, y)
        /\ With(frames', "RESERVED") = With(frames, "RESERVED")
    BY <1>1, <2>1, StatsStep, Zenon
  <2>3. DOMAIN frames = Frames /\ DOMAIN frames' = Frames
    <3>1. IInv'
      BY <1>1, NextOK, Zenon
    <3>. QED BY <1>1, <3>1, Zenon DEF IInv, Types
  <2>. QED BY <2>1, <2>2, <2>3, SameOff, Zenon
<1>2. IInv /\ StatsOff /\ [Next]_vars =>
        [halted = "no" =>
           \A counter \in DOMAIN NoStats :
             stats'[counter] - stats[counter]
               = StatsOf(frames')[counter] - StatsOf(frames)[counter]]_vars
  BY <1>1, Zenon
<1>. QED BY <1>2, Inductive, StatsInv, PTL DEF Spec, StatsFollow

-----------------------------------------------------------------------------
(* The allocator implements FramePool.                                     *)

\* The abstract pool of a state: the frames that can ever be granted.
Usable == Frames \ (With(frames, "POISONED") \cup array)

LEMMA UsableIs ==
  ASSUME IInv
  PROVE  (IF halted = "booting" THEN {} ELSE Frames \ (With(frames, "POISONED") \cup array))
           = Usable
BY Zenon DEF IInv, Types, Usable

\* Taking and dropping change neither POISONED nor the array.
LEMMA PoolConstant ==
  ASSUME IInv, [Next]_vars PROVE Usable' = Usable
<1>1. ASSUME frames' \in [Frames -> InfoType],
             \A f \in Frames : "POISONED" \in frames'[f].flags
                                <=> "POISONED" \in frames[f].flags
      PROVE  Usable' = Usable
  BY <1>1, Moves, Zenon DEF Usable, With, IInv, Types
<1>2. CASE UNCHANGED <<frames, stats>>
  BY <1>2, Moves DEF Usable
<1>3. ASSUME halted = "no", NEW S \in SUBSET FREE, NEW kernel \in BOOLEAN, Take(S, kernel)
      PROVE  Usable' = Usable
  BY <1>1, <1>3, TakeFrames, Zenon
<1>4. ASSUME halted = "no", NEW h \in Holders, NEW S \in SUBSET held[h], Drop(S)
      PROVE  Usable' = Usable
  BY <1>1, <1>4, DropFrames, Zenon
<1>5. ASSUME NEW g \in Frames, Retain(g)
      PROVE  Usable' = Usable
  <2>1. With(frames', "POISONED") = With(frames, "POISONED")
    BY <1>5, RetainFlags, Zenon DEF IInv
  <2>. QED BY <2>1, Moves DEF Usable
<1>. QED BY <1>2, <1>3, <1>4, <1>5, Moves, Zenon

\* The initial states map to initial states of the pool.
LEMMA PoolInit == Init => Pool!Init
<1>. SUFFICES ASSUME Init PROVE Pool!Init
  OBVIOUS
<1>1. IInv
  BY InitOK
<1>2. \A h \in Holders : held[h] \subseteq Usable
  <2>. SUFFICES ASSUME NEW h \in Holders, NEW f \in held[h] PROVE f \in Usable
    OBVIOUS
  <2>1. f \in Frames /\ Refs(f) # {}
    BY <1>1, Zenon DEF Refs, IInv, Types
  <2>. QED BY <1>1, <2>1 DEF Init, IInv, FrameOK, Usable, With, Types
<1>3. \A h, g \in Holders : h # g => held[h] \cap held[g] = {}
  BY DEF Init, BootHeld
<1>4. held \in [Holders -> SUBSET Usable]
  BY <1>1, <1>2, Zenon DEF IInv, Types
<1>. QED BY <1>1, <1>3, <1>4, UsableIs DEF Pool!Init, Usable

\* Each action is a step of the pool, or leaves the pool alone.
LEMMA PoolStep == IInv /\ [Next]_vars => [Pool!Next]_(Pool!vars)
<1>. SUFFICES ASSUME IInv, [Next]_vars PROVE [Pool!Next]_(Pool!vars)
  OBVIOUS
<1>0. Usable' = Usable
  BY PoolConstant
<1>10. IInv'
  BY NextOK
<1>11. /\ (IF halted = "booting" THEN {} ELSE Frames \ (With(frames, "POISONED") \cup array))
            = Usable
       /\ (IF halted = "booting" THEN {} ELSE Frames \ (With(frames, "POISONED") \cup array))'
            = Usable'
  <2>1. halted # "booting" /\ halted' # "booting"
    BY <1>10, Zenon DEF IInv, Types
  <2>. QED BY <2>1, Zenon DEF Usable
<1>1. CASE UNCHANGED held
  BY <1>0, <1>1, <1>11, Zenon DEF Pool!vars
<1>. Handles \subseteq Holders
  BY DEF Holders
<1>2. ASSUME NEW h \in Handles, NEW a \in Frames, NEW b \in Frames,
             halted = "no", a .. b \subseteq FREE,
             held' = [held EXCEPT ![h] = @ \cup a .. b]
      PROVE  Pool!Next
  <2>1. \A f \in a .. b : f \in Usable /\ Refs(f) = {}
    <3>. SUFFICES ASSUME NEW f \in FREE PROVE f \in Usable /\ Refs(f) = {}
      BY <1>2
    <3>. QED BY <1>2 DEF FREE, With, Usable, IInv, Types, FrameOK
  <2>2. a .. b \subseteq Usable
    BY <2>1
  <2>3. \A g \in Holders : held[g] \cap a .. b = {}
    BY <2>1 DEF Refs
  <2>4. Pool!Grant(h, a, b)
    BY <1>0, <1>2, <1>11, <2>2, <2>3, Zenon DEF Pool!Grant
  <2>. QED BY <2>4 DEF Pool!Next
<1>3. ASSUME NEW h \in Handles, NEW S \in SUBSET held[h],
             held' = [held EXCEPT ![h] = @ \ S]
      PROVE  Pool!Next
  <2>1. Pool!GiveBack(h, S)
    BY <1>0, <1>3, <1>11, Zenon DEF Pool!GiveBack
  <2>2. S \in SUBSET Frames
    BY Zenon DEF IInv, Types
  <2>. QED BY <2>1, <2>2 DEF Pool!Next
<1>4. ASSUME NEW h \in Handles, NEW kernel \in BOOLEAN, Allocate(h, kernel), ~UNCHANGED held
      PROVE  Pool!Next
  <2>1. PICK f \in FREE : held' = [held EXCEPT ![h] = @ \cup {f}] /\ halted = "no"
    BY <1>4, Zenon DEF Allocate, vars
  <2>0. f \in Frames
    BY Zenon DEF FREE, With, IInv, Types
  <2>2. f \in Frames /\ f .. f = {f}
    BY <2>0, NAssumption DEF Frames
  <2>3. f .. f \subseteq FREE /\ held' = [held EXCEPT ![h] = @ \cup f .. f]
    BY <2>1, <2>2
  <2>. QED BY <2>1, <2>2, <2>3, <1>2, Zenon
<1>5. ASSUME NEW h \in Handles, NEW kernel \in BOOLEAN, NEW count \in 0 .. MaxRange,
             AllocateRange(h, count, kernel), ~UNCHANGED held
      PROVE  Pool!Next
  <2>1. PICK i \in 0 .. N : /\ Fits(i, count) /\ halted = "no" /\ i + count < N
                            /\ held' = [held EXCEPT ![h] = @ \cup i .. (i + count - 1)]
    BY <1>5, Zenon DEF AllocateRange, vars
  <2>2. count # 0
    <3>. SUFFICES ASSUME count = 0 PROVE FALSE
      OBVIOUS
    <3>1. i .. (i + count - 1) = {}
      OBVIOUS
    <3>2. held' = held
      BY <2>1, <3>1 DEF IInv, Types
    <3>. QED BY <3>2, <1>5
  <2>3. i \in Frames /\ i + count - 1 \in Frames
    BY <2>1, <2>2, NAssumption, MaxAssumption DEF Frames
  <2>4. i .. (i + count - 1) \subseteq FREE
    BY <2>1 DEF Fits
  <2>. QED BY <2>1, <2>3, <2>4, <1>2, Zenon
<1>6. ASSUME NEW h \in Handles, NEW f \in Frames \cup {Outside}, Reference(h, f),
             ~UNCHANGED held
      PROVE  Pool!Next
  <2>1. /\ f \in Frames /\ frames[f].count > 0 /\ halted = "no"
        /\ held' = [held EXCEPT ![h] = @ \cup {f}]
    BY <1>6, Zenon DEF Reference, Referenced
  <2>2. Refs(f) # {}
    <3>1. frames[f].count = Cardinality(Refs(f))
      BY <2>1 DEF IInv, FrameOK
    <3>2. Cardinality({}) = 0
      BY FS_EmptySet
    <3>. QED BY <2>1, <3>1, <3>2
  <2>3. Pool!Share(h, f)
    BY <1>0, <1>11, <2>1, <2>2, Zenon DEF Pool!Share, Refs
  <2>. QED BY <2>1, <2>3 DEF Pool!Next
<1>7. ASSUME NEW h \in Handles, NEW f \in Frames \cup {Outside}, Deallocate(h, f),
             ~UNCHANGED held
      PROVE  Pool!Next
  <2>1. {f} \in SUBSET held[h] /\ held' = [held EXCEPT ![h] = @ \ {f}]
    BY <1>7, Zenon DEF Deallocate
  <2>. QED BY <2>1, <1>3, Zenon
<1>8. ASSUME NEW h \in Handles, NEW a \in 0 .. Outside + 1, NEW b \in 0 .. Outside + 1,
             DeallocateRange(h, a, b)
      PROVE  Pool!Next
  BY <1>8, <1>3, Zenon DEF DeallocateRange
<1>9. CASE Halted \/ UNCHANGED vars
  BY <1>9, <1>1 DEF Halted, vars
<1>. QED BY <1>1, <1>4, <1>5, <1>6, <1>7, <1>8, <1>9 DEF Next

\* The allocator, with its counts and flags, implements the pool: a frame is
\* granted only when nobody holds it, and a second holder gets it only by
\* reference.
THEOREM Implements == Spec => PoolSpec
<1>. QED BY PoolInit, PoolStep, InitOK, Inductive, PTL DEF Spec, PoolSpec, Pool!Spec
=============================================================================
