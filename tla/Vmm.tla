-------------------------------- MODULE Vmm --------------------------------
(***************************************************************************)
(* The allocator of kernel virtual memory (mm/vmm.rs): areas are taken     *)
(* from FREE_VMA, kept in USED_VMA while in use, populated page by page on *)
(* demand, and given back.  Each function takes several locks one after    *)
(* the other, and any number of CPUs run them at once: an action is what   *)
(* a CPU does under one lock, and between two of them an area is in        *)
(* neither list.                                                           *)
(*                                                                         *)
(* Addresses are page numbers in the vmalloc arena; sizes given by callers *)
(* are in bytes and wrap at Word.  The page table is abstracted to         *)
(* mapped, which gives the frame behind each page, and the frame allocator *)
(* to the set of free frames (see FramePool).                              *)
(***************************************************************************)
EXTENDS Integers, Sequences, FiniteSetsExt

CONSTANTS
  Cpus,       \* the CPUs
  Pages,      \* pages in the arena, VMALLOC_START to VMALLOC_END
  PageSize,   \* bytes in a page (4096)
  Word,       \* the modulus of usize (2^64)
  Sizes,      \* sizes callers ask for, in bytes
  Frames,     \* physical frames
  NoFrame     \* the absence of a frame

ASSUME PagesAssumption == Pages \in Nat \ {0} /\ PageSize \in Nat \ {0}
ASSUME WordAssumption == Word \in Nat /\ Sizes \subseteq 0 .. Word - 1
ASSUME FramesAssumption == NoFrame \notin Frames

VARIABLES
  free,     \* FREE_VMA: a stack of areas for each size
  used,     \* USED_VMA: the area that starts at an address
  mapped,   \* the frame each page of the arena is mapped to
  pool,     \* the free frames
  task,     \* where each CPU is in a function of this module
  owned,    \* the areas the code on each CPU has allocated
  halted    \* "no", or why the kernel panicked

vars == <<free, used, mapped, pool, task, owned, halted>>

\* VirtualArea: a range of pages and whether it is populated on demand.
Area == [start : 0 .. Pages, end : 0 .. Pages, map : BOOLEAN]

VMA(start, end, map) == [start |-> start, end |-> end, map |-> map]
PagesOf(vma) == vma.start .. vma.end - 1
Size(vma) == vma.end - vma.start

Idle == [pc |-> "idle"]

\* The areas a CPU has taken from one list and not yet put in the other.
InFlight(c) == IF task[c].pc \in {"insert", "unmap", "drop", "free"}
               THEN {task[c].vma} ELSE {}

-----------------------------------------------------------------------------
\* Mutant: the stack of a size is replaced instead of pushed on.
insert_free_vma_Replace(lists, vma) ==
  [lists EXCEPT ![Size(vma)] = <<vma>>]

\* insert_free_vma: push on the stack of its size.
insert_free_vma(lists, vma) ==
  [lists EXCEPT ![Size(vma)] = Append(@, vma)]

\* setup: the whole arena is one free area.
Init ==
  /\ free = insert_free_vma([n \in 0 .. Pages |-> <<>>], VMA(0, Pages, FALSE))
  /\ used = <<>>
  /\ mapped = [p \in 0 .. Pages - 1 |-> NoFrame]
  /\ pool = Frames
  /\ task = [c \in Cpus |-> Idle]
  /\ owned = [c \in Cpus |-> {}]
  /\ halted = "no"

\* Mutant: the size is rounded down.
aligned_size_Down(size) == size \div PageSize

\* The size in pages: (size.wrapping_add(0xFFF)) & !0xFFF.
aligned_size(size) == ((size + PageSize - 1) % Word) \div PageSize

\* Callers ask for at least a byte, and not for the last page of the word: the
\* area would be empty, and USED_VMA is keyed by the start, where the next area
\* to start there replaces it.
ASSUME SizesAssumption == \A size \in Sizes : size > 0 /\ size + PageSize - 1 < Word

\* The stacks find_free_first_fit may pop: big enough and not empty.
Fitting(size) == {n \in DOMAIN free : n >= size /\ free[n] # <<>>}

\* Vec::pop: the area it takes off a stack, and the stack it leaves.
Top(s) == s[Len(s)]
Below(s) == SubSeq(s, 1, Len(s) - 1)

Goto(c, t) == task' = [task EXCEPT ![c] = t]
Panic(why) == halted' = why /\ UNCHANGED <<free, used, mapped, pool, task, owned>>

\* allocate, first half: find_free_first_fit pops the last area of the first
\* stack that fits, and pushes back what it does not need.  An ATOMIC request
\* is not implemented and panics here; a request nothing fits is refused.
AllocateFind(c, size, map, atomic) ==
  /\ halted = "no" /\ task[c] = Idle
  /\ LET n == aligned_size(size) IN
     \/ /\ Fitting(n) # {}
        /\ LET best == Min(Fitting(n))
               vma  == Top(free[best])
               rest == [free EXCEPT ![best] = Below(@)] IN
           /\ free' = IF Size(vma) > n
                      THEN insert_free_vma(rest, VMA(vma.start + n, vma.end, FALSE))
                      ELSE rest
           /\ Goto(c, [pc |-> "insert",
                       vma |-> VMA(vma.start, vma.start + n, map)])
        /\ halted' = IF atomic THEN "not implemented" ELSE "no"
        /\ UNCHANGED <<used, mapped, pool, owned>>
     \/ Fitting(n) = {} /\ UNCHANGED vars

\* Mutant: the area is registered under its end.
AllocateInsert_WrongKey(c) ==
  LET vma == task[c].vma IN
  /\ halted = "no" /\ task[c].pc = "insert"
  /\ used' = [s \in DOMAIN used \cup {vma.end} |->
                IF s = vma.end THEN vma ELSE used[s]]
  /\ owned' = [owned EXCEPT ![c] = @ \cup {vma}]
  /\ Goto(c, Idle)
  /\ UNCHANGED <<free, mapped, pool, halted>>

\* allocate, second half: insert_used_vma.  An area with the same start would
\* be replaced.
AllocateInsert(c) ==
  LET vma == task[c].vma IN
  /\ halted = "no" /\ task[c].pc = "insert"
  /\ used' = [s \in DOMAIN used \cup {vma.start} |->
                IF s = vma.start THEN vma ELSE used[s]]
  /\ owned' = [owned EXCEPT ![c] = @ \cup {vma}]
  /\ Goto(c, Idle)
  /\ UNCHANGED <<free, mapped, pool, halted>>

\* Mutant: the pages of the area are not unmapped.
DeallocateRemove_NoUnmap(c, vma) ==
  /\ halted = "no" /\ task[c] = Idle
  /\ vma \in owned[c]
  /\ vma.start \in DOMAIN used
  /\ Goto(c, [pc |-> "free", vma |-> used[vma.start]])
  /\ used' = [s \in DOMAIN used \ {vma.start} |-> used[s]]
  /\ owned' = [owned EXCEPT ![c] = @ \ {vma}]
  /\ UNCHANGED <<free, mapped, pool, halted>>

\* deallocate of an area the CPU has allocated.  It is looked up by its start,
\* and what is found decides what follows; when nothing is, unwrap panics.
DeallocateRemove(c, vma) ==
  /\ halted = "no" /\ task[c] = Idle
  /\ vma \in owned[c]
  /\ \/ /\ vma.start \in DOMAIN used
        /\ LET found == used[vma.start] IN
           Goto(c, IF found.map
                   THEN [pc |-> "unmap", vma |-> found, page |-> found.start]
                   ELSE [pc |-> "free", vma |-> found])
        /\ used' = [s \in DOMAIN used \ {vma.start} |-> used[s]]
        /\ owned' = [owned EXCEPT ![c] = @ \ {vma}]
        /\ UNCHANGED <<free, mapped, pool, halted>>
     \/ /\ vma.start \notin DOMAIN used
        /\ Panic("vma not found")

\* Mutant: the frame is not given back.
DeallocateUnmap_Leak(c) ==
  LET t == task[c] IN
  /\ halted = "no" /\ t.pc = "unmap"
  /\ IF t.page = t.vma.end
     THEN Goto(c, [pc |-> "free", vma |-> t.vma]) /\ UNCHANGED mapped
     ELSE /\ Goto(c, [t EXCEPT !.page = @ + 1])
          /\ mapped' = [mapped EXCEPT ![t.page] = NoFrame]
  /\ UNCHANGED <<free, used, pool, owned, halted>>

\* Its loop over the pages: unmap_current takes the frame out of the page
\* table, and the frame is then given back under the lock of the frame
\* allocator.
DeallocateUnmap(c) ==
  LET t == task[c] IN
  /\ halted = "no" /\ t.pc = "unmap"
  /\ IF t.page = t.vma.end
     THEN Goto(c, [pc |-> "free", vma |-> t.vma]) /\ UNCHANGED mapped
     ELSE /\ Goto(c, IF mapped[t.page] = NoFrame
                     THEN [pc |-> "unmap", vma |-> t.vma, page |-> t.page + 1]
                     ELSE [pc |-> "drop", vma |-> t.vma, page |-> t.page,
                           frame |-> mapped[t.page]])
          /\ mapped' = [mapped EXCEPT ![t.page] = NoFrame]
  /\ UNCHANGED <<free, used, pool, owned, halted>>

DeallocateFrame(c) ==
  LET t == task[c] IN
  /\ halted = "no" /\ t.pc = "drop"
  /\ pool' = pool \cup {t.frame}
  /\ Goto(c, [pc |-> "unmap", vma |-> t.vma, page |-> t.page + 1])
  /\ UNCHANGED <<free, used, mapped, owned, halted>>

\* deallocate, the end: the area is free, not merged with its neighbours.
DeallocateInsert(c) ==
  /\ halted = "no" /\ task[c].pc = "free"
  /\ free' = insert_free_vma(free, task[c].vma)
  /\ Goto(c, Idle)
  /\ UNCHANGED <<used, mapped, pool, owned, halted>>

-----------------------------------------------------------------------------
(* Demand paging.  The code on a CPU touches a page of an area it has      *)
(* allocated; the page is not mapped, and the page fault handler runs.     *)

Touch(c, p) ==
  /\ halted = "no" /\ task[c] = Idle
  /\ \E vma \in owned[c] : vma.map /\ p \in PagesOf(vma)
  /\ mapped[p] = NoFrame
  /\ Goto(c, [pc |-> "lookup", page |-> p])
  /\ UNCHANGED <<free, used, mapped, pool, owned, halted>>

\* handle_demand_paging: a copy of the area is taken under the lock of
\* USED_VMA, and decides whether the page can be populated.
FaultLookup(c) ==
  LET found == {s \in DOMAIN used : task[c].page \in PagesOf(used[s])} IN
  /\ halted = "no" /\ task[c].pc = "lookup"
  /\ IF found = {} THEN Panic("missing page")
     ELSE IF ~used[Min(found)].map THEN Panic("not mappable")
     ELSE /\ Goto(c, [pc |-> "frame", page |-> task[c].page])
          /\ UNCHANGED <<free, used, mapped, pool, owned, halted>>

\* A frame for the page, or OUT_OF_MEMORY: the frames are not only those of the
\* areas, page tables and the rest of the kernel take theirs as well, and may
\* have left none.
FaultFrame(c) ==
  /\ halted = "no" /\ task[c].pc = "frame"
  /\ \/ \E f \in pool :
          /\ pool' = pool \ {f}
          /\ Goto(c, [pc |-> "map", page |-> task[c].page, frame |-> f])
          /\ UNCHANGED <<free, used, mapped, owned, halted>>
     \/ Panic("out of memory")

\* map: the entry must not be present.  A page table on the way to it may be
\* missing, and without a frame for it map returns OutOfMemory.
FaultMap(c) ==
  LET t == task[c] IN
  /\ halted = "no" /\ t.pc = "map"
  /\ \/ IF mapped[t.page] # NoFrame THEN Panic("page already mapped")
        ELSE /\ mapped' = [mapped EXCEPT ![t.page] = t.frame]
             /\ Goto(c, Idle)
             /\ UNCHANGED <<free, used, pool, owned, halted>>
     \/ Panic("out of memory")

-----------------------------------------------------------------------------
\* What a CPU goes on to do in the middle of a function.
Step(c) ==
  \/ AllocateInsert(c)
  \/ DeallocateUnmap(c) \/ DeallocateFrame(c) \/ DeallocateInsert(c)
  \/ FaultLookup(c) \/ FaultFrame(c) \/ FaultMap(c)

Call(c) ==
  \/ \E size \in Sizes, map, atomic \in BOOLEAN :
       AllocateFind(c, size, map, atomic)
  \/ \E vma \in owned[c] : DeallocateRemove(c, vma)
  \/ \E p \in 0 .. Pages - 1 : Touch(c, p)

Halted == halted # "no" /\ UNCHANGED vars

Next == (\E c \in Cpus : Call(c) \/ Step(c)) \/ Halted

Spec == Init /\ [][Next]_vars

-----------------------------------------------------------------------------
\* Every area there is: on a free stack (with its place there), in use, or
\* between the two lists.
FreeAreas(lists) ==
  UNION {{<<"free", n, i, lists[n][i]>> : i \in DOMAIN lists[n]} : n \in DOMAIN lists}
Areas ==
  FreeAreas(free)
  \cup {<<"used", s, 0, used[s]>> : s \in DOMAIN used}
  \cup UNION {{<<"flight", c, 0, vma>> : vma \in InFlight(c)} : c \in Cpus}

\* The areas always tile the arena: whatever the CPUs are in the middle of,
\* each page belongs to exactly one area, so splitting, stacking and moving
\* areas between the lists never loses address space or gives it out twice.
Tiling ==
  halted = "no" =>
    \A p \in 0 .. Pages - 1 :
      \E a \in Areas : \A b \in Areas : p \in PagesOf(b[4]) <=> a = b

\* A frame is at one place: free, behind one page, or in the hands of one CPU
\* that is about to map it or give it back.  None leaks, none is freed twice.
FrameAccounted ==
  halted = "no" =>
    \A f \in Frames :
      LET places == {<<"page", p>> : p \in {q \in DOMAIN mapped : mapped[q] = f}}
            \cup {<<"cpu", c>> : c \in {d \in Cpus :
                    task[d].pc \in {"drop", "map"} /\ task[d].frame = f}} IN
      IF f \in pool THEN places = {} ELSE \E x \in places : places = {x}

\* Only pages of areas in use, or being given back, are mapped: what allocate
\* returns has never a frame of its former owner behind it.
FreshIsUnmapped ==
  halted = "no" =>
    \A p \in 0 .. Pages - 1 : mapped[p] # NoFrame =>
      \/ \E s \in DOMAIN used : used[s].map /\ p \in PagesOf(used[s])
      \/ \E c \in Cpus : /\ task[c].pc \in {"unmap", "drop"}
                         /\ p >= task[c].page /\ p \in PagesOf(task[c].vma)

\* Code that touches and frees only what it allocated finds its areas in the
\* lists, and its pages unmapped until the fault handler maps them, whatever the
\* other CPUs are in the middle of: neither deallocate nor the handler panics
\* over them.
OwnersDontPanic ==
  halted \notin {"vma not found", "missing page", "not mappable", "page already mapped"}

\* The callers see the ranges VmaSpace promises.
Space == INSTANCE VmaSpace WITH
           live <- {[start |-> vma.start, end |-> vma.end] : vma \in UNION {owned[c] : c \in Cpus}}
SpaceSpec == Space!Spec

=============================================================================
