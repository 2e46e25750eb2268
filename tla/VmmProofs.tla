----------------------------- MODULE VmmProofs -----------------------------
(***************************************************************************)
(* Proofs about Vmm for any number of CPUs, pages and frames and any sizes *)
(* the callers ask for: Tiling, FrameAccounted, FreshIsUnmapped and        *)
(* OwnersDontPanic always hold, and Vmm implements VmaSpace.  And about    *)
(* AcpiMapping, for any regions: RegionSeen, NothingLeft and UnwrapsHold.  *)
(*                                                                         *)
(* None of these is inductive by itself.  The panics of deallocate and of  *)
(* handle_demand_paging are out of reach only because what a CPU owns is   *)
(* in USED_VMA under its start (OwnedOk) and, by the tiling, nothing else  *)
(* there contains its pages; that map never meets a mapped page needs that *)
(* a faulting CPU still owns the area of its page (TaskOk), so that no     *)
(* other CPU is mapping or unmapping it.  The tiling in turn needs each    *)
(* area to be where its size or its start say (Placed), or splitting and   *)
(* looking up would act on another area than the one they move.  IInv puts *)
(* these together, and does not depend on halted: a panic stops the CPUs   *)
(* and changes nothing else.                                               *)
(*                                                                         *)
(* acpi.rs maps frames that are not the allocator's into its areas, so     *)
(* IInv does not hold there.  What does is the part about the areas        *)
(* (Arena); AcpiInv adds which frame each page of a mapping shows, how far *)
(* a map or an unmap has come, that no two mappings have an area in        *)
(* common, and that as many pages are unmapped as were mapped unless some  *)
(* region was a multiple of the page size (Whole).                         *)
(***************************************************************************)
EXTENDS AcpiMapping, TLAPS

\* Most leaves are first-order and for Zenon; those with arithmetic, records or
\* functions to work out say SMT.
USE Zenon

-----------------------------------------------------------------------------
(* Facts about the operators.                                              *)

\* What is needed of the stacks: their elements, and what pop and push do.
LEMMA SeqLen ==
  ASSUME NEW S, NEW s \in Seq(S)  PROVE Len(s) \in Nat /\ DOMAIN s = 1 .. Len(s)
BY SMT

LEMMA SeqElement ==
  ASSUME NEW S, NEW s \in Seq(S), NEW i \in 1 .. Len(s)  PROVE s[i] \in S
BY SMT

LEMMA SeqEmpty ==
  ASSUME NEW S, NEW s \in Seq(S)  PROVE s = <<>> <=> Len(s) = 0
BY SMT

LEMMA SeqAppend ==
  ASSUME NEW S, NEW s \in Seq(S), NEW e \in S
  PROVE  /\ Append(s, e) \in Seq(S) /\ Len(Append(s, e)) = Len(s) + 1
         /\ \A i \in 1 .. Len(s) : Append(s, e)[i] = s[i]
         /\ Append(s, e)[Len(s) + 1] = e
BY SMT

LEMMA SeqPrefix ==
  ASSUME NEW S, NEW s \in Seq(S), NEW n \in 0 .. Len(s)
  PROVE  /\ SubSeq(s, 1, n) \in Seq(S) /\ Len(SubSeq(s, 1, n)) = n
         /\ \A i \in 1 .. n : SubSeq(s, 1, n)[i] = s[i]
BY SMT

\* The naturals are well ordered: proved at the end (LeastHolds), and assumed by
\* name until then.
Least == \A S \in SUBSET Nat : S # {} => \E x \in S : \A y \in S : x <= y

\* The first stack that fits is one of them.
LEMMA MinIn ==
  ASSUME Least, NEW S \in SUBSET Nat, S # {}
  PROVE  Min(S) \in S
<1>1. \E x \in S : \A y \in S : x <= y  BY DEF Least
<1>2. QED  BY <1>1 DEF Min

\* aligned_size is the number of pages the bytes need.
LEMMA AlignedSize ==
  ASSUME NEW size \in Nat, size > 0, size + PageSize - 1 < Word
  PROVE  /\ aligned_size(size) = (size + PageSize - 1) \div PageSize
         /\ aligned_size(size) \in Nat \ {0}
         /\ aligned_size(size) * PageSize >= size
         /\ (aligned_size(size) - 1) * PageSize < size
<1> DEFINE a == size + PageSize - 1
           n == a \div PageSize
<1>1. /\ PageSize \in Nat \ {0} /\ Word \in Nat /\ size \in Nat /\ size > 0
      /\ a \in Nat /\ a < Word
  BY PagesAssumption, WordAssumption, SMT
<1>2. a % Word = a  BY <1>1, SMT
<1>3. aligned_size(size) = n  BY <1>2 DEF aligned_size
<1> HIDE DEF a
<1>4. n \in Int /\ PageSize * n <= a /\ a < PageSize * n + PageSize  BY <1>1, SMT
<1> HIDE DEF n
<1>5. n * PageSize = PageSize * n /\ (n - 1) * PageSize = PageSize * n - PageSize
  BY <1>1, <1>4, SMT
<1>6. n * PageSize >= size /\ (n - 1) * PageSize < size
  BY <1>1, <1>4, <1>5, SMT DEF a
<1>7. n > 0
  <2>1. SUFFICES ASSUME n <= 0  PROVE FALSE  BY <1>4, SMT
  <2>2. PageSize * n <= 0  BY <1>1, <1>4, <2>1, SMT
  <2>3. QED  BY <1>1, <1>4, <2>2, SMT DEF a
<1>8. QED  BY <1>3, <1>4, <1>6, <1>7, SMT DEF n, a

\* What callers other than acpi.rs ask for.
LEMMA SizesOk ==
  ASSUME NEW size \in Sizes
  PROVE  size \in Nat /\ size > 0 /\ size + PageSize - 1 < Word
BY WordAssumption, SizesAssumption, SMT

-----------------------------------------------------------------------------
(* Tilings.                                                                *)

Tiles(A) ==
  \A p \in 0 .. Pages - 1 : \E a \in A : \A b \in A : p \in PagesOf(b[4]) <=> a = b

\* An area goes to another list.
LEMMA TilesMove ==
  ASSUME NEW A, Tiles(A), NEW a \in A, NEW b, b \notin A, PagesOf(b[4]) = PagesOf(a[4])
  PROVE  Tiles((A \ {a}) \cup {b})
<1> SUFFICES ASSUME NEW p \in 0 .. Pages - 1
             PROVE  \E x \in (A \ {a}) \cup {b} : \A y \in (A \ {a}) \cup {b} :
                      p \in PagesOf(y[4]) <=> x = y
  BY DEF Tiles
<1>1. PICK x \in A : \A y \in A : p \in PagesOf(y[4]) <=> x = y  BY DEF Tiles
<1>2. CASE x = a
  <2>1. \A y \in (A \ {a}) \cup {b} : p \in PagesOf(y[4]) <=> b = y  BY <1>1, <1>2
  <2>2. QED  BY <2>1
<1>3. CASE x # a
  <2>1. \A y \in (A \ {a}) \cup {b} : p \in PagesOf(y[4]) <=> x = y  BY <1>1, <1>3
  <2>2. QED  BY <1>3, <2>1
<1>4. QED  BY <1>2, <1>3

\* An area is split in two.
LEMMA TilesSplit ==
  ASSUME NEW A, Tiles(A), NEW a \in A, NEW b, NEW c, b \notin A, c \notin A, b # c,
         \A p : p \in PagesOf(a[4]) <=> p \in PagesOf(b[4]) \/ p \in PagesOf(c[4]),
         \A p : ~(p \in PagesOf(b[4]) /\ p \in PagesOf(c[4]))
  PROVE  Tiles((A \ {a}) \cup {b, c})
<1> SUFFICES ASSUME NEW p \in 0 .. Pages - 1
             PROVE  \E x \in (A \ {a}) \cup {b, c} : \A y \in (A \ {a}) \cup {b, c} :
                      p \in PagesOf(y[4]) <=> x = y
  BY DEF Tiles
<1>1. PICK x \in A : \A y \in A : p \in PagesOf(y[4]) <=> x = y  BY DEF Tiles
<1>2. CASE x = a /\ p \in PagesOf(b[4])
  <2>1. \A y \in (A \ {a}) \cup {b, c} : p \in PagesOf(y[4]) <=> b = y  BY <1>1, <1>2
  <2>2. QED  BY <2>1
<1>3. CASE x = a /\ p \in PagesOf(c[4])
  <2>1. \A y \in (A \ {a}) \cup {b, c} : p \in PagesOf(y[4]) <=> c = y  BY <1>1, <1>3
  <2>2. QED  BY <2>1
<1>4. CASE x # a
  <2>1. \A y \in (A \ {a}) \cup {b, c} : p \in PagesOf(y[4]) <=> x = y  BY <1>1, <1>4
  <2>2. QED  BY <1>4, <2>1
<1>5. QED  BY <1>1, <1>2, <1>3, <1>4

\* A page is in one area.
LEMMA TilesOne ==
  ASSUME NEW A, Tiles(A), NEW p \in 0 .. Pages - 1, NEW a \in A, NEW b \in A,
         p \in PagesOf(a[4]), p \in PagesOf(b[4])
  PROVE  a = b
BY DEF Tiles

-----------------------------------------------------------------------------
(* The areas on the free stacks.                                           *)

Lists == [0 .. Pages -> Seq(Area)]

LEMMA InFree ==
  ASSUME NEW L \in Lists, NEW x
  PROVE  x \in FreeAreas(L) <=>
           \E n \in 0 .. Pages : \E i \in 1 .. Len(L[n]) : x = <<"free", n, i, L[n][i]>>
<1>1. DOMAIN L = 0 .. Pages /\ \A n \in 0 .. Pages : L[n] \in Seq(Area)  BY DEF Lists
<1>2. \A n \in 0 .. Pages : DOMAIN L[n] = 1 .. Len(L[n])  BY <1>1, SeqLen
<1>3. x \in FreeAreas(L) <=>
        \E n \in DOMAIN L : \E i \in DOMAIN L[n] : x = <<"free", n, i, L[n][i]>>
  BY SMT DEF FreeAreas
<1>4. QED  BY <1>1, <1>2, <1>3

LEMMA Push ==
  ASSUME NEW L \in Lists, NEW n \in 0 .. Pages, NEW v \in Area
  PROVE  LET M == [L EXCEPT ![n] = Append(@, v)]
             b == <<"free", n, Len(L[n]) + 1, v>> IN
         /\ M \in Lists
         /\ FreeAreas(M) = FreeAreas(L) \cup {b} /\ b \notin FreeAreas(L)
<1> DEFINE M == [L EXCEPT ![n] = Append(@, v)]
           k == Len(L[n]) + 1
           b == <<"free", n, k, v>>
<1>1. \A m \in 0 .. Pages : L[m] \in Seq(Area) /\ Len(L[m]) \in Nat
  BY SeqLen DEF Lists
<1>2. /\ Append(L[n], v) \in Seq(Area) /\ Len(Append(L[n], v)) = k
      /\ \A i \in 1 .. Len(L[n]) : Append(L[n], v)[i] = L[n][i]
      /\ Append(L[n], v)[k] = v
  BY <1>1, SeqAppend, SMT
<1>3. /\ M \in Lists /\ M[n] = Append(L[n], v)
      /\ \A m \in 0 .. Pages : m # n => M[m] = L[m]
  BY <1>2 DEF Lists
<1> HIDE DEF M
<1>4. ASSUME NEW x \in FreeAreas(M)  PROVE x \in FreeAreas(L) \cup {b}
  <2>0. PICK m \in 0 .. Pages : \E i \in 1 .. Len(M[m]) : x = <<"free", m, i, M[m][i]>>
    BY <1>3, InFree, SMT
  <2>1. PICK i \in 1 .. Len(M[m]) : x = <<"free", m, i, M[m][i]>>
    BY <2>0
  <2>2. CASE m # n  BY <1>3, <2>1, <2>2, InFree
  <2>3. CASE m = n /\ i = k  BY <1>2, <1>3, <2>1, <2>3
  <2>4. CASE m = n /\ i # k
    <3>1. i \in 1 .. Len(L[n])  BY <1>1, <1>2, <1>3, <2>4, SMT
    <3>2. x = <<"free", n, i, L[n][i]>>  BY <1>2, <1>3, <2>1, <2>4, <3>1
    <3>3. QED  BY <3>1, <3>2, InFree
  <2>5. QED  BY <2>2, <2>3, <2>4
<1>5. ASSUME NEW x \in FreeAreas(L)  PROVE x \in FreeAreas(M)
  <2>0. PICK m \in 0 .. Pages : \E i \in 1 .. Len(L[m]) : x = <<"free", m, i, L[m][i]>>
    BY InFree
  <2>1. PICK i \in 1 .. Len(L[m]) : x = <<"free", m, i, L[m][i]>>
    BY <2>0
  <2>2. i \in 1 .. Len(M[m]) /\ M[m][i] = L[m][i]
    <3>1. CASE m # n  BY <1>3, <3>1
    <3>2. CASE m = n
      <4>1. i \in 1 .. k  BY <1>1, <3>2, SMT
      <4>2. QED  BY <1>2, <1>3, <3>2, <4>1
    <3>3. QED  BY <3>1, <3>2
  <2>3. QED  BY <1>3, <2>1, <2>2, InFree
<1>6. b \in FreeAreas(M)
  <2>1. k \in 1 .. k  BY <1>1, SMT
  <2>2. QED  BY <1>2, <1>3, <2>1, InFree, SMT
<1>7. b \notin FreeAreas(L)
  <2>1. SUFFICES ASSUME NEW m \in 0 .. Pages, NEW i \in 1 .. Len(L[m]),
                        b = <<"free", m, i, L[m][i]>>
                 PROVE  FALSE
    BY InFree
  <2>2. m = n /\ i = k  BY <2>1, SMT
  <2>3. QED  BY <1>1, <2>2, SMT
<1>8. FreeAreas(M) = FreeAreas(L) \cup {b}  BY <1>4, <1>5, <1>6
<1>9. QED  BY <1>3, <1>7, <1>8 DEF M

LEMMA Pop ==
  ASSUME NEW L \in Lists, NEW n \in 0 .. Pages, L[n] # <<>>
  PROVE  LET M == [L EXCEPT ![n] = Below(@)]
             a == <<"free", n, Len(L[n]), Top(L[n])>> IN
         /\ M \in Lists /\ Top(L[n]) \in Area
         /\ a \in FreeAreas(L) /\ FreeAreas(M) = FreeAreas(L) \ {a}
<1> DEFINE M == [L EXCEPT ![n] = Below(@)]
           k == Len(L[n])
           a == <<"free", n, k, Top(L[n])>>
<1>1. \A m \in 0 .. Pages : L[m] \in Seq(Area) /\ Len(L[m]) \in Nat
  BY SeqLen DEF Lists
<1>2. k # 0  BY <1>1, SeqEmpty
<1>3. k \in 1 .. k /\ k - 1 \in 0 .. k /\ k - 1 \in Nat  BY <1>1, <1>2, SMT
<1>4. Top(L[n]) = L[n][k] /\ Top(L[n]) \in Area
  BY <1>1, <1>3, SeqElement DEF Top
<1>5. /\ Below(L[n]) \in Seq(Area) /\ Len(Below(L[n])) = k - 1
      /\ \A i \in 1 .. k - 1 : Below(L[n])[i] = L[n][i]
  <2>1. \A i \in 1 .. k - 1 : L[n][i] \in Area
    <3>1. \A i \in 1 .. k - 1 : i \in 1 .. Len(L[n])  BY <1>1, SMT
    <3>2. QED  BY <1>1, <3>1, SeqElement
  <2>2. QED  BY <1>3, <2>1, SeqPrefix, SMT DEF Below
<1>6. /\ M \in Lists /\ M[n] = Below(L[n])
      /\ \A m \in 0 .. Pages : m # n => M[m] = L[m]
  BY <1>5 DEF Lists
<1> HIDE DEF M
<1>7. ASSUME NEW x \in FreeAreas(M)  PROVE x \in FreeAreas(L) /\ x # a
  <2>0. PICK m \in 0 .. Pages : \E i \in 1 .. Len(M[m]) : x = <<"free", m, i, M[m][i]>>
    BY <1>6, InFree, SMT
  <2>1. PICK i \in 1 .. Len(M[m]) : x = <<"free", m, i, M[m][i]>>
    BY <2>0
  <2>2. CASE m # n
    <3>1. x \in FreeAreas(L)  BY <1>6, <2>1, <2>2, InFree
    <3>2. x # a  BY <2>1, <2>2, SMT
    <3>3. QED  BY <3>1, <3>2
  <2>3. CASE m = n
    <3>1. i \in 1 .. k - 1 /\ i \in 1 .. Len(L[n]) /\ i # k  BY <1>1, <1>3, <1>5, <1>6, <2>3, SMT
    <3>2. x = <<"free", n, i, L[n][i]>>  BY <1>5, <1>6, <2>1, <2>3, <3>1
    <3>3. x # a  BY <3>1, <3>2, SMT
    <3>4. QED  BY <3>1, <3>2, <3>3, InFree
  <2>4. QED  BY <2>2, <2>3
<1>8. ASSUME NEW x \in FreeAreas(L), x # a  PROVE x \in FreeAreas(M)
  <2>0. PICK m \in 0 .. Pages : \E i \in 1 .. Len(L[m]) : x = <<"free", m, i, L[m][i]>>
    BY InFree, SMT
  <2>1. PICK i \in 1 .. Len(L[m]) : x = <<"free", m, i, L[m][i]>>
    BY <2>0
  <2>2. i \in 1 .. Len(M[m]) /\ M[m][i] = L[m][i]
    <3>1. CASE m # n  BY <1>6, <3>1
    <3>2. CASE m = n
      <4>1. i # k  BY <1>4, <1>8, <2>1, <3>2
      <4>2. i \in 1 .. k - 1  BY <1>1, <1>3, <3>2, <4>1, SMT
      <4>3. QED  BY <1>5, <1>6, <3>2, <4>2
    <3>3. QED  BY <3>1, <3>2
  <2>3. QED  BY <1>6, <2>1, <2>2, InFree
<1>9. a \in FreeAreas(L)  BY <1>3, <1>4, InFree
<1>10. FreeAreas(M) = FreeAreas(L) \ {a}  BY <1>7, <1>8
<1>11. QED  BY <1>4, <1>6, <1>9, <1>10 DEF M
-----------------------------------------------------------------------------
(* The invariant.                                                          *)

ListTypes ==
  /\ free \in Lists
  /\ used \in [DOMAIN used -> Area]
  /\ task = [c \in Cpus |-> task[c]]
  /\ owned \in [Cpus -> SUBSET Area]

Types ==
  /\ mapped \in [0 .. Pages - 1 -> Frames \cup {NoFrame}]
  /\ pool \subseteq Frames

\* An area has pages, and is where its size or its start say.
Placed(a) ==
  /\ a[4] \in Area /\ a[4].start < a[4].end
  /\ a[1] = "free" => a[2] = Size(a[4])
  /\ a[1] = "used" => a[2] = a[4].start

Layout(A) == Tiles(A) /\ \A a \in A : Placed(a)

\* What a CPU has allocated is in use, and no other has it.
OwnedOk ==
  /\ \A c \in Cpus : \A vma \in owned[c] :
       vma.start \in DOMAIN used /\ used[vma.start] = vma
  /\ \A c, d \in Cpus : c # d => \A vma \in owned[c] : vma \notin owned[d]

\* The areas: what is true of them whatever the pages are used for.
Arena == ListTypes /\ Layout(Areas) /\ OwnedOk

\* Where a CPU can be, and what it knows of the page it is at.
TaskOk(c) ==
  LET t == task[c] IN
  /\ t.pc \in {"idle", "insert", "unmap", "drop", "free", "lookup", "frame", "map"}
  /\ t.pc = "insert" => \E size \in Sizes : Size(t.vma) = aligned_size(size)
  /\ t.pc \in {"unmap", "drop"} => t.page \in t.vma.start .. t.vma.end
  /\ t.pc = "drop" => t.page # t.vma.end
  /\ t.pc \in {"lookup", "frame", "map"} =>
       /\ t.page \in 0 .. Pages - 1
       /\ \E vma \in owned[c] : vma.map /\ t.page \in PagesOf(vma)
  /\ t.pc \in {"drop", "lookup", "frame", "map"} => mapped[t.page] = NoFrame

\* The frame is in the hands of c.
Holds(c, f) == task[c].pc \in {"drop", "map"} /\ task[c].frame = f

FramesOk ==
  /\ \A p, q \in 0 .. Pages - 1 : mapped[p] = mapped[q] /\ mapped[p] # NoFrame => p = q
  /\ \A p \in 0 .. Pages - 1 : mapped[p] \notin pool
  /\ \A c \in Cpus : \A f : Holds(c, f) =>
       f \in Frames /\ f \notin pool /\ \A p \in 0 .. Pages - 1 : mapped[p] # f
  /\ \A c, d \in Cpus : \A f : Holds(c, f) /\ Holds(d, f) => c = d
  /\ \A f \in Frames : \/ f \in pool
                       \/ \E p \in 0 .. Pages - 1 : mapped[p] = f
                       \/ \E c \in Cpus : Holds(c, f)

\* c has still to unmap the page.
Unmapping(c, p) ==
  task[c].pc \in {"unmap", "drop"} /\ p >= task[c].page /\ p \in PagesOf(task[c].vma)

MappedOk ==
  \A p \in 0 .. Pages - 1 : mapped[p] # NoFrame =>
    \/ \E s \in DOMAIN used : used[s].map /\ p \in PagesOf(used[s])
    \/ \E c \in Cpus : Unmapping(c, p)

Core ==
  /\ Arena /\ Types /\ (\A c \in Cpus : TaskOk(c))
  /\ FramesOk /\ MappedOk

\* No panic but these is reached.
PanicsLeft == halted \in {"no", "out of memory", "not implemented"}

IInv == Core /\ PanicsLeft

-----------------------------------------------------------------------------
(* The areas, and what a step does to them.                                *)

LEMMA InAreas ==
  ASSUME NEW x
  PROVE  x \in Areas <=>
           \/ x \in FreeAreas(free)
           \/ \E s \in DOMAIN used : x = <<"used", s, 0, used[s]>>
           \/ \E c \in Cpus : \E v \in InFlight(c) : x = <<"flight", c, 0, v>>
BY SMT DEF Areas

LEMMA Kinds ==
  /\ \A L \in Lists : \A x \in FreeAreas(L) : x[1] = "free"
  /\ \A s, v : <<"used", s, 0, v>>[1] = "used" /\ <<"used", s, 0, v>>[2] = s
               /\ <<"used", s, 0, v>>[4] = v
  /\ \A c, v : <<"flight", c, 0, v>>[1] = "flight" /\ <<"flight", c, 0, v>>[2] = c
               /\ <<"flight", c, 0, v>>[4] = v
  /\ \A n, i, v : <<"free", n, i, v>>[1] = "free" /\ <<"free", n, i, v>>[2] = n
                  /\ <<"free", n, i, v>>[4] = v
<1>1. /\ \A s, v : <<"used", s, 0, v>>[1] = "used" /\ <<"used", s, 0, v>>[2] = s
               /\ <<"used", s, 0, v>>[4] = v
      /\ \A c, v : <<"flight", c, 0, v>>[1] = "flight" /\ <<"flight", c, 0, v>>[2] = c
               /\ <<"flight", c, 0, v>>[4] = v
      /\ \A n, i, v : <<"free", n, i, v>>[1] = "free" /\ <<"free", n, i, v>>[2] = n
                  /\ <<"free", n, i, v>>[4] = v
  BY SMT
<1>2. ASSUME NEW L \in Lists, NEW x \in FreeAreas(L)  PROVE x[1] = "free"
  <2>1. PICK n \in 0 .. Pages : \E i \in 1 .. Len(L[n]) : x = <<"free", n, i, L[n][i]>>
    BY InFree, SMT
  <2>2. QED  BY <2>1, SMT
<1>3. QED  BY <1>1, <1>2

LEMMA SameAreas ==
  ASSUME free' = free, used' = used, \A d \in Cpus : InFlight(d)' = InFlight(d)
  PROVE  Areas' = Areas
BY SMT DEF Areas

LEMMA LayoutMove ==
  ASSUME NEW A, Layout(A), NEW a \in A, NEW b, b \notin A, Placed(b),
         PagesOf(b[4]) = PagesOf(a[4])
  PROVE  Layout((A \ {a}) \cup {b})
BY TilesMove DEF Layout

LEMMA LayoutSplit ==
  ASSUME NEW A, Layout(A), NEW a \in A, NEW b, NEW c, b \notin A, c \notin A, b # c,
         Placed(b), Placed(c),
         \A p : p \in PagesOf(a[4]) <=> p \in PagesOf(b[4]) \/ p \in PagesOf(c[4]),
         \A p : ~(p \in PagesOf(b[4]) /\ p \in PagesOf(c[4]))
  PROVE  Layout((A \ {a}) \cup {b, c})
BY TilesSplit DEF Layout

\* An area that is used, and one in the hands of a CPU.
LEMMA UsedArea ==
  ASSUME Arena, NEW s \in DOMAIN used
  PROVE  /\ <<"used", s, 0, used[s]>> \in Areas /\ used[s] \in Area
         /\ used[s].start = s /\ used[s].start < used[s].end
         /\ \A p \in PagesOf(used[s]) : p \in 0 .. Pages - 1
<1>1. <<"used", s, 0, used[s]>> \in Areas  BY InAreas
<1>2. /\ used[s] \in Area /\ used[s].start < used[s].end /\ s = used[s].start
  BY <1>1, Kinds DEF Arena, Layout, Placed
<1>3. \A p \in PagesOf(used[s]) : p \in 0 .. Pages - 1
  BY <1>2, PagesAssumption, SMT DEF Area, PagesOf
<1>4. QED  BY <1>1, <1>2, <1>3

LEMMA FlightArea ==
  ASSUME Arena, NEW c \in Cpus, task[c].pc \in {"insert", "unmap", "drop", "free"}
  PROVE  /\ <<"flight", c, 0, task[c].vma>> \in Areas /\ task[c].vma \in Area
         /\ task[c].vma.start < task[c].vma.end
         /\ \A p \in PagesOf(task[c].vma) : p \in 0 .. Pages - 1
<1>1. task[c].vma \in InFlight(c)  BY DEF InFlight
<1>2. <<"flight", c, 0, task[c].vma>> \in Areas  BY <1>1, InAreas
<1>3. /\ task[c].vma \in Area /\ task[c].vma.start < task[c].vma.end
  BY <1>2, Kinds DEF Arena, Layout, Placed
<1>4. \A p \in PagesOf(task[c].vma) : p \in 0 .. Pages - 1
  BY <1>3, PagesAssumption, SMT DEF Area, PagesOf
<1>5. QED  BY <1>2, <1>3, <1>4

\* A page is in one of them.
LEMMA UsedOnce ==
  ASSUME Arena, NEW s \in DOMAIN used, NEW p \in PagesOf(used[s])
  PROVE  /\ \A r \in DOMAIN used : p \in PagesOf(used[r]) => r = s
         /\ \A c \in Cpus : task[c].pc \in {"insert", "unmap", "drop", "free"} =>
              p \notin PagesOf(task[c].vma)
<1>1. /\ <<"used", s, 0, used[s]>> \in Areas /\ p \in 0 .. Pages - 1
      /\ p \in PagesOf(<<"used", s, 0, used[s]>>[4])
  BY UsedArea, Kinds
<1>2. Tiles(Areas)  BY DEF Arena, Layout
<1>3. ASSUME NEW r \in DOMAIN used, p \in PagesOf(used[r])  PROVE r = s
  <2>1. /\ <<"used", r, 0, used[r]>> \in Areas
        /\ p \in PagesOf(<<"used", r, 0, used[r]>>[4])
    BY <1>3, UsedArea, Kinds
  <2>2. <<"used", r, 0, used[r]>> = <<"used", s, 0, used[s]>>
    BY <1>1, <1>2, <2>1, TilesOne, SMT
  <2>3. QED  BY <2>2, SMT
<1>4. ASSUME NEW c \in Cpus, task[c].pc \in {"insert", "unmap", "drop", "free"},
             p \in PagesOf(task[c].vma)
      PROVE  FALSE
  <2>1. /\ <<"flight", c, 0, task[c].vma>> \in Areas
        /\ p \in PagesOf(<<"flight", c, 0, task[c].vma>>[4])
    BY <1>4, FlightArea, Kinds
  <2>2. <<"flight", c, 0, task[c].vma>> = <<"used", s, 0, used[s]>>
    BY <1>1, <1>2, <2>1, TilesOne, SMT
  <2>3. QED  BY <2>2, Kinds, SMT
<1>5. QED  BY <1>3, <1>4
UsedAreas   == {<<"used", s, 0, used[s]>> : s \in DOMAIN used}
FlightAreas == UNION {{<<"flight", c, 0, vma>> : vma \in InFlight(c)} : c \in Cpus}

LEMMA AreasAre ==
  /\ Areas = FreeAreas(free) \cup UsedAreas \cup FlightAreas
  /\ Areas' = FreeAreas(free') \cup UsedAreas' \cup FlightAreas'
  /\ \A x \in UsedAreas \cup UsedAreas' : x[1] = "used"
  /\ \A x \in FlightAreas \cup FlightAreas' : x[1] = "flight"
<1>1. /\ Areas = FreeAreas(free) \cup UsedAreas \cup FlightAreas
      /\ Areas' = FreeAreas(free') \cup UsedAreas' \cup FlightAreas'
  BY DEF Areas, UsedAreas, FlightAreas, FreeAreas
<1>2. \A x \in UsedAreas \cup UsedAreas' : x[1] = "used"  BY SMT DEF UsedAreas
<1>3. \A x \in FlightAreas \cup FlightAreas' : x[1] = "flight"  BY SMT DEF FlightAreas
<1>4. QED  BY <1>1, <1>2, <1>3

LEMMA FlightIn ==
  ASSUME NEW c \in Cpus, NEW v, InFlight(c) = {}, InFlight(c)' = {v},
         \A d \in Cpus \ {c} : InFlight(d)' = InFlight(d)
  PROVE  LET a == <<"flight", c, 0, v>> IN
         FlightAreas' = FlightAreas \cup {a} /\ a \notin FlightAreas
<1> DEFINE a == <<"flight", c, 0, v>>
<1>1. ASSUME NEW x \in FlightAreas  PROVE x \in FlightAreas' /\ x # a
  <2>1. PICK d \in Cpus : \E w \in InFlight(d) : x = <<"flight", d, 0, w>>
    BY SMT DEF FlightAreas
  <2>2. PICK w \in InFlight(d) : x = <<"flight", d, 0, w>>  BY <2>1
  <2>3. d # c /\ w \in InFlight(d)'  BY <2>2
  <2>4. x # a  BY <2>2, <2>3, SMT
  <2>5. x \in FlightAreas'  BY <2>2, <2>3, SMT DEF FlightAreas
  <2>6. QED  BY <2>4, <2>5
<1>2. ASSUME NEW x \in FlightAreas'  PROVE x \in FlightAreas \cup {a}
  <2>1. PICK d \in Cpus : \E w \in InFlight(d)' : x = <<"flight", d, 0, w>>
    BY SMT DEF FlightAreas
  <2>2. PICK w \in InFlight(d)' : x = <<"flight", d, 0, w>>  BY <2>1
  <2>3. CASE d = c  BY <2>2, <2>3
  <2>4. CASE d # c
    <3>1. w \in InFlight(d)  BY <2>2, <2>4
    <3>2. x \in FlightAreas  BY <2>2, <3>1, SMT DEF FlightAreas
    <3>3. QED  BY <3>2
  <2>5. QED  BY <2>3, <2>4
<1>3. a \in FlightAreas'
  <2>1. v \in InFlight(c)'  OBVIOUS
  <2>2. QED  BY <2>1, SMT DEF FlightAreas
<1>4. QED  BY <1>1, <1>2, <1>3

LEMMA FlightOut ==
  ASSUME NEW c \in Cpus, NEW v, InFlight(c) = {v}, InFlight(c)' = {},
         \A d \in Cpus \ {c} : InFlight(d)' = InFlight(d)
  PROVE  LET a == <<"flight", c, 0, v>> IN
         FlightAreas' = FlightAreas \ {a} /\ a \in FlightAreas
<1> DEFINE a == <<"flight", c, 0, v>>
<1>1. ASSUME NEW x \in FlightAreas'  PROVE x \in FlightAreas /\ x # a
  <2>1. PICK d \in Cpus : \E w \in InFlight(d)' : x = <<"flight", d, 0, w>>
    BY SMT DEF FlightAreas
  <2>2. PICK w \in InFlight(d)' : x = <<"flight", d, 0, w>>  BY <2>1
  <2>3. d # c /\ w \in InFlight(d)  BY <2>2
  <2>4. x # a  BY <2>2, <2>3, SMT
  <2>5. x \in FlightAreas  BY <2>2, <2>3, SMT DEF FlightAreas
  <2>6. QED  BY <2>4, <2>5
<1>2. ASSUME NEW x \in FlightAreas  PROVE x \in FlightAreas' \cup {a}
  <2>1. PICK d \in Cpus : \E w \in InFlight(d) : x = <<"flight", d, 0, w>>
    BY SMT DEF FlightAreas
  <2>2. PICK w \in InFlight(d) : x = <<"flight", d, 0, w>>  BY <2>1
  <2>3. CASE d = c  BY <2>2, <2>3
  <2>4. CASE d # c
    <3>1. w \in InFlight(d)'  BY <2>2, <2>4
    <3>2. x \in FlightAreas'  BY <2>2, <3>1, SMT DEF FlightAreas
    <3>3. QED  BY <3>2
  <2>5. QED  BY <2>3, <2>4
<1>3. a \in FlightAreas
  <2>1. v \in InFlight(c)  OBVIOUS
  <2>2. QED  BY <2>1, SMT DEF FlightAreas
<1>4. QED  BY <1>1, <1>2, <1>3

LEMMA FlightSame ==
  ASSUME \A d \in Cpus : InFlight(d)' = InFlight(d)
  PROVE  FlightAreas' = FlightAreas
BY SMT DEF FlightAreas

LEMMA UsedIn ==
  ASSUME NEW s, NEW v, s \notin DOMAIN used,
         used' = [r \in DOMAIN used \cup {s} |-> IF r = s THEN v ELSE used[r]]
  PROVE  LET b == <<"used", s, 0, v>> IN
         UsedAreas' = UsedAreas \cup {b} /\ b \notin UsedAreas
<1> DEFINE b == <<"used", s, 0, v>>
<1>1. /\ DOMAIN used' = DOMAIN used \cup {s} /\ used'[s] = v
      /\ \A r \in DOMAIN used : used'[r] = used[r]
  OBVIOUS
<1>2. ASSUME NEW x  PROVE x \in UsedAreas' <=> x \in UsedAreas \cup {b}
  BY <1>1, SMT DEF UsedAreas
<1>3. b \notin UsedAreas  BY SMT DEF UsedAreas
<1>4. QED  BY <1>2, <1>3

LEMMA UsedOut ==
  ASSUME NEW s \in DOMAIN used, used' = [r \in DOMAIN used \ {s} |-> used[r]]
  PROVE  LET b == <<"used", s, 0, used[s]>> IN
         UsedAreas' = UsedAreas \ {b} /\ b \in UsedAreas
<1> DEFINE b == <<"used", s, 0, used[s]>>
<1>1. /\ DOMAIN used' = DOMAIN used \ {s}
      /\ \A r \in DOMAIN used : r # s => used'[r] = used[r]
  OBVIOUS
<1>2. ASSUME NEW x  PROVE x \in UsedAreas' <=> x \in UsedAreas \ {b}
  BY <1>1, SMT DEF UsedAreas
<1>3. b \in UsedAreas  BY SMT DEF UsedAreas
<1>4. QED  BY <1>2, <1>3
-----------------------------------------------------------------------------
(* What a step of another CPU leaves alone.                                *)

LEMMA TaskKept ==
  ASSUME NEW d \in Cpus, TaskOk(d), task'[d] = task[d], owned'[d] = owned[d],
         task[d].pc \in {"drop", "lookup", "frame", "map"} =>
           (mapped[task[d].page] = NoFrame => mapped'[task[d].page] = NoFrame)
  PROVE  TaskOk(d)'
BY DEF TaskOk

LEMMA FramesKept ==
  ASSUME FramesOk, mapped' = mapped, pool' = pool,
         \A d \in Cpus : \A f : Holds(d, f)' <=> Holds(d, f)
  PROVE  FramesOk'
BY DEF FramesOk

LEMMA HoldsKept ==
  ASSUME NEW d \in Cpus, task'[d] = task[d]
  PROVE  /\ \A f : Holds(d, f)' <=> Holds(d, f)
         /\ \A p : Unmapping(d, p)' <=> Unmapping(d, p)
         /\ InFlight(d)' = InFlight(d)
BY DEF Holds, Unmapping, InFlight

LEMMA MappedKept ==
  ASSUME MappedOk, mapped' = mapped,
         \A s \in DOMAIN used : s \in DOMAIN used' /\ used'[s] = used[s],
         \A d \in Cpus : \A p : Unmapping(d, p) => Unmapping(d, p)'
  PROVE  MappedOk'
BY DEF MappedOk

LEMMA OwnedKept ==
  ASSUME OwnedOk, owned' = owned, used' = used
  PROVE  OwnedOk'
BY DEF OwnedOk

\* The step of a CPU that stays away from the lists, and from mapped.
LEMMA QuietStep ==
  ASSUME Core, NEW c \in Cpus, NEW t, task' = [task EXCEPT ![c] = t],
         UNCHANGED <<free, used, mapped, pool, owned>>, TaskOk(c)',
         InFlight(c)' = InFlight(c), \A f : Holds(c, f)' <=> Holds(c, f),
         \A p \in 0 .. Pages - 1 :
           mapped[p] # NoFrame /\ Unmapping(c, p) => Unmapping(c, p)'
  PROVE  Core'
<1>1. /\ task'[c] = t /\ \A d \in Cpus \ {c} : task'[d] = task[d]
      /\ task' = [d \in Cpus |-> task'[d]]
  BY DEF Core, Arena, ListTypes, Types
<1>2. ListTypes' /\ Types'  BY <1>1, SMT DEF Core, Arena, ListTypes, Types
<1>3. \A d \in Cpus : InFlight(d)' = InFlight(d)  BY <1>1, HoldsKept
<1>4. Areas' = Areas  BY <1>3, SameAreas
<1>5. Layout(Areas')  BY <1>4 DEF Core, Arena
<1>6. OwnedOk'  BY OwnedKept DEF Core, Arena
<1>7. ASSUME NEW d \in Cpus  PROVE TaskOk(d)'
  <2>1. CASE d = c  BY <2>1
  <2>2. CASE d # c  BY <1>1, <2>2, TaskKept DEF Core, Arena
  <2>3. QED  BY <2>1, <2>2
<1>8. \A d \in Cpus : \A f : Holds(d, f)' <=> Holds(d, f)  BY <1>1, HoldsKept
<1>9. FramesOk'  BY <1>8, FramesKept DEF Core, Arena
<1>10. MappedOk'
  <2>1. \A d \in Cpus \ {c} : \A p : Unmapping(d, p)' <=> Unmapping(d, p)
    BY <1>1, HoldsKept
  <2>2. QED  BY <2>1 DEF Core, Arena, MappedOk
<1>11. QED  BY <1>2, <1>5, <1>6, <1>7, <1>9, <1>10 DEF Core, Arena

LEMMA PanicStep ==
  ASSUME Core, NEW why, Panic(why)
  PROVE  Core'
<1>1. /\ free' = free /\ used' = used /\ mapped' = mapped /\ pool' = pool
      /\ task' = task /\ owned' = owned
  BY DEF Panic
<1>2. ListTypes' /\ Types'  BY <1>1 DEF Core, Arena, ListTypes, Types
<1>3. \A d \in Cpus : task'[d] = task[d]  BY <1>1
<1>4. Areas' = Areas  BY <1>1, <1>3, HoldsKept, SameAreas
<1>5. Layout(Areas')  BY <1>4 DEF Core, Arena
<1>6. OwnedOk'  BY <1>1, OwnedKept DEF Core, Arena
<1>7. \A d \in Cpus : TaskOk(d)'  BY <1>1, <1>3, TaskKept DEF Core, Arena
<1>8. FramesOk'  BY <1>1, <1>3, HoldsKept, FramesKept DEF Core, Arena
<1>9. MappedOk'  BY <1>1, <1>3, HoldsKept, MappedKept DEF Core, Arena
<1>10. QED  BY <1>2, <1>5, <1>6, <1>7, <1>8, <1>9 DEF Core, Arena

-----------------------------------------------------------------------------
(* What a step does to the areas.                                          *)

LEMMA ArenaQuiet ==
  ASSUME Arena, NEW c \in Cpus, NEW t, task' = [task EXCEPT ![c] = t],
         UNCHANGED <<free, used, owned>>, task'[c] = t => InFlight(c)' = InFlight(c)
  PROVE  Arena' /\ task'[c] = t
<1>1. /\ task'[c] = t /\ (\A d \in Cpus \ {c} : task'[d] = task[d])
      /\ task' = [d \in Cpus |-> task'[d]]
  BY DEF Arena, ListTypes
<1>2. \A d \in Cpus : InFlight(d)' = InFlight(d)  BY <1>1, HoldsKept
<1>3. Areas' = Areas  BY <1>2, SameAreas
<1>4. ListTypes' /\ OwnedOk'  BY <1>1, OwnedKept DEF Arena, ListTypes
<1>5. QED  BY <1>1, <1>3, <1>4 DEF Arena

LEMMA ArenaSame ==
  ASSUME Arena, UNCHANGED <<free, used, task, owned>>
  PROVE  Arena'
<1>1. \A d \in Cpus : task'[d] = task[d]  OBVIOUS
<1>2. Areas' = Areas  BY <1>1, HoldsKept, SameAreas
<1>3. ListTypes' /\ OwnedOk'  BY OwnedKept DEF Arena, ListTypes
<1>4. QED  BY <1>2, <1>3 DEF Arena

\* insert_used_vma replaces nothing.
LEMMA AllocateInsertArena ==
  ASSUME Arena, NEW c \in Cpus, AllocateInsert(c)
  PROVE  /\ Arena' /\ task[c].vma \in Area /\ task[c].vma.start < task[c].vma.end
         /\ task[c].vma.start \notin DOMAIN used
         /\ task'[c] = Idle /\ \A d \in Cpus \ {c} : task'[d] = task[d]
         /\ owned'[c] = owned[c] \cup {task[c].vma}
         /\ \A d \in Cpus \ {c} : owned'[d] = owned[d]
         /\ \A r \in DOMAIN used : r \in DOMAIN used' /\ used'[r] = used[r]
         /\ \A d \in Cpus : task[c].vma \notin owned[d]
<1> DEFINE v == task[c].vma
           s == v.start
           a == <<"flight", c, 0, v>>
           b == <<"used", s, 0, v>>
<1>1. /\ task[c].pc = "insert"
      /\ used' = [r \in DOMAIN used \cup {s} |-> IF r = s THEN v ELSE used[r]]
      /\ owned' = [owned EXCEPT ![c] = @ \cup {v}]
      /\ task' = [task EXCEPT ![c] = Idle]
      /\ UNCHANGED <<free, mapped, pool>>
  BY DEF AllocateInsert, Goto
<1>2. v \in Area /\ v.start < v.end /\ a \in Areas  BY <1>1, FlightArea
<1>3. InFlight(c) = {v}  BY <1>1 DEF InFlight
<1>4. s \notin DOMAIN used
  <2>1. SUFFICES ASSUME s \in DOMAIN used  PROVE FALSE  BY SMT
  <2>2. used[s] \in Area /\ used[s].start = s /\ used[s].start < used[s].end
    BY <2>1, UsedArea
  <2>3. s \in PagesOf(used[s])
    <3> HIDE DEF s
    <3>1. QED  BY <2>2, SMT DEF PagesOf, Area
  <2>4. s \in PagesOf(v)
    <3>1. v.start \in PagesOf(v)
      <4> HIDE DEF v
      <4>1. QED  BY <1>2, SMT DEF PagesOf, Area
    <3>2. QED  BY <3>1
  <2>5. QED  BY <1>1, <2>1, <2>3, <2>4, UsedOnce
<1>5. Idle.pc = "idle"  BY SMT DEF Idle
<1>6. /\ task'[c] = Idle /\ (\A d \in Cpus \ {c} : task'[d] = task[d])
      /\ task' = [d \in Cpus |-> task'[d]]
  BY <1>1 DEF Arena, ListTypes
<1>7. a[4] = v /\ b[1] = "used" /\ b[2] = s /\ b[4] = v /\ a[1] = "flight"  BY Kinds
<1>8. v.start = s  OBVIOUS
<1> HIDE DEF v, s
<1>9. InFlight(c)' = {}  BY <1>5, <1>6 DEF InFlight
<1>10. \A d \in Cpus \ {c} : InFlight(d)' = InFlight(d)  BY <1>6, HoldsKept
<1>11. Layout(Areas')
  <2>1. FlightAreas' = FlightAreas \ {a} /\ a \in FlightAreas
    BY <1>3, <1>9, <1>10, FlightOut
  <2>2. UsedAreas' = UsedAreas \cup {b} /\ b \notin UsedAreas  BY <1>1, <1>4, UsedIn
  <2> HIDE DEF a, b
  <2>3. /\ free' = free /\ \A x \in FreeAreas(free) : x[1] = "free"
    BY <1>1, Kinds DEF Arena, ListTypes
  <2>4. b \notin FreeAreas(free) /\ b \notin FlightAreas
    BY <1>7, <2>3, AreasAre, SMT
  <2>5. a \notin FreeAreas(free) /\ a \notin UsedAreas /\ a # b
    BY <1>7, <2>3, AreasAre, SMT
  <2>6. Areas' = (Areas \ {a}) \cup {b} /\ b \notin Areas
    BY <2>1, <2>2, <2>3, <2>4, <2>5, AreasAre
  <2>7. Placed(b)  BY <1>2, <1>7, <1>8, SMT DEF Placed
  <2>8. PagesOf(b[4]) = PagesOf(a[4])  BY <1>7
  <2>9. QED  BY <1>2, <2>6, <2>7, <2>8, LayoutMove DEF Arena
<1>12. /\ DOMAIN used' = DOMAIN used \cup {s} /\ used'[s] = v
       /\ \A r \in DOMAIN used : used'[r] = used[r]
  BY <1>1, <1>4
<1>13. ListTypes'
  <2>1. used' \in [DOMAIN used' -> Area]  BY <1>1, <1>2, <1>12 DEF Arena, ListTypes
  <2>2. owned' \in [Cpus -> SUBSET Area]  BY <1>1, <1>2, SMT DEF Arena, ListTypes
  <2>3. QED  BY <1>1, <1>6, <2>1, <2>2 DEF Arena, ListTypes
<1>14. owned'[c] = owned[c] \cup {v} /\ \A d \in Cpus \ {c} : owned'[d] = owned[d]
  BY <1>1 DEF Arena, ListTypes
<1>15. \A d \in Cpus : v \notin owned[d]  BY <1>4, <1>8 DEF Arena, OwnedOk
<1>16. OwnedOk'
  <2>2. ASSUME NEW d \in Cpus, NEW w \in owned'[d]
        PROVE  w.start \in DOMAIN used' /\ used'[w.start] = w
    <3>1. CASE w = v  BY <1>8, <1>12, <3>1
    <3>2. CASE w # v
      <4>1. w \in owned[d]  BY <1>14, <2>2, <3>2
      <4>2. w.start \in DOMAIN used /\ used[w.start] = w
        BY <4>1 DEF Arena, OwnedOk
      <4>3. QED  BY <1>12, <4>2
    <3>3. QED  BY <3>1, <3>2
  <2>3. ASSUME NEW d \in Cpus, NEW e \in Cpus, d # e, NEW w \in owned'[d], w \in owned'[e]
        PROVE  FALSE
    <3>1. w # v  BY <1>14, <1>15, <2>3
    <3>2. w \in owned[d] /\ w \in owned[e]
      <4>1. \A g \in Cpus : w \in owned'[g] => w \in owned[g]  BY <1>14, <3>1
      <4>2. QED  BY <2>3, <4>1
    <3>3. QED  BY <2>3, <3>2 DEF Arena, OwnedOk
  <2>4. QED  BY <2>2, <2>3 DEF OwnedOk
<1>17. Arena'  BY <1>11, <1>13, <1>16 DEF Arena
<1>18. \A r \in DOMAIN used : r \in DOMAIN used' /\ used'[r] = used[r]  BY <1>12
<1>19. QED  BY <1>2, <1>4, <1>6, <1>14, <1>15, <1>17, <1>18 DEF v, s

\* deallocate takes what its caller owns: the area it finds is that one.
LEMMA DeallocateRemoveArena ==
  ASSUME Arena, NEW c \in Cpus, NEW v \in owned[c], DeallocateRemove(c, v)
  PROVE  /\ Arena' /\ v \in Area /\ v.start < v.end
         /\ v.start \in DOMAIN used /\ used[v.start] = v
         /\ DOMAIN used' = DOMAIN used \ {v.start}
         /\ \A r \in DOMAIN used : r # v.start => used'[r] = used[r]
         /\ task'[c].pc \in {"unmap", "free"} /\ task'[c].vma = v
         /\ task'[c].pc = "unmap" <=> v.map
         /\ task'[c].pc = "unmap" => task'[c].page = v.start
         /\ \A d \in Cpus \ {c} : task'[d] = task[d]
         /\ owned'[c] = owned[c] \ {v} /\ \A d \in Cpus \ {c} : owned'[d] = owned[d]
         /\ UNCHANGED <<free, mapped, pool, halted>>
<1> DEFINE s == v.start
           t == IF v.map THEN [pc |-> "unmap", vma |-> v, page |-> v.start]
                         ELSE [pc |-> "free", vma |-> v]
           a == <<"used", s, 0, v>>
           b == <<"flight", c, 0, v>>
<1>1. task[c] = Idle  BY DEF DeallocateRemove
<1>2. s \in DOMAIN used /\ used[s] = v  BY DEF Arena, OwnedOk
<1>3. /\ task' = [task EXCEPT ![c] = t]
      /\ used' = [r \in DOMAIN used \ {s} |-> used[r]]
      /\ owned' = [owned EXCEPT ![c] = @ \ {v}]
      /\ UNCHANGED <<free, mapped, pool, halted>>
  BY <1>2 DEF DeallocateRemove, Goto
<1>4. a \in Areas /\ v \in Area /\ v.start < v.end  BY <1>2, UsedArea
<1>5. /\ t.pc \in {"unmap", "free"} /\ t.vma = v
      /\ t.pc = "unmap" <=> v.map
      /\ t.pc = "unmap" => t.page = v.start
  <2>1. CASE v.map  BY <2>1, SMT
  <2>2. CASE ~v.map  BY <2>2, SMT
  <2>3. QED  BY <2>1, <2>2
<1>6. Idle.pc = "idle"  BY SMT DEF Idle
<1>7. b[4] = v /\ a[1] = "used" /\ b[1] = "flight" /\ a[4] = v  BY Kinds
<1> HIDE DEF t
<1>8. /\ task'[c] = t /\ (\A d \in Cpus \ {c} : task'[d] = task[d])
      /\ task' = [d \in Cpus |-> task'[d]]
  BY <1>3 DEF Arena, ListTypes
<1>9. InFlight(c) = {}  BY <1>1, <1>6 DEF InFlight
<1>10. InFlight(c)' = {v}  BY <1>5, <1>8 DEF InFlight
<1>11. \A d \in Cpus \ {c} : InFlight(d)' = InFlight(d)  BY <1>8, HoldsKept
<1>12. Layout(Areas')
  <2>1. FlightAreas' = FlightAreas \cup {b} /\ b \notin FlightAreas
    BY <1>9, <1>10, <1>11, FlightIn
  <2>2. UsedAreas' = UsedAreas \ {a} /\ a \in UsedAreas  BY <1>2, <1>3, UsedOut
  <2> HIDE DEF a, b, s
  <2>3. /\ free' = free /\ \A x \in FreeAreas(free) : x[1] = "free"
    BY <1>3, Kinds DEF Arena, ListTypes
  <2>4. b \notin FreeAreas(free) /\ b \notin UsedAreas  BY <1>7, <2>3, AreasAre, SMT
  <2>5. a \notin FreeAreas(free) /\ a \notin FlightAreas /\ a # b  BY <1>7, <2>3, AreasAre, SMT
  <2>6. Areas' = (Areas \ {a}) \cup {b} /\ b \notin Areas
    BY <2>1, <2>2, <2>3, <2>4, <2>5, AreasAre
  <2>7. Placed(b)  BY <1>4, <1>7, SMT DEF Placed
  <2>8. PagesOf(b[4]) = PagesOf(a[4])  BY <1>7
  <2>9. QED  BY <1>4, <2>6, <2>7, <2>8, LayoutMove DEF Arena
<1>13. /\ DOMAIN used' = DOMAIN used \ {s}
       /\ \A r \in DOMAIN used : r # s => used'[r] = used[r]
  BY <1>3
<1>14. ListTypes'
  <2>1. used' \in [DOMAIN used' -> Area]  BY <1>3, <1>13 DEF Arena, ListTypes
  <2>2. owned' \in [Cpus -> SUBSET Area]  BY <1>3, SMT DEF Arena, ListTypes
  <2>3. QED  BY <1>3, <1>8, <2>1, <2>2 DEF Arena, ListTypes
<1>15. owned'[c] = owned[c] \ {v} /\ \A d \in Cpus \ {c} : owned'[d] = owned[d]
  BY <1>3 DEF Arena, ListTypes
<1>16. OwnedOk'
  <2>1. \A d \in Cpus : owned'[d] \subseteq owned[d] /\ v \notin owned'[d]
    BY <1>15 DEF Arena, OwnedOk
  <2>2. ASSUME NEW d \in Cpus, NEW w \in owned'[d]
        PROVE  w.start \in DOMAIN used' /\ used'[w.start] = w
    <3>1. w \in owned[d] /\ w # v  BY <2>1, <2>2
    <3>2. w.start \in DOMAIN used /\ used[w.start] = w
      BY <3>1 DEF Arena, OwnedOk
    <3>3. w.start # s  BY <1>2, <3>1, <3>2
    <3>4. QED  BY <1>13, <3>2, <3>3
  <2>3. ASSUME NEW d \in Cpus, NEW e \in Cpus, d # e, NEW w \in owned'[d], w \in owned'[e]
        PROVE  FALSE
    <3>1. w \in owned[d] /\ w \in owned[e]  BY <2>1, <2>3
    <3>2. QED  BY <2>3, <3>1 DEF Arena, OwnedOk
  <2>4. QED  BY <2>2, <2>3 DEF OwnedOk
<1>17. Arena'  BY <1>12, <1>14, <1>16 DEF Arena
<1>18. QED  BY <1>2, <1>3, <1>4, <1>5, <1>8, <1>13, <1>15, <1>17

LEMMA DeallocateInsertArena ==
  ASSUME Arena, NEW c \in Cpus, DeallocateInsert(c)
  PROVE  Arena' /\ task'[c] = Idle /\ \A d \in Cpus \ {c} : task'[d] = task[d]
<1> DEFINE v == task[c].vma
           n == Size(v)
           a == <<"flight", c, 0, v>>
           b == <<"free", n, Len(free[n]) + 1, v>>
<1>1. /\ task[c].pc = "free"
      /\ free' = [free EXCEPT ![n] = Append(@, v)]
      /\ task' = [task EXCEPT ![c] = Idle]
      /\ UNCHANGED <<used, owned>>
  BY DEF DeallocateInsert, Goto, insert_free_vma
<1>2. v \in Area /\ v.start < v.end /\ a \in Areas  BY <1>1, FlightArea
<1>3. InFlight(c) = {v}  BY <1>1 DEF InFlight
<1>4. n \in 0 .. Pages
  <2> HIDE DEF v
  <2>1. QED  BY <1>2, PagesAssumption, SMT DEF Size, Area
<1>5. Idle.pc = "idle"  BY SMT DEF Idle
<1>6. /\ task'[c] = Idle /\ (\A d \in Cpus \ {c} : task'[d] = task[d])
      /\ task' = [d \in Cpus |-> task'[d]]
  BY <1>1 DEF Arena, ListTypes
<1>7. a[4] = v /\ b[1] = "free" /\ b[2] = n /\ b[4] = v /\ a[1] = "flight"  BY Kinds
<1>8. n = Size(v)  OBVIOUS
<1> HIDE DEF v, n
<1>9. InFlight(c)' = {}  BY <1>5, <1>6 DEF InFlight
<1>10. \A d \in Cpus \ {c} : InFlight(d)' = InFlight(d)  BY <1>6, HoldsKept
<1>11. free \in Lists  BY DEF Arena, ListTypes
<1>12. /\ free' \in Lists /\ b \notin FreeAreas(free)
       /\ FreeAreas(free') = FreeAreas(free) \cup {b}
  BY <1>1, <1>2, <1>4, <1>11, Push
<1>13. Layout(Areas')
  <2>1. FlightAreas' = FlightAreas \ {a} /\ a \in FlightAreas
    BY <1>3, <1>9, <1>10, FlightOut
  <2>2. UsedAreas' = UsedAreas  BY <1>1 DEF UsedAreas
  <2> HIDE DEF a, b
  <2>3. \A x \in FreeAreas(free) : x[1] = "free"  BY <1>11, Kinds
  <2>4. b \notin UsedAreas /\ b \notin FlightAreas  BY <1>7, AreasAre, SMT
  <2>5. a \notin FreeAreas(free) /\ a \notin UsedAreas /\ a # b  BY <1>7, <2>3, AreasAre, SMT
  <2>6. Areas' = (Areas \ {a}) \cup {b} /\ b \notin Areas
    BY <1>12, <2>1, <2>2, <2>4, <2>5, AreasAre
  <2>7. Placed(b)  BY <1>2, <1>7, <1>8, SMT DEF Placed
  <2>8. PagesOf(b[4]) = PagesOf(a[4])  BY <1>7
  <2>9. QED  BY <1>2, <2>6, <2>7, <2>8, LayoutMove DEF Arena
<1>14. ListTypes' /\ OwnedOk'
  BY <1>1, <1>6, <1>12, OwnedKept DEF Arena, ListTypes
<1>15. QED  BY <1>6, <1>13, <1>14 DEF Arena

\* find_free_first_fit splits the area it takes when it is longer.
LEMMA AllocateFindArena ==
  ASSUME Least, Arena, NEW c \in Cpus, NEW size \in Nat, size > 0,
         size + PageSize - 1 < Word, NEW map \in BOOLEAN, NEW atomic \in BOOLEAN,
         AllocateFind(c, size, map, atomic), Fitting(aligned_size(size)) # {}
  PROVE  \E w \in Area :
           /\ Arena' /\ Size(w) = aligned_size(size) /\ w.map = map
           /\ task'[c] = [pc |-> "insert", vma |-> w]
           /\ \A d \in Cpus \ {c} : task'[d] = task[d]
<1> DEFINE n == aligned_size(size)
           best == Min(Fitting(n))
           v == Top(free[best])
           rest == [free EXCEPT ![best] = Below(@)]
           w == VMA(v.start, v.start + n, map)
           r == VMA(v.start + n, v.end, FALSE)
           t == [pc |-> "insert", vma |-> w]
           a == <<"free", best, Len(free[best]), v>>
           b == <<"flight", c, 0, w>>
           k == <<"free", Size(r), Len(rest[Size(r)]) + 1, r>>
<1>1. task[c] = Idle /\ free \in Lists  BY DEF AllocateFind, Arena, ListTypes
<1>2. n \in Nat \ {0} /\ n = aligned_size(size)  BY AlignedSize
<1>3. Fitting(n) # {}  OBVIOUS
<1>4. QED
  <2>1. /\ free' = IF Size(v) > n THEN insert_free_vma(rest, r) ELSE rest
        /\ task' = [task EXCEPT ![c] = t]
        /\ UNCHANGED <<used, owned>>
    BY <1>3 DEF AllocateFind, Goto
  <2>2. best \in 0 .. Pages /\ best >= n /\ free[best] # <<>>
    <3>0. DOMAIN free = 0 .. Pages /\ 0 .. Pages \subseteq Nat
      BY <1>1, PagesAssumption, SMT DEF Lists
    <3>1. Fitting(n) \in SUBSET Nat  BY <3>0 DEF Fitting
    <3>2. best \in Fitting(n)  BY <1>3, <3>1, MinIn
    <3>3. QED  BY <3>0, <3>2 DEF Fitting
  <2> HIDE DEF n, best
  <2>3. /\ rest \in Lists /\ v \in Area
        /\ a \in FreeAreas(free) /\ FreeAreas(rest) = FreeAreas(free) \ {a}
    BY <1>1, <2>2, Pop
  <2>4. a[1] = "free" /\ a[2] = best /\ a[4] = v /\ b[1] = "flight" /\ b[4] = w
        /\ k[1] = "free" /\ k[2] = Size(r) /\ k[4] = r
    BY Kinds
  <2>5. t.pc = "insert" /\ t.vma = w /\ Idle.pc = "idle"  BY SMT DEF Idle
  <2>6. /\ w.start = v.start /\ w.end = v.start + n
        /\ r.start = v.start + n /\ r.end = v.end /\ r.map = FALSE
        /\ Size(w) = w.end - w.start /\ Size(r) = r.end - r.start
        /\ w.map = map /\ w = [start |-> v.start, end |-> v.start + n, map |-> map]
        /\ r = [start |-> v.start + n, end |-> v.end, map |-> FALSE]
    BY SMT DEF VMA, Size
  <2> HIDE DEF v, rest, w, r, t
  <2>7. v.start < v.end /\ best = Size(v)
    <3>1. a \in Areas  BY <2>3, AreasAre
    <3>2. Placed(a)  BY <1>1, <3>1 DEF Arena, Layout
    <3>3. QED  BY <2>4, <3>2 DEF Placed
  <2>8. /\ v.start \in 0 .. Pages /\ v.end \in 0 .. Pages /\ Pages \in Nat
        /\ best = v.end - v.start
    BY <2>3, <2>7, PagesAssumption, SMT DEF Area, Size
  <2>9. /\ w \in Area /\ w.start < w.end
        /\ Size(w) = n /\ Size(r) = best - n
    BY <1>2, <2>2, <2>6, <2>8, SMT DEF Area
  <2>10. /\ task'[c] = t /\ (\A d \in Cpus \ {c} : task'[d] = task[d])
         /\ task' = [d \in Cpus |-> task'[d]]
    BY <1>1, <2>1 DEF Arena, ListTypes
  <2>11. InFlight(c) = {}  BY <1>1, <2>5 DEF InFlight
  <2>12. InFlight(c)' = {w}  BY <2>5, <2>10 DEF InFlight
  <2>13. \A d \in Cpus \ {c} : InFlight(d)' = InFlight(d)  BY <2>10, HoldsKept
  <2>14. FlightAreas' = FlightAreas \cup {b} /\ b \notin FlightAreas
    BY <2>11, <2>12, <2>13, FlightIn
  <2>15. UsedAreas' = UsedAreas  BY <2>1 DEF UsedAreas
  <2>16. Placed(b)  BY <2>4, <2>9, SMT DEF Placed
  <2>17. \A x \in FreeAreas(free) : x[1] = "free"  BY <1>1, Kinds
  <2> HIDE DEF b, a
  <2>18. a \notin UsedAreas /\ a \notin FlightAreas  BY <2>4, AreasAre, SMT
  <2>19. b \notin Areas  BY <2>4, <2>14, <2>17, AreasAre, SMT
  <2>20. free' \in Lists /\ Layout(Areas')
    <3>1. CASE Size(v) > n
      <4>1. r \in Area /\ r.start < r.end /\ Size(r) \in 0 .. Pages /\ Size(r) # best
        BY <1>2, <2>2, <2>6, <2>7, <2>8, <2>9, <3>1, SMT DEF Area
      <4>2. free' = [rest EXCEPT ![Size(r)] = Append(@, r)]
        BY <2>1, <3>1 DEF insert_free_vma
      <4>3. /\ free' \in Lists /\ k \notin FreeAreas(rest)
            /\ FreeAreas(free') = FreeAreas(rest) \cup {k}
        BY <2>3, <4>1, <4>2, Push
      <4> HIDE DEF k
      <4>4. k # a /\ k # b /\ k \notin FreeAreas(free)  BY <2>3, <2>4, <4>1, <4>3, SMT
      <4>5. k \notin UsedAreas /\ k \notin FlightAreas  BY <2>4, AreasAre, SMT
      <4>6. k \notin Areas /\ Areas' = (Areas \ {a}) \cup {b, k}
        BY <2>3, <2>14, <2>15, <2>18, <4>3, <4>4, <4>5, AreasAre
      <4>7. Placed(k)  BY <2>4, <4>1, SMT DEF Placed
      <4>8. ASSUME NEW p
            PROVE  /\ p \in PagesOf(v) <=> p \in PagesOf(w) \/ p \in PagesOf(r)
                   /\ ~(p \in PagesOf(w) /\ p \in PagesOf(r))
        BY <1>2, <2>2, <2>6, <2>8, SMT DEF PagesOf
      <4>9. a \in Areas  BY <2>3, AreasAre
      <4>10. Layout((Areas \ {a}) \cup {b, k})
        <5>1. /\ \A p : p \in PagesOf(a[4]) <=> p \in PagesOf(b[4]) \/ p \in PagesOf(k[4])
              /\ \A p : ~(p \in PagesOf(b[4]) /\ p \in PagesOf(k[4]))
          BY <2>4, <4>8
        <5>2. Layout(Areas)  BY <1>1 DEF Arena
        <5>3. QED
          BY <2>16, <2>19, <4>4, <4>6, <4>7, <4>9, <5>1, <5>2, LayoutSplit
      <4>11. QED  BY <4>3, <4>6, <4>10
    <3>2. CASE ~(Size(v) > n)
      <4>1. free' = rest  BY <2>1, <3>2
      <4>2. v.end = v.start + n  BY <1>2, <2>2, <2>7, <2>8, <3>2, SMT
      <4>3. PagesOf(w) = PagesOf(v)  BY <2>6, <4>2 DEF PagesOf
      <4>4. a \in Areas  BY <2>3, AreasAre
      <4>5. Areas' = (Areas \ {a}) \cup {b}
        BY <2>3, <2>14, <2>15, <2>18, <2>19, <4>1, AreasAre
      <4>6. PagesOf(b[4]) = PagesOf(a[4])  BY <2>4, <4>3
      <4>7. Layout(Areas')
        BY <1>1, <2>16, <2>19, <4>4, <4>5, <4>6, LayoutMove DEF Arena
      <4>8. QED  BY <2>3, <4>1, <4>7
    <3>3. QED  BY <3>1, <3>2
  <2>21. ListTypes' /\ OwnedOk'
    BY <2>1, <2>10, <2>20, OwnedKept DEF Arena, ListTypes
  <2>22. Arena'  BY <2>20, <2>21 DEF Arena
  <2>23. t = [pc |-> "insert", vma |-> w] /\ w.map = map  BY <2>6 DEF t
  <2>24. QED  BY <1>2, <2>9, <2>10, <2>22, <2>23

-----------------------------------------------------------------------------
(* Where a CPU is in a fault, or in the loop of deallocate.                *)

\* The page a CPU has faulted on is in an area of its own: no other is at it.
LEMMA FaultApart ==
  ASSUME Core, NEW c \in Cpus, NEW d \in Cpus, c # d,
         task[c].pc \in {"lookup", "frame", "map"},
         task[d].pc \in {"drop", "lookup", "frame", "map"}
  PROVE  task[d].page # task[c].page
<1> DEFINE p == task[c].page
<1> SUFFICES ASSUME task[d].page = p  PROVE FALSE  BY SMT
<1>1. PICK vma \in owned[c] : p \in PagesOf(vma)  BY DEF Core, Arena, TaskOk
<1>2. vma.start \in DOMAIN used /\ used[vma.start] = vma /\ vma \notin owned[d]
  BY <1>1 DEF Core, Arena, OwnedOk
<1>3. p \in PagesOf(used[vma.start])  BY <1>1, <1>2
<1>4. CASE task[d].pc = "drop"
  <2>1. /\ p \in task[d].vma.start .. task[d].vma.end /\ p # task[d].vma.end
    BY <1>4 DEF Core, Arena, TaskOk
  <2>2. task[d].vma \in Area  BY <1>4, FlightArea DEF Core
  <2>3. p \in PagesOf(task[d].vma)  BY <2>1, <2>2, SMT DEF PagesOf, Area
  <2>4. QED  BY <1>2, <1>3, <1>4, <2>3, UsedOnce DEF Core
<1>5. CASE task[d].pc # "drop"
  <2>1. PICK v \in owned[d] : p \in PagesOf(v)  BY <1>5 DEF Core, Arena, TaskOk
  <2>2. v.start \in DOMAIN used /\ used[v.start] = v  BY <2>1 DEF Core, Arena, OwnedOk
  <2>3. v.start = vma.start  BY <1>2, <1>3, <2>1, <2>2, UsedOnce DEF Core
  <2>4. QED  BY <1>2, <2>1, <2>2, <2>3
<1>6. QED  BY <1>4, <1>5
\* The loop of deallocate, at a page.
LEMMA LoopPage ==
  ASSUME Core, NEW c \in Cpus, task[c].pc \in {"unmap", "drop"}
  PROVE  /\ task[c].vma \in Area /\ task[c].page \in Nat
         /\ task[c].page \in task[c].vma.start .. task[c].vma.end
         /\ task[c].page # task[c].vma.end =>
              /\ task[c].page \in 0 .. Pages - 1
              /\ task[c].page \in PagesOf(task[c].vma)
              /\ task[c].page + 1 \in task[c].vma.start .. task[c].vma.end
<1>1. task[c].vma \in Area  BY FlightArea DEF Core
<1>2. task[c].page \in task[c].vma.start .. task[c].vma.end  BY DEF Core, Arena, TaskOk
<1>3. QED  BY <1>1, <1>2, PagesAssumption, SMT DEF Area, PagesOf

-----------------------------------------------------------------------------
(* The invariant holds.                                                    *)

LEMMA InvInit == Init => IInv
<1> SUFFICES ASSUME Init  PROVE IInv  BY SMT
<1> DEFINE L == [n \in 0 .. Pages |-> <<>>]
           v == VMA(0, Pages, FALSE)
           b == <<"free", Pages, Len(L[Pages]) + 1, v>>
<1>1. /\ free = insert_free_vma(L, v) /\ used = <<>> /\ pool = Frames
      /\ mapped = [p \in 0 .. Pages - 1 |-> NoFrame]
      /\ task = [c \in Cpus |-> Idle] /\ owned = [c \in Cpus |-> {}] /\ halted = "no"
  BY DEF Init
<1>2. Pages \in Nat \ {0}  BY PagesAssumption, SMT
<1>3. v \in Area /\ v.start = 0 /\ v.end = Pages /\ Size(v) = Pages
  BY <1>2, SMT DEF v, VMA, Area, Size
<1>4. /\ \A c \in Cpus : task[c] = Idle /\ owned[c] = {}
      /\ \A p \in 0 .. Pages - 1 : mapped[p] = NoFrame
      /\ DOMAIN used = {} /\ Idle.pc = "idle" /\ 0 <= Pages - 1
  BY <1>1, <1>2, SMT DEF Idle
<1>5. \A c \in Cpus : /\ InFlight(c) = {} /\ (\A f : ~Holds(c, f))
  BY <1>4 DEF InFlight, Holds
<1>6. b[1] = "free" /\ b[2] = Pages /\ b[4] = v  BY Kinds
<1>7. L \in Lists /\ Pages \in 0 .. Pages /\ \A n \in 0 .. Pages : L[n] = <<>>
  BY <1>2, SMT DEF Lists
<1>8. FreeAreas(L) = {}
  <2> HIDE DEF L
  <2>1. \A n \in 0 .. Pages : 1 .. Len(L[n]) = {}  BY <1>7, SMT
  <2>2. \A x : x \notin FreeAreas(L)  BY <1>7, <2>1, InFree
  <2>3. QED  BY <2>2
<1> HIDE DEF L, v
<1>9. free = [L EXCEPT ![Pages] = Append(@, v)]
  BY <1>1, <1>3 DEF insert_free_vma
<1>10. free \in Lists /\ FreeAreas(free) = {b}
  <2>1. free \in Lists /\ FreeAreas(free) = FreeAreas(L) \cup {b}
    <3>1. L \in Lists /\ Pages \in 0 .. Pages /\ v \in Area  BY <1>3, <1>7
    <3>2. QED  BY <1>9, <3>1, Push
  <2>2. QED  BY <1>8, <2>1
<1> HIDE DEF b
<1>11. Areas = {b}
  <2>1. UsedAreas = {}  BY <1>4 DEF UsedAreas
  <2>2. FlightAreas = {}  BY <1>5 DEF FlightAreas
  <2>3. QED  BY <1>10, <2>1, <2>2, AreasAre
<1>12. Placed(b)  BY <1>2, <1>3, <1>6, SMT DEF Placed
<1>13. Tiles({b})
  <2>1. \A p \in 0 .. Pages - 1 : p \in PagesOf(b[4])  BY <1>2, <1>3, <1>6, SMT DEF PagesOf
  <2>2. QED  BY <2>1 DEF Tiles
<1>14. Layout(Areas)  BY <1>11, <1>12, <1>13 DEF Layout
<1>15. ListTypes /\ Types
  <2>1. used \in [DOMAIN used -> Area]  BY <1>1, SMT
  <2>2. mapped \in [0 .. Pages - 1 -> Frames \cup {NoFrame}]  BY <1>1
  <2>3. task = [c \in Cpus |-> task[c]]  BY <1>1
  <2>4. owned \in [Cpus -> SUBSET Area]  BY <1>1, SMT
  <2>5. QED  BY <1>1, <1>10, <2>1, <2>2, <2>3, <2>4 DEF ListTypes, Types
<1>16. OwnedOk  BY <1>4 DEF OwnedOk
<1>17. \A c \in Cpus : TaskOk(c)  BY <1>4 DEF TaskOk
<1>18. FramesOk  BY <1>1, <1>4, <1>5, FramesAssumption DEF FramesOk
<1>19. MappedOk  BY <1>4 DEF MappedOk
<1>20. QED
  BY <1>1, <1>14, <1>15, <1>16, <1>17, <1>18, <1>19 DEF IInv, Core, Arena, PanicsLeft

\* The steps of a CPU.
LEMMA CpuStep ==
  ASSUME Least, IInv, NEW c \in Cpus, Call(c) \/ Step(c)
  PROVE  IInv'
<1>1. ASSUME NEW size \in Sizes, NEW map \in BOOLEAN, NEW atomic \in BOOLEAN,
             AllocateFind(c, size, map, atomic)
      PROVE  IInv'
  <2> USE <1>1
  <2> DEFINE n == aligned_size(size)
  <2>1. Core /\ Arena /\ task[c] = Idle  BY DEF AllocateFind, IInv, Core
  <2>2. CASE Fitting(n) = {}
    <3>1. UNCHANGED vars  BY <2>2 DEF AllocateFind
    <3>2. Panic(halted) /\ halted' = halted  BY <3>1 DEF vars, Panic
    <3>3. QED  BY <2>1, <3>2, PanicStep DEF IInv, PanicsLeft
  <2>3. CASE Fitting(n) # {}
    <3>1. UNCHANGED <<used, mapped, pool, owned>> /\ halted' \in {"no", "not implemented"}
      BY <2>3 DEF AllocateFind
    <3>2. PICK w \in Area :
            /\ Arena' /\ Size(w) = n /\ task'[c] = [pc |-> "insert", vma |-> w]
            /\ \A d \in Cpus \ {c} : task'[d] = task[d]
      <4>1. size \in Nat /\ size > 0 /\ size + PageSize - 1 < Word  BY SizesOk
      <4>2. QED  BY <2>1, <2>3, <4>1, AllocateFindArena
    <3>3. task'[c].pc = "insert" /\ task'[c].vma = w /\ Idle.pc = "idle"  BY <3>2, SMT DEF Idle
    <3>4. (\A g : ~Holds(c, g) /\ ~Holds(c, g)') /\ (\A q : ~Unmapping(c, q))
      BY <2>1, <3>3 DEF Holds, Unmapping
    <3>5. \A d \in Cpus \ {c} : /\ \A g : Holds(d, g)' <=> Holds(d, g)
                                /\ \A q : Unmapping(d, q)' <=> Unmapping(d, q)
      BY <3>2, HoldsKept
    <3>6. ASSUME NEW d \in Cpus  PROVE TaskOk(d)'
      <4>1. CASE d = c
        <5>1. \E z \in Sizes : Size(w) = aligned_size(z)  BY <3>2
        <5>2. QED  BY <3>3, <4>1, <5>1 DEF TaskOk
      <4>2. CASE d # c  BY <2>1, <3>1, <3>2, <4>2, TaskKept DEF Core
      <4>3. QED  BY <4>1, <4>2
    <3>7. Types'  BY <2>1, <3>1 DEF Core, Types
    <3>8. FramesOk'  BY <2>1, <3>1, <3>4, <3>5, FramesKept DEF Core
    <3>9. MappedOk'  BY <2>1, <3>1, <3>4, <3>5, MappedKept DEF Core
    <3>10. QED
      BY <3>1, <3>2, <3>6, <3>7, <3>8, <3>9 DEF Core, IInv, PanicsLeft
  <2>4. QED  BY <2>2, <2>3
<1>2. ASSUME AllocateInsert(c)  PROVE IInv'
  <2> USE <1>2
  <2>1. /\ Core /\ Arena /\ task[c].pc = "insert" /\ UNCHANGED <<free, mapped, pool, halted>>
    BY DEF AllocateInsert, IInv, Core
  <2>2. /\ Arena' /\ task'[c] = Idle /\ (\A d \in Cpus \ {c} : task'[d] = task[d])
        /\ (\A d \in Cpus \ {c} : owned'[d] = owned[d])
        /\ (\A r \in DOMAIN used : r \in DOMAIN used' /\ used'[r] = used[r])
    BY <2>1, AllocateInsertArena
  <2>3. Idle.pc = "idle"  BY SMT DEF Idle
  <2>4. /\ (\A g : ~Holds(c, g) /\ ~Holds(c, g)') /\ (\A q : ~Unmapping(c, q))
    BY <2>1, <2>2, <2>3 DEF Holds, Unmapping
  <2>5. \A d \in Cpus \ {c} : /\ \A g : Holds(d, g)' <=> Holds(d, g)
                              /\ \A q : Unmapping(d, q)' <=> Unmapping(d, q)
    BY <2>2, HoldsKept
  <2>6. ASSUME NEW d \in Cpus  PROVE TaskOk(d)'
    <3>1. CASE d = c  BY <2>2, <2>3, <3>1 DEF TaskOk
    <3>2. CASE d # c  BY <2>1, <2>2, <3>2, TaskKept DEF Core
    <3>3. QED  BY <3>1, <3>2
  <2>7. Types'  BY <2>1 DEF Core, Types
  <2>8. FramesOk'  BY <2>1, <2>4, <2>5, FramesKept DEF Core
  <2>9. MappedOk'  BY <2>1, <2>2, <2>4, <2>5, MappedKept DEF Core
  <2>10. QED  BY <2>1, <2>2, <2>6, <2>7, <2>8, <2>9 DEF Core, IInv, PanicsLeft
<1>3. ASSUME NEW v \in owned[c], DeallocateRemove(c, v)  PROVE IInv'
  <2> USE <1>3
  <2>1. Core /\ Arena /\ task[c] = Idle  BY DEF DeallocateRemove, IInv, Core
  <2>2. /\ Arena' /\ v \in Area /\ v.start < v.end
        /\ v.start \in DOMAIN used /\ used[v.start] = v
        /\ DOMAIN used' = DOMAIN used \ {v.start}
        /\ (\A r \in DOMAIN used : r # v.start => used'[r] = used[r])
        /\ (\A d \in Cpus \ {c} : task'[d] = task[d])
        /\ (\A d \in Cpus \ {c} : owned'[d] = owned[d])
        /\ UNCHANGED <<free, mapped, pool, halted>>
    BY <2>1, DeallocateRemoveArena
  <2>3. /\ task'[c].pc \in {"unmap", "free"} /\ task'[c].vma = v
        /\ task'[c].pc = "unmap" <=> v.map
        /\ task'[c].pc = "unmap" => task'[c].page = v.start
    BY <2>1, DeallocateRemoveArena
  <2>4. Idle.pc = "idle"  BY SMT DEF Idle
  <2>5. (\A g : ~Holds(c, g) /\ ~Holds(c, g)') /\ (\A q : ~Unmapping(c, q))
    BY <2>1, <2>2, <2>3, <2>4 DEF Holds, Unmapping
  <2>6. \A d \in Cpus \ {c} : /\ \A g : Holds(d, g)' <=> Holds(d, g)
                              /\ \A q : Unmapping(d, q)' <=> Unmapping(d, q)
    BY <2>2, HoldsKept
  <2>7. ASSUME NEW d \in Cpus  PROVE TaskOk(d)'
    <3>1. CASE d = c
      <4>1. v.start \in v.start .. v.end  BY <2>2, SMT DEF Area
      <4>2. QED  BY <2>2, <2>3, <3>1, <4>1 DEF TaskOk
    <3>2. CASE d # c  BY <2>1, <2>2, <3>2, TaskKept DEF Core
    <3>3. QED  BY <3>1, <3>2
  <2>8. Types'  BY <2>1, <2>2 DEF Core, Types
  <2>9. FramesOk'  BY <2>1, <2>2, <2>5, <2>6, FramesKept DEF Core
  <2>10. MappedOk'
    <3> SUFFICES ASSUME NEW q \in 0 .. Pages - 1, mapped'[q] # NoFrame
                 PROVE  \/ \E r \in DOMAIN used' : used'[r].map /\ q \in PagesOf(used'[r])
                        \/ \E d \in Cpus : Unmapping(d, q)'
      BY DEF MappedOk
    <3>1. \/ \E r \in DOMAIN used : used[r].map /\ q \in PagesOf(used[r])
          \/ \E d \in Cpus : Unmapping(d, q)
      BY <2>1, <2>2 DEF Core, MappedOk
    <3>2. CASE \E d \in Cpus : Unmapping(d, q)  BY <2>5, <2>6, <3>2
    <3>3. ASSUME NEW r \in DOMAIN used, used[r].map, q \in PagesOf(used[r])
          PROVE  \/ \E r1 \in DOMAIN used' : used'[r1].map /\ q \in PagesOf(used'[r1])
                 \/ \E d \in Cpus : Unmapping(d, q)'
      <4>1. CASE r = v.start
        <5>1. v.map /\ q \in PagesOf(v)  BY <2>2, <3>3, <4>1
        <5>2. q >= v.start  BY <2>2, <5>1, SMT DEF PagesOf, Area
        <5>3. Unmapping(c, q)'  BY <2>2, <2>3, <5>1, <5>2 DEF Unmapping
        <5>4. QED  BY <5>3
      <4>2. CASE r # v.start  BY <2>2, <3>3, <4>2
      <4>3. QED  BY <4>1, <4>2
    <3>4. QED  BY <3>1, <3>2, <3>3
  <2>11. QED
    BY <2>1, <2>2, <2>7, <2>8, <2>9, <2>10 DEF Core, IInv, PanicsLeft
<1>4. ASSUME DeallocateUnmap(c)  PROVE IInv'
  <2> USE <1>4
  <2> DEFINE v == task[c].vma
             p == task[c].page
             f == mapped[p]
  <2>1. /\ Core /\ task[c].pc = "unmap" /\ halted = "no" /\ halted' = halted
        /\ UNCHANGED <<free, used, pool, owned>>
    BY DEF DeallocateUnmap, IInv
  <2>2. /\ v \in Area /\ p \in Nat /\ p \in v.start .. v.end
        /\ p # v.end => p \in 0 .. Pages - 1 /\ p \in PagesOf(v) /\ p + 1 \in v.start .. v.end
    BY <2>1, LoopPage
  <2>3. InFlight(c) = {v} /\ (\A g : ~Holds(c, g))
        /\ (\A q : Unmapping(c, q) <=> q >= p /\ q \in PagesOf(v))
    BY <2>1 DEF InFlight, Holds, Unmapping
  <2>4. CASE /\ p = v.end /\ mapped' = mapped
             /\ task' = [task EXCEPT ![c] = [pc |-> "free", vma |-> v]]
    <3> DEFINE t == [pc |-> "free", vma |-> v]
    <3>1. t.pc = "free" /\ t.vma = v  BY SMT
    <3>2. task' = [task EXCEPT ![c] = t]  BY <2>4
    <3> HIDE DEF t, v, p, f
    <3>3. task'[c] = t  BY <2>1, <3>2 DEF Core, Arena, ListTypes, Types
    <3>4. InFlight(c)' = {v} /\ \A g : ~Holds(c, g)'  BY <3>1, <3>3 DEF InFlight, Holds
    <3>5. TaskOk(c)'  BY <3>1, <3>3 DEF TaskOk
    <3>6. \A q \in 0 .. Pages - 1 : ~Unmapping(c, q)
      <4>1. \A q : ~(q >= p /\ q \in PagesOf(v))  BY <2>2, <2>4, SMT DEF PagesOf, Area
      <4>2. QED  BY <2>3, <4>1
    <3>7. UNCHANGED <<free, used, mapped, pool, owned>>  BY <2>1, <2>4
    <3>8. Core'  BY <2>1, <2>3, <3>2, <3>4, <3>5, <3>6, <3>7, QuietStep
    <3>9. QED  BY <2>1, <3>8 DEF IInv, PanicsLeft
  <2>5. CASE /\ p # v.end /\ f = NoFrame /\ mapped' = [mapped EXCEPT ![p] = NoFrame]
             /\ task' = [task EXCEPT ![c] = [pc |-> "unmap", vma |-> v, page |-> p + 1]]
    <3> DEFINE t == [pc |-> "unmap", vma |-> v, page |-> p + 1]
    <3>1. t.pc = "unmap" /\ t.vma = v /\ t.page = p + 1  BY SMT
    <3>2. task' = [task EXCEPT ![c] = t]  BY <2>5
    <3>3. mapped' = mapped
      <4>1. mapped[p] = NoFrame  BY <2>5
      <4> HIDE DEF p
      <4>2. QED  BY <2>1, <2>2, <2>5, <4>1, SMT DEF Core, Arena, ListTypes, Types
    <3> HIDE DEF t
    <3>4. mapped[p] = NoFrame  BY <2>5
    <3> HIDE DEF v, p, f
    <3>5. task'[c] = t  BY <2>1, <3>2 DEF Core, Arena, ListTypes, Types
    <3>6. InFlight(c)' = {v} /\ \A g : ~Holds(c, g)'  BY <3>1, <3>5 DEF InFlight, Holds
    <3>7. TaskOk(c)'  BY <2>2, <2>5, <3>1, <3>5 DEF TaskOk
    <3>8. ASSUME NEW q \in 0 .. Pages - 1, mapped[q] # NoFrame, Unmapping(c, q)
          PROVE  Unmapping(c, q)'
      <4>1. q >= p /\ q \in PagesOf(v) /\ q # p  BY <2>3, <3>4, <3>8
      <4>2. q >= p + 1  BY <2>2, <4>1, SMT
      <4>3. QED  BY <3>1, <3>5, <4>1, <4>2 DEF Unmapping
    <3>9. UNCHANGED <<free, used, mapped, pool, owned>>  BY <2>1, <3>3
    <3>10. Core'  BY <2>1, <2>3, <3>2, <3>6, <3>7, <3>8, <3>9, QuietStep
    <3>11. QED  BY <2>1, <3>10 DEF IInv, PanicsLeft
  <2>6. CASE /\ p # v.end /\ f # NoFrame /\ mapped' = [mapped EXCEPT ![p] = NoFrame]
             /\ task' = [task EXCEPT ![c] =
                           [pc |-> "drop", vma |-> v, page |-> p, frame |-> f]]
    <3> DEFINE t == [pc |-> "drop", vma |-> v, page |-> p, frame |-> f]
    <3>1. t.pc = "drop" /\ t.vma = v /\ t.page = p /\ t.frame = f  BY SMT
    <3>2. task' = [task EXCEPT ![c] = t]  BY <2>6
    <3>3. f = mapped[p]  OBVIOUS
    <3> HIDE DEF t, v, p, f
    <3>4. /\ task'[c] = t /\ (\A d \in Cpus \ {c} : task'[d] = task[d])
          /\ task' = [d \in Cpus |-> task'[d]]
      BY <2>1, <3>2 DEF Core, Arena, ListTypes, Types
    <3>5. /\ mapped' \in [0 .. Pages - 1 -> Frames \cup {NoFrame}] /\ mapped'[p] = NoFrame
          /\ \A q \in 0 .. Pages - 1 : q # p => mapped'[q] = mapped[q]
      BY <2>1, <2>2, <2>6 DEF Core, Arena, ListTypes, Types
    <3>6. ListTypes' /\ Types'  BY <2>1, <3>4, <3>5 DEF Core, Arena, ListTypes, Types
    <3>7. /\ InFlight(c)' = {v} /\ (\A g : Holds(c, g)' <=> g = f)
          /\ (\A q : Unmapping(c, q)' <=> q >= p /\ q \in PagesOf(v))
      BY <3>1, <3>4 DEF InFlight, Holds, Unmapping
    <3>8. \A d \in Cpus \ {c} : /\ InFlight(d)' = InFlight(d)
                                /\ \A g : Holds(d, g)' <=> Holds(d, g)
                                /\ \A q : Unmapping(d, q)' <=> Unmapping(d, q)
      BY <3>4, HoldsKept
    <3>9. Layout(Areas')
      <4>1. Areas' = Areas  BY <2>1, <2>3, <3>7, <3>8, SameAreas
      <4>2. QED  BY <2>1, <4>1 DEF Core, Arena
    <3>10. OwnedOk'  BY <2>1, OwnedKept DEF Core, Arena
    <3>11. ASSUME NEW d \in Cpus  PROVE TaskOk(d)'
      <4>1. CASE d = c  BY <2>2, <2>6, <3>1, <3>4, <3>5, <4>1 DEF TaskOk
      <4>2. CASE d # c
        <5>1. \A q : mapped[q] = NoFrame /\ q \in 0 .. Pages - 1 => mapped'[q] = NoFrame
          BY <3>5
        <5>2. TaskOk(d) /\ task'[d] = task[d] /\ owned'[d] = owned[d]
          BY <2>1, <3>4, <4>2 DEF Core, Arena
        <5>3. task[d].pc \in {"drop", "lookup", "frame", "map"} =>
                task[d].page \in 0 .. Pages - 1
          BY <2>1, <5>2, LoopPage DEF TaskOk
        <5>4. QED  BY <5>1, <5>2, <5>3, TaskKept
      <4>3. QED  BY <4>1, <4>2
    <3>12. FramesOk'
      <4>1. FramesOk /\ pool' = pool  BY <2>1 DEF Core, Arena
      <4>2. f \in Frames /\ f \notin pool
        BY <2>1, <2>2, <2>6, <3>3 DEF Core, Arena, ListTypes, Types, FramesOk
      <4>3. \A q \in 0 .. Pages - 1 : q # p => mapped[q] # f
        BY <2>2, <2>6, <3>3, <4>1 DEF FramesOk
      <4>4. \A d \in Cpus : ~Holds(d, f)
        <5> SUFFICES ASSUME NEW d \in Cpus, Holds(d, f)  PROVE FALSE  OBVIOUS
        <5>1. \A q \in 0 .. Pages - 1 : mapped[q] # f  BY <4>1 DEF FramesOk
        <5>2. p \in 0 .. Pages - 1  BY <2>2, <2>6
        <5>3. QED  BY <3>3, <5>1, <5>2
      <4>5. \A q, r \in 0 .. Pages - 1 : mapped'[q] = mapped'[r] /\ mapped'[q] # NoFrame => q = r
        BY <3>5, <4>1 DEF FramesOk
      <4>6. \A q \in 0 .. Pages - 1 : mapped'[q] \notin pool'
        <5>1. NoFrame \notin pool  BY <2>1, FramesAssumption DEF Core, Arena, ListTypes, Types
        <5>2. QED  BY <3>5, <4>1, <5>1 DEF FramesOk
      <4>7. ASSUME NEW d \in Cpus, NEW g, Holds(d, g)'
            PROVE  g \in Frames /\ g \notin pool' /\ \A q \in 0 .. Pages - 1 : mapped'[q] # g
        <5>1. CASE d = c
          <6>1. g = f  BY <3>7, <4>7, <5>1
          <6>2. \A q \in 0 .. Pages - 1 : mapped'[q] # f
            BY <2>6, <3>5, <4>3
          <6>3. QED  BY <4>1, <4>2, <6>1, <6>2
        <5>2. CASE d # c
          <6>1. Holds(d, g)  BY <3>8, <4>7, <5>2
          <6>2. g \in Frames /\ g \notin pool /\ \A q \in 0 .. Pages - 1 : mapped[q] # g
            BY <4>1, <6>1 DEF FramesOk
          <6>3. g # NoFrame  BY <6>2, FramesAssumption
          <6>4. QED  BY <3>5, <4>1, <6>2, <6>3
        <5>3. QED  BY <5>1, <5>2
      <4>8. ASSUME NEW d \in Cpus, NEW e \in Cpus, NEW g, Holds(d, g)', Holds(e, g)', d # e
            PROVE  FALSE
        <5>1. CASE d = c  BY <3>7, <3>8, <4>4, <4>8, <5>1
        <5>2. CASE e = c  BY <3>7, <3>8, <4>4, <4>8, <5>2
        <5>3. CASE d # c /\ e # c  BY <3>8, <4>1, <4>8, <5>3 DEF FramesOk
        <5>4. QED  BY <5>1, <5>2, <5>3
      <4>9. ASSUME NEW g \in Frames, g \notin pool', \A d \in Cpus : ~Holds(d, g)'
            PROVE  \E q \in 0 .. Pages - 1 : mapped'[q] = g
        <5>1. g # f /\ \A d \in Cpus : ~Holds(d, g)  BY <2>3, <3>7, <3>8, <4>9
        <5>2. PICK q \in 0 .. Pages - 1 : mapped[q] = g
          BY <4>1, <4>9, <5>1 DEF FramesOk
        <5>3. q # p  BY <3>3, <5>1, <5>2
        <5>4. QED  BY <3>5, <5>2, <5>3
      <4>10. QED  BY <4>5, <4>6, <4>7, <4>8, <4>9 DEF FramesOk
    <3>13. MappedOk'
      <4> SUFFICES ASSUME NEW q \in 0 .. Pages - 1, mapped'[q] # NoFrame
                   PROVE  \/ \E s \in DOMAIN used' : used'[s].map /\ q \in PagesOf(used'[s])
                          \/ \E d \in Cpus : Unmapping(d, q)'
        BY DEF MappedOk
      <4>1. used' = used /\ mapped[q] # NoFrame  BY <2>1, <3>5
      <4>2. \/ \E s \in DOMAIN used : used[s].map /\ q \in PagesOf(used[s])
            \/ \E d \in Cpus : Unmapping(d, q)
        BY <2>1, <4>1 DEF Core, Arena, MappedOk
      <4>3. QED  BY <2>3, <3>7, <3>8, <4>1, <4>2
    <3>14. QED
      BY <2>1, <3>6, <3>9, <3>10, <3>11, <3>12, <3>13 DEF Core, Arena, IInv, PanicsLeft
  <2>7. QED  BY <2>4, <2>5, <2>6 DEF DeallocateUnmap, Goto
<1>5. ASSUME DeallocateFrame(c)  PROVE IInv'
  <2> USE <1>5
  <2> DEFINE v == task[c].vma
             p == task[c].page
             f == task[c].frame
             t == [pc |-> "unmap", vma |-> v, page |-> p + 1]
  <2>1. /\ Core /\ task[c].pc = "drop" /\ halted = "no" /\ halted' = halted
        /\ UNCHANGED <<free, used, mapped, owned>> /\ pool' = pool \cup {f}
        /\ task' = [task EXCEPT ![c] = t]
    BY DEF DeallocateFrame, IInv, Goto
  <2>2. /\ p \in Nat /\ p # v.end /\ p \in 0 .. Pages - 1
        /\ p + 1 \in v.start .. v.end /\ mapped[p] = NoFrame
    <3>1. p # v.end /\ mapped[p] = NoFrame  BY <2>1 DEF Core, Arena, TaskOk
    <3>2. QED  BY <2>1, <3>1, LoopPage
  <2>3. InFlight(c) = {v} /\ (\A g : Holds(c, g) <=> g = f)
        /\ (\A q : Unmapping(c, q) <=> q >= p /\ q \in PagesOf(v))
    BY <2>1 DEF InFlight, Holds, Unmapping
  <2>4. t.pc = "unmap" /\ t.vma = v /\ t.page = p + 1  BY SMT
  <2> HIDE DEF v, p, f, t
  <2>5. /\ task'[c] = t /\ (\A d \in Cpus \ {c} : task'[d] = task[d])
        /\ task' = [d \in Cpus |-> task'[d]]
    BY <2>1 DEF Core, Arena, ListTypes, Types
  <2>6. /\ InFlight(c)' = {v} /\ (\A g : ~Holds(c, g)')
        /\ (\A q : Unmapping(c, q)' <=> q >= p + 1 /\ q \in PagesOf(v))
    BY <2>4, <2>5 DEF InFlight, Holds, Unmapping
  <2>7. \A d \in Cpus \ {c} : /\ InFlight(d)' = InFlight(d)
                              /\ \A g : Holds(d, g)' <=> Holds(d, g)
                              /\ \A q : Unmapping(d, q)' <=> Unmapping(d, q)
    BY <2>5, HoldsKept
  <2>8. FramesOk /\ mapped' = mapped  BY <2>1 DEF Core, Arena
  <2>9. f \in Frames /\ f \notin pool /\ \A q \in 0 .. Pages - 1 : mapped[q] # f
    <3>1. Holds(c, f)  BY <2>3
    <3>2. QED  BY <2>8, <3>1 DEF FramesOk
  <2>10. ListTypes' /\ Types'  BY <2>1, <2>5, <2>9 DEF Core, Arena, ListTypes, Types
  <2>11. Layout(Areas')
    <3>1. Areas' = Areas  BY <2>1, <2>3, <2>6, <2>7, SameAreas
    <3>2. QED  BY <2>1, <3>1 DEF Core, Arena
  <2>12. OwnedOk'  BY <2>1, OwnedKept DEF Core, Arena
  <2>13. ASSUME NEW d \in Cpus  PROVE TaskOk(d)'
    <3>1. CASE d = c  BY <2>2, <2>4, <2>5, <3>1 DEF TaskOk
    <3>2. CASE d # c  BY <2>1, <2>5, <3>2, TaskKept DEF Core, Arena
    <3>3. QED  BY <3>1, <3>2
  <2>14. FramesOk'
    <3>1. \A q, r \in 0 .. Pages - 1 : mapped'[q] = mapped'[r] /\ mapped'[q] # NoFrame => q = r
      BY <2>8 DEF FramesOk
    <3>2. \A q \in 0 .. Pages - 1 : mapped'[q] \notin pool'
      <4>1. \A q \in 0 .. Pages - 1 : mapped[q] \notin pool  BY <2>8 DEF FramesOk
      <4>2. QED  BY <2>1, <2>8, <2>9, <4>1
    <3>3. ASSUME NEW d \in Cpus, NEW g, Holds(d, g)'
          PROVE  g \in Frames /\ g \notin pool' /\ \A q \in 0 .. Pages - 1 : mapped'[q] # g
      <4>1. d # c /\ Holds(d, g)  BY <2>6, <2>7, <3>3
      <4>2. g # f
        <5>1. Holds(c, f)  BY <2>3
        <5>2. QED  BY <2>8, <4>1, <5>1 DEF FramesOk
      <4>3. g \in Frames /\ g \notin pool /\ \A q \in 0 .. Pages - 1 : mapped[q] # g
        BY <2>8, <4>1 DEF FramesOk
      <4>4. QED  BY <2>1, <2>8, <4>2, <4>3
    <3>4. \A d, e \in Cpus : \A g : Holds(d, g)' /\ Holds(e, g)' => d = e
      BY <2>6, <2>7, <2>8 DEF FramesOk
    <3>5. ASSUME NEW g \in Frames, g \notin pool', \A d \in Cpus : ~Holds(d, g)'
          PROVE  \E q \in 0 .. Pages - 1 : mapped'[q] = g
      <4>1. g # f /\ g \notin pool  BY <2>1, <3>5
      <4>2. \A d \in Cpus : ~Holds(d, g)  BY <2>3, <2>7, <3>5, <4>1
      <4>3. QED  BY <2>8, <4>1, <4>2 DEF FramesOk
    <3>6. QED  BY <3>1, <3>2, <3>3, <3>4, <3>5 DEF FramesOk
  <2>15. MappedOk'
    <3> SUFFICES ASSUME NEW q \in 0 .. Pages - 1, mapped'[q] # NoFrame
                 PROVE  \/ \E s \in DOMAIN used' : used'[s].map /\ q \in PagesOf(used'[s])
                        \/ \E d \in Cpus : Unmapping(d, q)'
      BY DEF MappedOk
    <3>1. used' = used /\ mapped[q] # NoFrame /\ q # p  BY <2>1, <2>2, <2>8
    <3>2. \/ \E s \in DOMAIN used : used[s].map /\ q \in PagesOf(used[s])
          \/ \E d \in Cpus : Unmapping(d, q)
      BY <2>1, <3>1 DEF Core, Arena, MappedOk
    <3>3. q >= p => q >= p + 1  BY <2>2, <3>1, SMT
    <3>4. Unmapping(c, q) => Unmapping(c, q)'  BY <2>3, <2>6, <3>3
    <3>5. QED  BY <2>7, <3>1, <3>2, <3>4
  <2>16. QED
    BY <2>1, <2>10, <2>11, <2>12, <2>13, <2>14, <2>15 DEF Core, Arena, IInv, PanicsLeft
<1>6. ASSUME DeallocateInsert(c)  PROVE IInv'
  <2> USE <1>6
  <2>1. Core /\ Arena /\ task[c].pc = "free" /\ UNCHANGED <<used, mapped, pool, owned, halted>>
    BY DEF DeallocateInsert, IInv, Core
  <2>2. Arena' /\ task'[c] = Idle /\ \A d \in Cpus \ {c} : task'[d] = task[d]
    BY <2>1, DeallocateInsertArena
  <2>3. Idle.pc = "idle"  BY SMT DEF Idle
  <2>4. (\A g : ~Holds(c, g) /\ ~Holds(c, g)') /\ (\A q : ~Unmapping(c, q))
    BY <2>1, <2>2, <2>3 DEF Holds, Unmapping
  <2>5. \A d \in Cpus \ {c} : /\ \A g : Holds(d, g)' <=> Holds(d, g)
                              /\ \A q : Unmapping(d, q)' <=> Unmapping(d, q)
    BY <2>2, HoldsKept
  <2>6. ASSUME NEW d \in Cpus  PROVE TaskOk(d)'
    <3>1. CASE d = c  BY <2>2, <2>3, <3>1 DEF TaskOk
    <3>2. CASE d # c  BY <2>1, <2>2, <3>2, TaskKept DEF Core
    <3>3. QED  BY <3>1, <3>2
  <2>7. Types'  BY <2>1 DEF Core, Types
  <2>8. FramesOk'  BY <2>1, <2>4, <2>5, FramesKept DEF Core
  <2>9. MappedOk'  BY <2>1, <2>4, <2>5, MappedKept DEF Core
  <2>10. QED  BY <2>1, <2>2, <2>6, <2>7, <2>8, <2>9 DEF Core, IInv, PanicsLeft
<1>7. ASSUME NEW p \in 0 .. Pages - 1, Touch(c, p)  PROVE IInv'
  <2> USE <1>7
  <2> DEFINE t == [pc |-> "lookup", page |-> p]
  <2>1. /\ halted = "no" /\ task[c] = Idle /\ mapped[p] = NoFrame
        /\ (\E vma \in owned[c] : vma.map /\ p \in PagesOf(vma))
        /\ task' = [task EXCEPT ![c] = t]
        /\ UNCHANGED <<free, used, mapped, pool, owned>> /\ halted' = halted
    BY DEF Touch, Goto
  <2>2. task[c].pc = "idle"  BY <2>1, SMT DEF Idle
  <2>3. t.pc = "lookup" /\ t.page = p  BY SMT
  <2> HIDE DEF t
  <2>4. task'[c] = t  BY <2>1 DEF IInv, Core, Arena, ListTypes, Types
  <2>5. InFlight(c)' = InFlight(c) /\ \A f : ~Holds(c, f)' /\ ~Holds(c, f)
    BY <2>2, <2>3, <2>4 DEF InFlight, Holds
  <2>6. \A q : ~Unmapping(c, q)  BY <2>2 DEF Unmapping
  <2>7. TaskOk(c)'  BY <2>1, <2>3, <2>4 DEF TaskOk
  <2>8. Core'  BY <2>1, <2>5, <2>6, <2>7, QuietStep DEF IInv
  <2>9. QED  BY <2>1, <2>8 DEF IInv, PanicsLeft
<1>8. ASSUME FaultLookup(c)  PROVE IInv'
  <2> USE <1>8
  <2> DEFINE p == task[c].page
             found == {s \in DOMAIN used : p \in PagesOf(used[s])}
             t == [pc |-> "frame", page |-> p]
  <2>1. Core /\ task[c].pc = "lookup" /\ halted = "no"  BY DEF FaultLookup, IInv
  <2>2. PICK vma \in owned[c] : vma.map /\ p \in PagesOf(vma)
    BY <2>1 DEF Core, Arena, TaskOk
  <2>3. vma.start \in DOMAIN used /\ used[vma.start] = vma
    BY <2>1, <2>2 DEF Core, Arena, OwnedOk
  <2>4. found = {vma.start}
    <3>1. vma.start \in found  BY <2>2, <2>3
    <3>2. \A r \in DOMAIN used : p \in PagesOf(used[r]) => r = vma.start
      BY <2>1, <2>2, <2>3, UsedOnce DEF Core
    <3>3. QED  BY <3>1, <3>2
  <2>5. Min(found) = vma.start
    <3>0. vma \in Area  BY <2>1, <2>3, UsedArea DEF Core
    <3>1. vma.start \in Nat  BY <3>0, PagesAssumption, SMT DEF Area
    <3>2. found \in SUBSET Nat /\ found # {}  BY <2>4, <3>1
    <3>3. QED  BY <2>4, <3>2, MinIn
  <2>6. /\ task' = [task EXCEPT ![c] = t]
        /\ UNCHANGED <<free, used, mapped, pool, owned>> /\ halted' = halted
    BY <2>2, <2>3, <2>4, <2>5 DEF FaultLookup, Goto
  <2>7. t.pc = "frame" /\ t.page = p  BY SMT
  <2> HIDE DEF t, p
  <2>8. task'[c] = t  BY <2>1, <2>6 DEF Core, Arena, ListTypes, Types
  <2>9. InFlight(c)' = InFlight(c) /\ \A f : ~Holds(c, f)' /\ ~Holds(c, f)
    BY <2>1, <2>7, <2>8 DEF InFlight, Holds
  <2>10. \A q : ~Unmapping(c, q)  BY <2>1 DEF Unmapping
  <2>11. TaskOk(c)'
    <3>1. p \in 0 .. Pages - 1 /\ mapped[p] = NoFrame  BY <2>1 DEF Core, Arena, TaskOk, p
    <3>2. mapped'[p] = NoFrame /\ vma \in owned'[c]  BY <2>2, <2>6, <3>1
    <3>3. QED  BY <2>2, <2>7, <2>8, <3>1, <3>2 DEF TaskOk
  <2>12. Core'  BY <2>1, <2>6, <2>9, <2>10, <2>11, QuietStep
  <2>13. QED  BY <2>6, <2>12 DEF IInv, PanicsLeft
<1>9. ASSUME FaultFrame(c)  PROVE IInv'
  <2> USE <1>9
  <2>1. Core /\ task[c].pc = "frame" /\ halted = "no"  BY DEF FaultFrame, IInv
  <2>2. CASE Panic("out of memory")
    BY <2>1, <2>2, PanicStep DEF IInv, PanicsLeft, Panic
  <2>3. ASSUME NEW f \in pool, pool' = pool \ {f},
               task' = [task EXCEPT ![c] = [pc |-> "map", page |-> task[c].page, frame |-> f]],
               UNCHANGED <<free, used, mapped, owned, halted>>
        PROVE  IInv'
    <3> DEFINE p == task[c].page
               t == [pc |-> "map", page |-> p, frame |-> f]
    <3>1. t.pc = "map" /\ t.page = p /\ t.frame = f  BY SMT
    <3>2. task' = [task EXCEPT ![c] = t]  BY <2>3
    <3> HIDE DEF t, p
    <3>3. /\ task'[c] = t /\ \A d \in Cpus \ {c} : task'[d] = task[d]
          /\ task' = [d \in Cpus |-> task'[d]]
      BY <2>1, <3>2 DEF Core, Arena, ListTypes, Types
    <3>4. ListTypes' /\ Types'  BY <2>1, <2>3, <3>3 DEF Core, Arena, ListTypes, Types
    <3>5. /\ InFlight(c)' = InFlight(c) /\ (\A g : Holds(c, g)' <=> g = f)
          /\ (\A g : ~Holds(c, g)) /\ \A q : ~Unmapping(c, q)
      BY <2>1, <3>1, <3>3 DEF InFlight, Holds, Unmapping
    <3>6. \A d \in Cpus \ {c} : /\ InFlight(d)' = InFlight(d)
                                /\ \A g : Holds(d, g)' <=> Holds(d, g)
                                /\ \A q : Unmapping(d, q)' <=> Unmapping(d, q)
      BY <3>3, HoldsKept
    <3>7. Layout(Areas')
      <4>1. Areas' = Areas  BY <2>3, <3>5, <3>6, SameAreas
      <4>2. QED  BY <2>1, <4>1 DEF Core, Arena
    <3>8. OwnedOk'  BY <2>1, <2>3, OwnedKept DEF Core, Arena
    <3>9. ASSUME NEW d \in Cpus  PROVE TaskOk(d)'
      <4>1. CASE d = c
        <5>1. TaskOk(c)  BY <2>1 DEF Core, Arena
        <5>2. /\ p \in 0 .. Pages - 1 /\ mapped[p] = NoFrame
              /\ \E vma \in owned[c] : vma.map /\ p \in PagesOf(vma)
          BY <2>1, <5>1 DEF TaskOk, p
        <5>3. mapped' = mapped /\ owned' = owned  BY <2>3
        <5>4. QED  BY <3>1, <3>3, <4>1, <5>2, <5>3 DEF TaskOk
      <4>2. CASE d # c  BY <2>1, <2>3, <3>3, <4>2, TaskKept DEF Core, Arena
      <4>3. QED  BY <4>1, <4>2
    <3>10. FramesOk'
      <4>1. FramesOk /\ pool \subseteq Frames /\ mapped' = mapped
        BY <2>1, <2>3 DEF Core, Arena, ListTypes, Types
      <4>2. /\ \A p1, q \in 0 .. Pages - 1 :
                 mapped'[p1] = mapped'[q] /\ mapped'[p1] # NoFrame => p1 = q
            /\ \A p1 \in 0 .. Pages - 1 : mapped'[p1] \notin pool'
        BY <2>3, <4>1 DEF FramesOk
      <4>3. \A d \in Cpus : \A g : Holds(d, g)' =>
              g \in Frames /\ g \notin pool' /\ \A p1 \in 0 .. Pages - 1 : mapped'[p1] # g
        <5> SUFFICES ASSUME NEW d \in Cpus, NEW g, Holds(d, g)'
                     PROVE  /\ g \in Frames /\ g \notin pool'
                            /\ \A p1 \in 0 .. Pages - 1 : mapped'[p1] # g
          OBVIOUS
        <5>1. CASE d = c
          <6>1. g = f  BY <3>5, <5>1
          <6>2. f \in Frames /\ f \notin pool'  BY <2>3, <4>1
          <6>3. \A p1 \in 0 .. Pages - 1 : mapped[p1] # f
            <7>1. \A p1 \in 0 .. Pages - 1 : mapped[p1] \notin pool
              BY <4>1 DEF FramesOk
            <7>2. QED  BY <7>1
          <6>4. QED  BY <4>1, <6>1, <6>2, <6>3
        <5>2. CASE d # c
          <6>1. Holds(d, g)  BY <3>6, <5>2
          <6>2. QED  BY <2>3, <4>1, <6>1 DEF FramesOk
        <5>3. QED  BY <5>1, <5>2
      <4>4. \A d, e \in Cpus : \A g : Holds(d, g)' /\ Holds(e, g)' => d = e
        BY <2>3, <3>5, <3>6, <4>1 DEF FramesOk
      <4>5. \A g \in Frames : \/ g \in pool'
                              \/ \E p1 \in 0 .. Pages - 1 : mapped'[p1] = g
                              \/ \E d \in Cpus : Holds(d, g)'
        <5> SUFFICES ASSUME NEW g \in Frames, g \notin pool',
                            \A d \in Cpus : ~Holds(d, g)'
                     PROVE  \E p1 \in 0 .. Pages - 1 : mapped'[p1] = g
          OBVIOUS
        <5>1. g # f  BY <3>5
        <5>2. g \notin pool /\ \A d \in Cpus : ~Holds(d, g)  BY <2>3, <3>5, <3>6, <5>1
        <5>3. QED  BY <4>1, <5>2 DEF FramesOk
      <4>6. QED  BY <4>2, <4>3, <4>4, <4>5 DEF FramesOk
    <3>11. MappedOk'  BY <2>1, <2>3, <3>5, <3>6, MappedKept DEF Core, Arena
    <3>12. QED
      BY <2>1, <2>3, <3>4, <3>7, <3>8, <3>9, <3>10, <3>11 DEF Core, Arena, IInv, PanicsLeft
  <2>4. QED  BY <2>2, <2>3 DEF FaultFrame, Goto
<1>10. ASSUME FaultMap(c)  PROVE IInv'
  <2> USE <1>10
  <2> DEFINE p == task[c].page
             f == task[c].frame
  <2>1. Core /\ task[c].pc = "map" /\ halted = "no"  BY DEF FaultMap, IInv
  <2>2. CASE Panic("out of memory")
    BY <2>1, <2>2, PanicStep DEF IInv, PanicsLeft, Panic
  <2>3. /\ p \in 0 .. Pages - 1 /\ mapped[p] = NoFrame
        /\ \E vma \in owned[c] : vma.map /\ p \in PagesOf(vma)
    BY <2>1 DEF Core, Arena, TaskOk
  <2>4. CASE /\ mapped' = [mapped EXCEPT ![p] = f] /\ task' = [task EXCEPT ![c] = Idle]
             /\ UNCHANGED <<free, used, pool, owned, halted>>
    <3>1. /\ task'[c] = Idle /\ \A d \in Cpus \ {c} : task'[d] = task[d]
          /\ task' = [d \in Cpus |-> task'[d]]
      BY <2>1, <2>4 DEF Core, Arena, ListTypes, Types
    <3>2. Idle.pc = "idle"  BY SMT DEF Idle
    <3>3. FramesOk /\ Holds(c, f)  BY <2>1 DEF Core, Arena, Holds
    <3>4. /\ f \in Frames /\ f \notin pool
          /\ \A q \in 0 .. Pages - 1 : mapped[q] # f
      BY <3>3 DEF FramesOk
    <3> HIDE DEF p, f
    <3>5. /\ mapped' \in [0 .. Pages - 1 -> Frames \cup {NoFrame}] /\ mapped'[p] = f
          /\ \A q \in 0 .. Pages - 1 : q # p => mapped'[q] = mapped[q]
      BY <2>1, <2>3, <2>4, <3>4 DEF Core, Arena, ListTypes, Types
    <3>6. ListTypes' /\ Types'  BY <2>1, <2>4, <3>1, <3>5 DEF Core, Arena, ListTypes, Types
    <3>7. /\ InFlight(c)' = InFlight(c) /\ (\A g : ~Holds(c, g)') /\ \A q : ~Unmapping(c, q)
      BY <2>1, <3>1, <3>2 DEF InFlight, Holds, Unmapping
    <3>8. \A d \in Cpus \ {c} : /\ InFlight(d)' = InFlight(d)
                                /\ \A g : Holds(d, g)' <=> Holds(d, g)
                                /\ \A q : Unmapping(d, q)' <=> Unmapping(d, q)
      BY <3>1, HoldsKept
    <3>9. Layout(Areas')
      <4>1. Areas' = Areas  BY <2>4, <3>7, <3>8, SameAreas
      <4>2. QED  BY <2>1, <4>1 DEF Core, Arena
    <3>10. OwnedOk'  BY <2>1, <2>4, OwnedKept DEF Core, Arena
    <3>11. ASSUME NEW d \in Cpus  PROVE TaskOk(d)'
      <4>1. CASE d = c  BY <3>1, <3>2, <4>1 DEF TaskOk
      <4>2. CASE d # c
        <5>1. TaskOk(d) /\ task'[d] = task[d] /\ owned'[d] = owned[d]
          BY <2>1, <2>4, <3>1, <4>2 DEF Core, Arena
        <5>2. ASSUME task[d].pc \in {"drop", "lookup", "frame", "map"}
              PROVE  mapped'[task[d].page] = NoFrame
          <6>1. task[d].page # p  BY <2>1, <4>2, <5>2, FaultApart DEF p
          <6>2. mapped[task[d].page] = NoFrame  BY <5>1, <5>2 DEF TaskOk
          <6>3. task[d].page \in 0 .. Pages - 1
            <7>1. CASE task[d].pc = "drop"
              <8>1. task[d].vma \in Area  BY <2>1, <7>1, FlightArea DEF Core
              <8>2. /\ task[d].page \in task[d].vma.start .. task[d].vma.end
                    /\ task[d].page # task[d].vma.end
                BY <5>1, <7>1 DEF TaskOk
              <8>3. QED  BY <8>1, <8>2, PagesAssumption, SMT DEF Area
            <7>2. CASE task[d].pc # "drop"  BY <5>1, <5>2, <7>2 DEF TaskOk
            <7>3. QED  BY <7>1, <7>2
          <6>4. QED  BY <3>5, <6>1, <6>2, <6>3
        <5>3. QED  BY <5>1, <5>2, TaskKept
      <4>3. QED  BY <4>1, <4>2
    <3>12. FramesOk'
      <4>1. pool' = pool  BY <2>4
      <4>2. \A q, r \in 0 .. Pages - 1 : mapped'[q] = mapped'[r] /\ mapped'[q] # NoFrame => q = r
        <5> SUFFICES ASSUME NEW q \in 0 .. Pages - 1, NEW r \in 0 .. Pages - 1,
                            mapped'[q] = mapped'[r], mapped'[q] # NoFrame, q # r
                     PROVE  FALSE
          OBVIOUS
        <5>1. CASE q = p  BY <3>4, <3>5, <5>1
        <5>2. CASE r = p  BY <3>4, <3>5, <5>2
        <5>3. CASE q # p /\ r # p  BY <3>3, <3>5, <5>3 DEF FramesOk
        <5>4. QED  BY <5>1, <5>2, <5>3
      <4>3. \A q \in 0 .. Pages - 1 : mapped'[q] \notin pool'
        BY <3>3, <3>4, <3>5, <4>1 DEF FramesOk
      <4>4. ASSUME NEW d \in Cpus, NEW g, Holds(d, g)'
            PROVE  g \in Frames /\ g \notin pool' /\ \A q \in 0 .. Pages - 1 : mapped'[q] # g
        <5>1. d # c /\ Holds(d, g)  BY <3>7, <3>8, <4>4
        <5>2. g # f  BY <3>3, <5>1 DEF FramesOk
        <5>3. g \in Frames /\ g \notin pool /\ \A q \in 0 .. Pages - 1 : mapped[q] # g
          BY <3>3, <5>1 DEF FramesOk
        <5>4. QED  BY <3>5, <4>1, <5>2, <5>3
      <4>5. \A d, e \in Cpus : \A g : Holds(d, g)' /\ Holds(e, g)' => d = e
        BY <3>3, <3>7, <3>8 DEF FramesOk
      <4>6. ASSUME NEW g \in Frames, g \notin pool', \A d \in Cpus : ~Holds(d, g)'
            PROVE  \E q \in 0 .. Pages - 1 : mapped'[q] = g
        <5>1. CASE g = f  BY <2>3, <3>5, <5>1
        <5>2. CASE g # f
          <6>1. \A d \in Cpus : ~Holds(d, g)
            <7>1. ~Holds(c, g)  BY <5>2 DEF Holds, f
            <7>2. QED  BY <3>8, <4>6, <7>1
          <6>2. PICK q \in 0 .. Pages - 1 : mapped[q] = g
            BY <3>3, <4>1, <4>6, <6>1 DEF FramesOk
          <6>3. q # p  BY <2>3, <6>2, FramesAssumption
          <6>4. QED  BY <3>5, <6>2, <6>3
        <5>3. QED  BY <5>1, <5>2
      <4>7. QED  BY <4>2, <4>3, <4>4, <4>5, <4>6 DEF FramesOk
    <3>13. MappedOk'
      <4> SUFFICES ASSUME NEW q \in 0 .. Pages - 1, mapped'[q] # NoFrame
                   PROVE  \/ \E s \in DOMAIN used' : used'[s].map /\ q \in PagesOf(used'[s])
                          \/ \E d \in Cpus : Unmapping(d, q)'
        BY DEF MappedOk
      <4>1. used' = used  BY <2>4
      <4>2. CASE q = p
        <5>1. PICK vma \in owned[c] : vma.map /\ p \in PagesOf(vma)  BY <2>3
        <5>2. vma.start \in DOMAIN used /\ used[vma.start] = vma
          BY <2>1, <5>1 DEF Core, Arena, OwnedOk
        <5>3. QED  BY <4>1, <4>2, <5>1, <5>2
      <4>3. CASE q # p
        <5>1. mapped[q] # NoFrame  BY <3>5, <4>3
        <5>2. \/ \E s \in DOMAIN used : used[s].map /\ q \in PagesOf(used[s])
              \/ \E d \in Cpus : Unmapping(d, q)
          BY <2>1, <5>1 DEF Core, Arena, MappedOk
        <5>3. QED  BY <3>7, <3>8, <4>1, <5>2
      <4>4. QED  BY <4>2, <4>3
    <3>14. QED
      BY <2>1, <2>4, <3>6, <3>9, <3>10, <3>11, <3>12, <3>13 DEF Core, Arena, IInv, PanicsLeft
  <2>5. QED  BY <2>2, <2>3, <2>4 DEF FaultMap, Goto
<1>11. CASE Call(c)  BY <1>1, <1>3, <1>7, <1>11 DEF Call
<1>12. CASE Step(c)  BY <1>2, <1>4, <1>5, <1>6, <1>8, <1>9, <1>10, <1>12 DEF Step
<1>13. QED  BY <1>11, <1>12

LEMMA InvNext ==
  ASSUME Least, IInv, [Next]_vars
  PROVE  IInv'
<1>1. CASE UNCHANGED vars
  <2>1. Panic(halted) /\ halted' = halted  BY <1>1 DEF vars, Panic
  <2>2. QED  BY <2>1, PanicStep DEF IInv, PanicsLeft
<1>2. QED  BY <1>1, CpuStep DEF Next, Halted

-----------------------------------------------------------------------------
(* The arithmetic of acpi.rs.                                              *)

LEMMA Euclid ==
  ASSUME NEW a \in Nat
  PROVE  /\ a \div PageSize \in Nat /\ a % PageSize \in Nat /\ a % PageSize < PageSize
         /\ a = PageSize * (a \div PageSize) + (a % PageSize)
BY PagesAssumption, SMT

LEMMA Quotient ==
  ASSUME NEW a \in Nat, NEW k \in Nat, PageSize * k <= a, a < PageSize * k + PageSize
  PROVE  a \div PageSize = k
<1> DEFINE d == a \div PageSize
           m == a % PageSize
<1>1. PageSize \in Nat \ {0}  BY PagesAssumption, SMT
<1>2. d \in Nat /\ m \in Nat /\ m < PageSize /\ a = PageSize * d + m  BY Euclid
<1> HIDE DEF d, m
<1>3. CASE d < k
  <2>1. PageSize * (k - d - 1) >= 0  BY <1>1, <1>2, <1>3, SMT
  <2>2. PageSize * (k - d - 1) = PageSize * k - PageSize * d - PageSize  BY <1>1, <1>2, SMT
  <2>3. PageSize * k \in Int /\ PageSize * d \in Int  BY <1>1, <1>2, SMT
  <2>4. QED  BY <1>1, <1>2, <2>1, <2>2, <2>3, SMT
<1>4. CASE d > k
  <2>1. PageSize * (d - k - 1) >= 0  BY <1>1, <1>2, <1>4, SMT
  <2>2. PageSize * (d - k - 1) = PageSize * d - PageSize * k - PageSize  BY <1>1, <1>2, SMT
  <2>3. PageSize * k \in Int /\ PageSize * d \in Int  BY <1>1, <1>2, SMT
  <2>4. QED  BY <1>1, <1>2, <2>1, <2>2, <2>3, SMT
<1>5. CASE d = k  BY <1>5 DEF d
<1>6. QED  BY <1>2, <1>3, <1>4, <1>5, SMT

\* map_physical_region asks for one page more than the region has whole ones;
\* unmap_physical_region unmaps as many, but for a multiple of the page size.
LEMMA RegionSizes ==
  ASSUME NEW r \in Regions \cup {Lapic}
  PROVE  LET n == aligned_size(RoundUp(r.size)) IN
         /\ r.phys \in Nat /\ r.size \in Nat
         /\ RoundUp(r.size) \in Nat /\ RoundUp(r.size) > 0
         /\ RoundUp(r.size) + PageSize - 1 < Word
         /\ n \in Nat /\ n > 0 /\ RoundUp(r.size) = PageSize * n
         /\ UnmappedPages(r.size) \in Nat /\ UnmappedPages(r.size) <= n
         /\ ~(RoundUp(r.size) > r.size + PageSize - 1) => UnmappedPages(r.size) = n
<1> DEFINE size == r.size
           q == size \div PageSize
           m == size % PageSize
           n == aligned_size(RoundUp(size))
           u == UnmappedPages(size)
<1>1. /\ PageSize \in Nat \ {0} /\ r.phys \in Nat /\ size \in Nat
      /\ r.phys + size + 2 * PageSize <= Word /\ Word \in Nat
  BY PagesAssumption, WordAssumption, RegionsAssumption, SMT
<1>2. q \in Nat /\ m \in Nat /\ m < PageSize /\ size = PageSize * q + m
  BY <1>1, Euclid
<1>3. RoundUp(size) = size + (PageSize - m)  BY DEF RoundUp
<1>4. u = (size + PageSize - 1) \div PageSize  BY DEF UnmappedPages
<1> HIDE DEF size, q, m
<1>5. PageSize * q \in Nat /\ PageSize * (q + 1) = PageSize * q + PageSize  BY <1>1, <1>2, SMT
<1>6. RoundUp(size) = PageSize * (q + 1)  BY <1>1, <1>2, <1>3, <1>5, SMT
<1>7. /\ RoundUp(size) \in Nat /\ RoundUp(size) > 0
      /\ RoundUp(size) + PageSize - 1 < Word
  BY <1>1, <1>2, <1>3, SMT
<1>8. n = q + 1
  <2> DEFINE a == RoundUp(size) + PageSize - 1
  <2>1. n = a \div PageSize  BY <1>7, AlignedSize
  <2>2. a \in Nat /\ PageSize * (q + 1) <= a /\ a < PageSize * (q + 1) + PageSize
    BY <1>1, <1>5, <1>6, <1>7, SMT
  <2>3. q + 1 \in Nat  BY <1>2, SMT
  <2> HIDE DEF a
  <2>4. QED  BY <2>1, <2>2, <2>3, Quotient
<1> HIDE DEF n
<1>9. CASE m = 0
  <2>1. u = q
    <3> DEFINE a == size + PageSize - 1
    <3>1. a \in Nat /\ PageSize * q <= a /\ a < PageSize * q + PageSize
      BY <1>1, <1>2, <1>5, <1>9, SMT
    <3> HIDE DEF a
    <3>2. QED  BY <1>2, <1>4, <3>1, Quotient DEF a
  <2>2. RoundUp(size) > size + PageSize - 1  BY <1>1, <1>3, <1>9, SMT
  <2> HIDE DEF u
  <2>3. u \in Nat /\ u <= n  BY <1>2, <1>8, <2>1, SMT
  <2>4. n \in Nat /\ n > 0  BY <1>2, <1>8, SMT
  <2>5. QED  BY <1>1, <1>6, <1>7, <1>8, <2>2, <2>3, <2>4 DEF size, n, u
<1>10. CASE m # 0
  <2>1. u = q + 1
    <3> DEFINE a == size + PageSize - 1
    <3>1. a \in Nat /\ PageSize * (q + 1) <= a /\ a < PageSize * (q + 1) + PageSize
      BY <1>1, <1>2, <1>5, <1>10, SMT
    <3>2. q + 1 \in Nat  BY <1>2, SMT
    <3> HIDE DEF a
    <3>3. QED  BY <1>4, <3>1, <3>2, Quotient DEF a
  <2> HIDE DEF u
  <2>2. u \in Nat /\ u <= n /\ u = n /\ n \in Nat /\ n > 0  BY <1>2, <1>8, <2>1, SMT
  <2>3. QED  BY <1>1, <1>6, <1>7, <1>8, <2>2 DEF size, n, u
<1>11. QED  BY <1>9, <1>10

LEMMA OnePage ==
  /\ PageSize \in Nat /\ PageSize > 0 /\ PageSize + PageSize - 1 < Word
  /\ aligned_size(PageSize) = 1
<1>1. /\ PageSize \in Nat \ {0} /\ Lapic.phys \in Nat /\ Lapic.size \in Nat /\ Word \in Nat
      /\ Lapic.phys + Lapic.size + 2 * PageSize <= Word
  BY PagesAssumption, WordAssumption, RegionsAssumption, SMT
<1>2. PageSize \in Nat /\ PageSize > 0 /\ PageSize + PageSize - 1 < Word  BY <1>1, SMT
<1>3. aligned_size(PageSize) = (PageSize + PageSize - 1) \div PageSize
  BY <1>2, AlignedSize
<1>4. PageSize + PageSize - 1 \in Nat /\ PageSize * 1 <= PageSize + PageSize - 1
      /\ PageSize + PageSize - 1 < PageSize * 1 + PageSize /\ 1 \in Nat
  BY <1>1, SMT
<1>5. (PageSize + PageSize - 1) \div PageSize = 1  BY <1>4, Quotient
<1>6. QED  BY <1>2, <1>3, <1>5

\* The i-th byte of a region, from its first page on.
LEMMA ByteAt ==
  ASSUME NEW s \in Nat, NEW off \in Nat, NEW i \in Nat
  PROVE  (s * PageSize + off + i) \div PageSize = s + (off + i) \div PageSize
<1> DEFINE k == (off + i) \div PageSize
           m == (off + i) % PageSize
<1>1. PageSize \in Nat \ {0}  BY PagesAssumption, SMT
<1>2. off + i \in Nat  BY SMT
<1>3. k \in Nat /\ m \in Nat /\ m < PageSize /\ off + i = PageSize * k + m
  BY <1>2, Euclid
<1> HIDE DEF k, m
<1>4. /\ s * PageSize \in Nat /\ PageSize * k \in Nat
      /\ PageSize * (s + k) = s * PageSize + PageSize * k
  BY <1>1, <1>3, SMT
<1>5. /\ s * PageSize + off + i \in Nat /\ s + k \in Nat
      /\ PageSize * (s + k) <= s * PageSize + off + i
      /\ s * PageSize + off + i < PageSize * (s + k) + PageSize
  BY <1>1, <1>3, <1>4, SMT
<1>6. QED  BY <1>5, Quotient DEF k

-----------------------------------------------------------------------------
(* The invariant of AcpiMapping.                                           *)

\* The area is as long as what was asked for the region.
AreaFor(r, vma) ==
  /\ r \in Regions \cup {Lapic}
  /\ \/ Size(vma) = aligned_size(RoundUp(r.size))
     \/ r = Lapic /\ Size(vma) = aligned_size(PageSize)

\* All of it will be unmapped.
Whole(r) ==
  ~multiple /\ r # Lapic => UnmappedPages(r.size) = aligned_size(RoundUp(r.size))

Held(r, vma) == vma \in owned[Bsp] /\ ~vma.map /\ AreaFor(r, vma) /\ Whole(r)

\* Page p of the area shows its page of the region, or a frame instead of the
\* physical page 0.
Shown(r, vma, p) ==
  /\ mapped[p] # NoFrame
  /\ LET frame == FrameFor(r, p - vma.start) IN frame # 0 => mapped[p] = frame

MappingOk(m) ==
  /\ Held(m.region, m.vma)
  /\ m.virt = m.vma.start * PageSize + (m.region.phys % PageSize)
  /\ \A p \in PagesOf(m.vma) : Shown(m.region, m.vma, p)

\* Each live mapping, and the one in progress, has an area of its own.
MappingsApart ==
  /\ \A m, n \in mappings : m.vma = n.vma => m = n
  /\ job.pc \in {"map", "unmap"} => \A m \in mappings : m.vma # job.vma

InsertOk ==
  job.pc = "insert" =>
    AreaFor(job.region, task[Bsp].vma) /\ ~task[Bsp].vma.map /\ Whole(job.region)

MapOk ==
  job.pc = "map" =>
    /\ job = [pc |-> "map", region |-> job.region, vma |-> job.vma, done |-> job.done]
    /\ task[Bsp] = Idle
    /\ Held(job.region, job.vma) /\ job.done \in 0 .. Size(job.vma)
    /\ \A p \in PagesOf(job.vma) :
         IF p < job.vma.start + job.done THEN Shown(job.region, job.vma, p)
         ELSE multiple \/ mapped[p] = NoFrame

UnmapOk ==
  job.pc = "unmap" =>
    /\ job = [pc |-> "unmap", region |-> job.region, vma |-> job.vma,
              start |-> job.start, done |-> job.done]
    /\ task[Bsp] = Idle
    /\ Held(job.region, job.vma) /\ job.region # Lapic
    /\ job.start = job.vma.start /\ job.done \in 0 .. UnmappedPages(job.region.size)
    /\ \A p \in PagesOf(job.vma) : mapped[p] = NoFrame <=> p < job.vma.start + job.done

\* What Bsp knows of the page it is at in vmm.
BspOk ==
  LET t == task[Bsp] IN
  /\ t.pc \in {"unmap", "drop"} => t.page \in t.vma.start .. t.vma.end
  /\ t.pc = "drop" => t.page # t.vma.end /\ t.frame # NoFrame /\ mapped[t.page] = NoFrame
  /\ t.pc \in {"lookup", "frame", "map"} =>
       \E vma \in owned[Bsp] : vma.map /\ t.page \in PagesOf(vma)

\* Only areas in use, and one that deallocate is at, have pages mapped.
LeftOk ==
  ~multiple => \A p \in 0 .. Pages - 1 : mapped[p] # NoFrame =>
    (\E s \in DOMAIN used : p \in PagesOf(used[s])) \/ Unmapping(Bsp, p)

AcpiCore ==
  /\ Arena /\ mapped = [p \in 0 .. Pages - 1 |-> mapped[p]] /\ NoFrame \notin pool
  /\ multiple \in BOOLEAN
  /\ BspOk /\ LeftOk /\ InsertOk /\ MapOk /\ UnmapOk
  /\ MappingsApart /\ \A m \in mappings : MappingOk(m)

AcpiInv == AcpiCore /\ UnwrapsHold

\* An area of Bsp has its pages to itself.
LEMMA OwnedArea ==
  ASSUME Arena, NEW vma \in owned[Bsp]
  PROVE  /\ vma \in Area /\ vma.start < vma.end
         /\ vma.start \in DOMAIN used /\ used[vma.start] = vma
         /\ \A p \in PagesOf(vma) :
              /\ p \in 0 .. Pages - 1
              /\ \A w \in owned[Bsp] : p \in PagesOf(w) => w = vma
              /\ task[Bsp].pc \in {"insert", "unmap", "drop", "free"} =>
                   p \notin PagesOf(task[Bsp].vma)
<1>1. /\ Bsp \in Cpus
      /\ \A w \in owned[Bsp] : w.start \in DOMAIN used /\ used[w.start] = w
  BY BspAssumption DEF Arena, OwnedOk
<1>2. /\ vma \in Area /\ vma.start < vma.end
      /\ \A p \in PagesOf(vma) : p \in 0 .. Pages - 1
  BY <1>1, UsedArea
<1>3. ASSUME NEW p \in PagesOf(vma)
      PROVE  /\ \A w \in owned[Bsp] : p \in PagesOf(w) => w = vma
             /\ task[Bsp].pc \in {"insert", "unmap", "drop", "free"} =>
                  p \notin PagesOf(task[Bsp].vma)
  <2>1. /\ \A r \in DOMAIN used : p \in PagesOf(used[r]) => r = vma.start
        /\ task[Bsp].pc \in {"insert", "unmap", "drop", "free"} =>
             p \notin PagesOf(task[Bsp].vma)
    BY <1>1, UsedOnce
  <2>2. \A w \in owned[Bsp] : p \in PagesOf(w) => w = vma
    BY <1>1, <2>1
  <2>3. QED  BY <2>1, <2>2
<1>4. QED  BY <1>1, <1>2, <1>3

\* What of the invariant a step keeps.
LEMMA HeldKept ==
  ASSUME NEW r, NEW vma, Held(r, vma), vma \in owned'[Bsp], multiple => multiple'
  PROVE  Held(r, vma)'
BY DEF Held, Whole, AreaFor

LEMMA MappingKept ==
  ASSUME NEW m, MappingOk(m), m.vma \in owned'[Bsp], multiple => multiple',
         \A p \in PagesOf(m.vma) : mapped'[p] = mapped[p]
  PROVE  MappingOk(m)'
<1>1. Held(m.region, m.vma)'  BY HeldKept DEF MappingOk
<1>2. QED  BY <1>1 DEF MappingOk, Shown

\* Nothing that the invariant is about has changed.
LEMMA AcpiSame ==
  ASSUME AcpiCore, UNCHANGED <<free, used, mapped, pool, task, owned, job, mappings, multiple>>
  PROVE  AcpiCore'
<1>1. /\ free' = free /\ used' = used /\ mapped' = mapped /\ pool' = pool
      /\ task' = task /\ owned' = owned /\ job' = job /\ mappings' = mappings
  BY SMT
<1>0. multiple' \in BOOLEAN /\ (multiple <=> multiple')  BY SMT DEF AcpiCore
<1>2. Arena'  BY <1>0, <1>1, ArenaSame DEF AcpiCore
<1>3. BspOk'  BY <1>0, <1>1 DEF AcpiCore, BspOk
<1>4. LeftOk'  BY <1>0, <1>1 DEF AcpiCore, LeftOk, Unmapping
<1>5. InsertOk'  BY <1>0, <1>1 DEF AcpiCore, InsertOk, AreaFor, Whole
<1>6. MapOk'
  BY <1>0, <1>1 DEF AcpiCore, MapOk, Held, AreaFor, Whole, Shown
<1>7. UnmapOk'  BY <1>0, <1>1 DEF AcpiCore, UnmapOk, Held, AreaFor, Whole
<1>8. MappingsApart'  BY <1>0, <1>1 DEF AcpiCore, MappingsApart
<1>9. ASSUME NEW m \in mappings'  PROVE MappingOk(m)'
  <2>1. MappingOk(m) /\ m.vma \in owned[Bsp]
    BY <1>0, <1>1 DEF AcpiCore, MappingOk, Held
  <2>2. QED  BY <1>0, <1>1, <2>1, MappingKept
<1>10. QED
  BY <1>0, <1>1, <1>2, <1>3, <1>4, <1>5, <1>6, <1>7, <1>8, <1>9 DEF AcpiCore

\* Between mappings: the step stays away from the areas of those that are live.
LEMMA OtherKeeps ==
  ASSUME AcpiCore, job = Idle, UNCHANGED acpi, Arena', BspOk', LeftOk',
         mapped' = [p \in 0 .. Pages - 1 |-> mapped'[p]], NoFrame \notin pool',
         \A m \in mappings : /\ m.vma \in owned'[Bsp]
                             /\ \A p \in PagesOf(m.vma) : mapped'[p] = mapped[p]
  PROVE  AcpiCore'
<1>0. multiple' \in BOOLEAN /\ (multiple <=> multiple')  BY SMT DEF AcpiCore, acpi
<1>1. job' = job /\ mappings' = mappings  BY DEF acpi
<1>2. job'.pc = "idle"  BY <1>1, SMT DEF Idle
<1>3. InsertOk' /\ MapOk' /\ UnmapOk'  BY <1>2 DEF InsertOk, MapOk, UnmapOk
<1>4. MappingsApart'  BY <1>1, <1>2 DEF AcpiCore, MappingsApart
<1>5. \A m \in mappings' : MappingOk(m)'  BY <1>0, <1>1, MappingKept DEF AcpiCore
<1>6. QED  BY <1>0, <1>3, <1>4, <1>5 DEF AcpiCore

\* A live mapping has an area that other code does not free or populate.
LEMMA MappingArea ==
  ASSUME AcpiCore, NEW m \in mappings
  PROVE  /\ m.vma \in owned[Bsp] /\ ~m.vma.map
         /\ \A p \in PagesOf(m.vma) :
              /\ \A w \in owned[Bsp] : p \in PagesOf(w) => w = m.vma
              /\ task[Bsp].pc \in {"insert", "unmap", "drop", "free"} =>
                   p \notin PagesOf(task[Bsp].vma)
<1>1. m.vma \in owned[Bsp] /\ ~m.vma.map /\ Arena
  BY DEF AcpiCore, MappingOk, Held
<1>2. QED  BY <1>1, OwnedArea


-----------------------------------------------------------------------------
(* Other code on Bsp, between mappings.                                    *)

\* The task of Bsp goes on, and no area moves.
LEMMA OtherQuiet ==
  ASSUME AcpiCore, job = Idle, UNCHANGED acpi, NEW t, task' = [task EXCEPT ![Bsp] = t],
         UNCHANGED <<free, used, owned>>, task'[Bsp] = t => InFlight(Bsp)' = InFlight(Bsp),
         task'[Bsp] = t => BspOk' /\ LeftOk',
         mapped' = [p \in 0 .. Pages - 1 |-> mapped'[p]], NoFrame \notin pool',
         \A m \in mappings : \A p \in PagesOf(m.vma) : mapped'[p] = mapped[p]
  PROVE  AcpiCore'
<1>1. Bsp \in Cpus /\ Arena  BY BspAssumption DEF AcpiCore
<1>2. Arena' /\ task'[Bsp] = t  BY <1>1, ArenaQuiet
<1>3. \A m \in mappings : m.vma \in owned'[Bsp]  BY MappingArea
<1>4. QED  BY <1>2, <1>3, OtherKeeps

\* Then LeftOk, when no page is mapped and no area stops being unmapped.
LEMMA LeftKept ==
  ASSUME LeftOk, multiple => multiple', used' = used, mapped' = mapped,
         \A p \in 0 .. Pages - 1 : mapped[p] # NoFrame /\ Unmapping(Bsp, p) => Unmapping(Bsp, p)'
  PROVE  LeftOk'
BY DEF LeftOk

LEMMA SameMultiple ==
  ASSUME UNCHANGED acpi, AcpiCore  PROVE multiple => multiple'
BY SMT DEF acpi, AcpiCore

\* The loop of deallocate, on an area of other code.
LEMMA BspPage ==
  ASSUME AcpiCore, task[Bsp].pc \in {"unmap", "drop"}
  PROVE  /\ task[Bsp].vma \in Area /\ task[Bsp].page \in Nat
         /\ task[Bsp].page \in task[Bsp].vma.start .. task[Bsp].vma.end
         /\ task[Bsp].page # task[Bsp].vma.end =>
              /\ task[Bsp].page \in 0 .. Pages - 1
              /\ task[Bsp].page \in PagesOf(task[Bsp].vma)
              /\ task[Bsp].page + 1 \in task[Bsp].vma.start .. task[Bsp].vma.end
<1>1. task[Bsp].vma \in Area  BY FlightArea, BspAssumption DEF AcpiCore
<1>2. task[Bsp].page \in task[Bsp].vma.start .. task[Bsp].vma.end
  BY DEF AcpiCore, BspOk
<1>3. QED  BY <1>1, <1>2, PagesAssumption, SMT DEF Area, PagesOf

\* Nor when an area is entered in USED_VMA.
LEMMA LeftGrows ==
  ASSUME LeftOk, multiple => multiple', mapped' = mapped,
         \A r \in DOMAIN used : r \in DOMAIN used' /\ used'[r] = used[r],
         \A q : ~Unmapping(Bsp, q)
  PROVE  LeftOk'
<1>1. ASSUME ~multiple', NEW q \in 0 .. Pages - 1, mapped'[q] # NoFrame
      PROVE  \E s \in DOMAIN used' : q \in PagesOf(used'[s])
  <2>1. ~multiple /\ mapped[q] # NoFrame  BY <1>1
  <2>2. PICK s \in DOMAIN used : q \in PagesOf(used[s])  BY <2>1 DEF LeftOk
  <2>3. QED  BY <2>2
<1>2. QED  BY <1>1 DEF LeftOk

LEMMA OtherCore ==
  ASSUME Least, AcpiCore, job = Idle, UNCHANGED acpi, Other
  PROVE  /\ AcpiCore'
         /\ halted' \in {halted, "missing page", "not mappable", "out of memory",
                        "page already mapped"}
<1>1. ASSUME NEW size \in Sizes, AllocateFind(Bsp, size, TRUE, FALSE)
      PROVE  AcpiCore' /\ halted' = halted
  <2> USE <1>1
  <2>1. halted = "no" /\ task[Bsp] = Idle  BY DEF AllocateFind
  <2>2. CASE Fitting(aligned_size(size)) = {}
    <3>1. UNCHANGED vars  BY <2>2 DEF AllocateFind
    <3>2. UNCHANGED <<free, used, mapped, pool, task, owned, job, mappings, multiple>>
          /\ halted' = halted
      BY <3>1 DEF vars, acpi
    <3>3. QED  BY <3>2, AcpiSame
  <2>3. CASE Fitting(aligned_size(size)) # {}
    <3>1. UNCHANGED <<used, mapped, pool, owned>> /\ halted' = "no"
      BY <2>3 DEF AllocateFind
    <3>2. Arena /\ Bsp \in Cpus /\ size \in Nat /\ size > 0 /\ size + PageSize - 1 < Word
      BY SizesOk, BspAssumption DEF AcpiCore
    <3>3. PICK w \in Area : Arena' /\ task'[Bsp] = [pc |-> "insert", vma |-> w]
      <4>1. TRUE \in BOOLEAN /\ FALSE \in BOOLEAN  BY SMT
      <4>2. QED  BY <2>3, <3>2, <4>1, AllocateFindArena
    <3>4. task'[Bsp].pc = "insert" /\ task[Bsp].pc = "idle"  BY <2>1, <3>3, SMT DEF Idle
    <3>5. BspOk'  BY <3>4 DEF BspOk
    <3>6. \A q : ~Unmapping(Bsp, q)  BY <3>4 DEF Unmapping
    <3>7. LeftOk'  BY <3>1, <3>6, LeftKept, SameMultiple DEF AcpiCore
    <3>8. \A m \in mappings : m.vma \in owned'[Bsp]  BY <3>1, MappingArea
    <3>9. AcpiCore'  BY <3>1, <3>3, <3>5, <3>7, <3>8, OtherKeeps DEF AcpiCore
    <3>10. QED  BY <2>1, <3>1, <3>9
  <2>4. QED  BY <2>2, <2>3
\* Other code gives back areas that are populated on demand: no mapping has one.
<1>2. ASSUME NEW v \in owned[Bsp], v.map, DeallocateRemove(Bsp, v)
      PROVE  AcpiCore' /\ halted' = halted
  <2> USE <1>2
  <2>1. /\ Arena' /\ v \in Area /\ v.start < v.end
        /\ DOMAIN used' = DOMAIN used \ {v.start} /\ used[v.start] = v
        /\ \A r \in DOMAIN used : r # v.start => used'[r] = used[r]
        /\ task'[Bsp].vma = v /\ task'[Bsp].pc = "unmap" /\ task'[Bsp].page = v.start
        /\ owned'[Bsp] = owned[Bsp] \ {v} /\ UNCHANGED <<mapped, pool, halted>>
    BY DeallocateRemoveArena, BspAssumption DEF AcpiCore
  <2>2. task[Bsp].pc = "idle"
    <3>1. task[Bsp] = Idle  BY DEF DeallocateRemove
    <3>2. QED  BY <3>1, SMT DEF Idle
  <2>3. BspOk'
    <3>1. v.start \in v.start .. v.end  BY <2>1, SMT DEF Area
    <3>2. QED  BY <2>1, <3>1 DEF BspOk
  <2>4. LeftOk'
    <3>1. ASSUME ~multiple', NEW q \in 0 .. Pages - 1, mapped'[q] # NoFrame
          PROVE  (\E s \in DOMAIN used' : q \in PagesOf(used'[s])) \/ Unmapping(Bsp, q)'
      <4>1. ~multiple /\ mapped[q] # NoFrame  BY <2>1, <3>1, SameMultiple
      <4>2. ~Unmapping(Bsp, q)  BY <2>2 DEF Unmapping
      <4>3. PICK s \in DOMAIN used : q \in PagesOf(used[s])
        BY <4>1, <4>2 DEF AcpiCore, LeftOk
      <4>4. CASE s = v.start
        <5>1. q \in PagesOf(v)  BY <2>1, <4>3, <4>4
        <5>2. q >= v.start  BY <2>1, <5>1, SMT DEF PagesOf, Area
        <5>3. Unmapping(Bsp, q)'  BY <2>1, <5>1, <5>2 DEF Unmapping
        <5>4. QED  BY <5>3
      <4>5. CASE s # v.start  BY <2>1, <4>3, <4>5
      <4>6. QED  BY <4>4, <4>5
    <3>2. QED  BY <3>1 DEF LeftOk
  <2>5. \A m \in mappings : m.vma \in owned'[Bsp]  BY <2>1, MappingArea
  <2>6. AcpiCore'  BY <2>1, <2>3, <2>4, <2>5, OtherKeeps DEF AcpiCore
  <2>7. QED  BY <2>1, <2>6
<1>3. ASSUME NEW p, Touch(Bsp, p)  PROVE AcpiCore' /\ halted' = halted
  <2> USE <1>3
  <2> DEFINE t == [pc |-> "lookup", page |-> p]
  <2>1. /\ task[Bsp] = Idle /\ (\E vma \in owned[Bsp] : vma.map /\ p \in PagesOf(vma))
        /\ task' = [task EXCEPT ![Bsp] = t] /\ UNCHANGED <<free, used, owned>>
        /\ mapped' = mapped /\ pool' = pool /\ halted' = halted
    BY DEF Touch, Goto
  <2>2. t.pc = "lookup" /\ t.page = p /\ task[Bsp].pc = "idle"  BY <2>1, SMT DEF Idle
  <2> HIDE DEF t
  <2>3. ASSUME task'[Bsp] = t  PROVE InFlight(Bsp)' = InFlight(Bsp) /\ BspOk' /\ LeftOk'
    <3>1. InFlight(Bsp)' = InFlight(Bsp)  BY <2>2, <2>3 DEF InFlight
    <3>2. BspOk'  BY <2>1, <2>2, <2>3 DEF BspOk
    <3>3. \A q : ~Unmapping(Bsp, q)  BY <2>2 DEF Unmapping
    <3>4. LeftOk'  BY <2>1, <3>3, LeftKept, SameMultiple DEF AcpiCore
    <3>5. QED  BY <3>1, <3>2, <3>4
  <2>4. AcpiCore'  BY <2>1, <2>3, OtherQuiet DEF AcpiCore
  <2>5. QED  BY <2>1, <2>4
<1>4. ASSUME AllocateInsert(Bsp)  PROVE AcpiCore' /\ halted' = halted
  <2> USE <1>4
  <2>1. UNCHANGED <<mapped, pool, halted>> /\ task[Bsp].pc = "insert"
    BY DEF AllocateInsert
  <2>2. /\ Arena' /\ task'[Bsp] = Idle /\ owned'[Bsp] = owned[Bsp] \cup {task[Bsp].vma}
        /\ \A r \in DOMAIN used : r \in DOMAIN used' /\ used'[r] = used[r]
    BY AllocateInsertArena, BspAssumption DEF AcpiCore
  <2>3. task'[Bsp].pc = "idle"  BY <2>2, SMT DEF Idle
  <2>4. BspOk'  BY <2>3 DEF BspOk
  <2>5. \A q : ~Unmapping(Bsp, q)  BY <2>1 DEF Unmapping
  <2>6. LeftOk'  BY <2>1, <2>2, <2>5, LeftGrows, SameMultiple DEF AcpiCore
  <2>7. \A m \in mappings : m.vma \in owned'[Bsp]  BY <2>2, MappingArea
  <2>8. AcpiCore'  BY <2>1, <2>2, <2>4, <2>6, <2>7, OtherKeeps DEF AcpiCore
  <2>9. QED  BY <2>1, <2>8
<1>5. ASSUME DeallocateUnmap(Bsp)  PROVE AcpiCore' /\ halted' = halted
  <2> USE <1>5
  <2> DEFINE v == task[Bsp].vma
             p == task[Bsp].page
             f == mapped[p]
  <2>1. /\ task[Bsp].pc = "unmap" /\ halted' = halted /\ UNCHANGED <<free, used, pool, owned>>
    BY DEF DeallocateUnmap
  <2>2. /\ v \in Area /\ p \in Nat /\ p \in v.start .. v.end
        /\ p # v.end => p \in 0 .. Pages - 1 /\ p \in PagesOf(v) /\ p + 1 \in v.start .. v.end
    BY <2>1, BspPage
  <2>3. InFlight(Bsp) = {v} /\ (\A q : Unmapping(Bsp, q) <=> q >= p /\ q \in PagesOf(v))
    BY <2>1 DEF InFlight, Unmapping
  <2>4. NoFrame \notin pool'  BY <2>1 DEF AcpiCore
  <2>5. CASE /\ p = v.end /\ mapped' = mapped
             /\ task' = [task EXCEPT ![Bsp] = [pc |-> "free", vma |-> v]]
    <3> DEFINE t == [pc |-> "free", vma |-> v]
    <3>1. t.pc = "free" /\ t.vma = v  BY SMT
    <3>2. task' = [task EXCEPT ![Bsp] = t]  BY <2>5
    <3> HIDE DEF t, v, p, f
    <3>3. ASSUME task'[Bsp] = t  PROVE InFlight(Bsp)' = InFlight(Bsp) /\ BspOk' /\ LeftOk'
      <4>1. InFlight(Bsp)' = InFlight(Bsp)  BY <2>3, <3>1, <3>3 DEF InFlight
      <4>2. BspOk'  BY <3>1, <3>3 DEF BspOk
      <4>3. \A q \in 0 .. Pages - 1 : ~Unmapping(Bsp, q)
        <5>1. \A q : ~(q >= p /\ q \in PagesOf(v))  BY <2>2, <2>5, SMT DEF PagesOf, Area
        <5>2. QED  BY <2>3, <5>1
      <4>4. LeftOk'  BY <2>1, <2>5, <4>3, LeftKept, SameMultiple DEF AcpiCore
      <4>5. QED  BY <4>1, <4>2, <4>4
    <3>4. mapped' = [q \in 0 .. Pages - 1 |-> mapped'[q]]  BY <2>5 DEF AcpiCore
    <3>5. \A m \in mappings : \A q \in PagesOf(m.vma) : mapped'[q] = mapped[q]  BY <2>5
    <3>6. UNCHANGED <<free, used, owned>>  BY <2>1
    <3>7. QED  BY <2>1, <2>4, <3>2, <3>3, <3>4, <3>5, <3>6, OtherQuiet
  <2>6. ASSUME p # v.end, mapped' = [mapped EXCEPT ![p] = NoFrame], NEW t,
               task' = [task EXCEPT ![Bsp] = t], t.vma = v,
               \/ t.pc = "unmap" /\ t.page = p + 1
               \/ t.pc = "drop" /\ t.page = p /\ t.frame # NoFrame
        PROVE  AcpiCore'
    <3> HIDE DEF v, p, f
    <3>1. /\ mapped' = [q \in 0 .. Pages - 1 |-> mapped'[q]]
          /\ mapped'[p] = NoFrame
          /\ \A q \in 0 .. Pages - 1 : q # p => mapped'[q] = mapped[q]
      BY <2>2, <2>6 DEF AcpiCore
    <3>2. \A m \in mappings : \A q \in PagesOf(m.vma) : mapped'[q] = mapped[q]
      <4> SUFFICES ASSUME NEW m \in mappings, NEW q \in PagesOf(m.vma)
                   PROVE  mapped'[q] = mapped[q]
        OBVIOUS
      <4>1. q \notin PagesOf(v) /\ m.vma \in owned[Bsp]
        BY <2>1, MappingArea DEF v
      <4>2. q \in 0 .. Pages - 1  BY <4>1, OwnedArea DEF AcpiCore
      <4>3. q # p  BY <2>2, <2>6, <4>1
      <4>4. QED  BY <3>1, <4>2, <4>3
    <3>3. ASSUME task'[Bsp] = t  PROVE InFlight(Bsp)' = InFlight(Bsp) /\ BspOk' /\ LeftOk'
      <4>1. InFlight(Bsp)' = InFlight(Bsp)  BY <2>3, <2>6, <3>3 DEF InFlight
      <4>2. BspOk'  BY <2>2, <2>6, <3>1, <3>3 DEF BspOk
      <4>3. ASSUME ~multiple', NEW q \in 0 .. Pages - 1, mapped'[q] # NoFrame
            PROVE  (\E s \in DOMAIN used' : q \in PagesOf(used'[s])) \/ Unmapping(Bsp, q)'
        <5>1. ~multiple /\ used' = used /\ q # p /\ mapped[q] # NoFrame
          BY <2>1, <3>1, <4>3, SameMultiple
        <5>2. CASE \E s \in DOMAIN used : q \in PagesOf(used[s])  BY <5>1, <5>2
        <5>3. CASE Unmapping(Bsp, q)
          <6>1. q >= p /\ q \in PagesOf(v)  BY <2>3, <5>3
          <6>2. q >= p + 1  BY <2>2, <5>1, <6>1, SMT
          <6>3. Unmapping(Bsp, q)'  BY <2>6, <3>3, <6>1, <6>2 DEF Unmapping
          <6>4. QED  BY <6>3
        <5>4. QED  BY <5>1, <5>2, <5>3 DEF AcpiCore, LeftOk
      <4>4. LeftOk'  BY <4>3 DEF LeftOk
      <4>5. QED  BY <4>1, <4>2, <4>4
    <3>4. UNCHANGED <<free, used, owned>>  BY <2>1
    <3>5. QED  BY <2>4, <2>6, <3>1, <3>2, <3>3, <3>4, OtherQuiet
  <2>7. CASE /\ p # v.end /\ f = NoFrame /\ mapped' = [mapped EXCEPT ![p] = NoFrame]
             /\ task' = [task EXCEPT ![Bsp] = [pc |-> "unmap", vma |-> v, page |-> p + 1]]
    <3> DEFINE t == [pc |-> "unmap", vma |-> v, page |-> p + 1]
    <3>1. t.pc = "unmap" /\ t.vma = v /\ t.page = p + 1  BY SMT
    <3>2. p # v.end /\ mapped' = [mapped EXCEPT ![p] = NoFrame]
          /\ task' = [task EXCEPT ![Bsp] = t]
      BY <2>7
    <3> HIDE DEF t
    <3>3. QED  BY <2>1, <2>6, <3>1, <3>2
  <2>8. CASE /\ p # v.end /\ f # NoFrame /\ mapped' = [mapped EXCEPT ![p] = NoFrame]
             /\ task' = [task EXCEPT ![Bsp] =
                           [pc |-> "drop", vma |-> v, page |-> p, frame |-> f]]
    <3> DEFINE t == [pc |-> "drop", vma |-> v, page |-> p, frame |-> f]
    <3>1. t.pc = "drop" /\ t.vma = v /\ t.page = p /\ t.frame = f  BY SMT
    <3>2. p # v.end /\ mapped' = [mapped EXCEPT ![p] = NoFrame]
          /\ task' = [task EXCEPT ![Bsp] = t] /\ f # NoFrame
      BY <2>8
    <3> HIDE DEF t
    <3>3. QED  BY <2>1, <2>6, <3>1, <3>2
  <2>9. QED  BY <2>5, <2>7, <2>8 DEF DeallocateUnmap, Goto
<1>6. ASSUME DeallocateFrame(Bsp)  PROVE AcpiCore' /\ halted' = halted
  <2> USE <1>6
  <2> DEFINE v == task[Bsp].vma
             p == task[Bsp].page
             t == [pc |-> "unmap", vma |-> v, page |-> p + 1]
  <2>1. /\ task[Bsp].pc = "drop" /\ halted' = halted
        /\ UNCHANGED <<free, used, owned>> /\ mapped' = mapped /\ used' = used
        /\ pool' = pool \cup {task[Bsp].frame} /\ task' = [task EXCEPT ![Bsp] = t]
    BY DEF DeallocateFrame, Goto
  <2>2. p # v.end /\ task[Bsp].frame # NoFrame  BY <2>1 DEF AcpiCore, BspOk
  <2>3. /\ v \in Area /\ p \in Nat /\ p \in PagesOf(v) /\ p + 1 \in v.start .. v.end
        /\ p \in 0 .. Pages - 1
    BY <2>1, <2>2, BspPage
  <2>4. InFlight(Bsp) = {v} /\ (\A q : Unmapping(Bsp, q) <=> q >= p /\ q \in PagesOf(v))
    BY <2>1 DEF InFlight, Unmapping
  <2>5. mapped[p] = NoFrame  BY <2>1 DEF AcpiCore, BspOk
  <2>6. t.pc = "unmap" /\ t.vma = v /\ t.page = p + 1  BY SMT
  <2> HIDE DEF v, p, t
  <2>7. ASSUME task'[Bsp] = t  PROVE InFlight(Bsp)' = InFlight(Bsp) /\ BspOk' /\ LeftOk'
    <3>1. InFlight(Bsp)' = InFlight(Bsp)  BY <2>4, <2>6, <2>7 DEF InFlight
    <3>2. BspOk'  BY <2>3, <2>6, <2>7 DEF BspOk
    <3>3. ASSUME NEW q \in 0 .. Pages - 1, mapped[q] # NoFrame, Unmapping(Bsp, q)
          PROVE  Unmapping(Bsp, q)'
      <4>1. q >= p /\ q \in PagesOf(v) /\ q # p  BY <2>4, <2>5, <3>3
      <4>2. q >= p + 1  BY <2>3, <4>1, SMT
      <4>3. QED  BY <2>6, <2>7, <4>1, <4>2 DEF Unmapping
    <3>4. LeftOk'  BY <2>1, <3>3, LeftKept, SameMultiple DEF AcpiCore
    <3>5. QED  BY <3>1, <3>2, <3>4
  <2>8. NoFrame \notin pool'  BY <2>1, <2>2 DEF AcpiCore
  <2>9. AcpiCore'  BY <2>1, <2>7, <2>8, OtherQuiet DEF AcpiCore
  <2>10. QED  BY <2>1, <2>9
<1>7. ASSUME DeallocateInsert(Bsp)  PROVE AcpiCore' /\ halted' = halted
  <2> USE <1>7
  <2>1. UNCHANGED <<used, mapped, pool, owned, halted>> /\ task[Bsp].pc = "free"
    BY DEF DeallocateInsert
  <2>2. Arena' /\ task'[Bsp] = Idle
    BY DeallocateInsertArena, BspAssumption DEF AcpiCore
  <2>3. task'[Bsp].pc = "idle"  BY <2>2, SMT DEF Idle
  <2>4. BspOk'  BY <2>3 DEF BspOk
  <2>5. \A q : ~Unmapping(Bsp, q)  BY <2>1 DEF Unmapping
  <2>6. LeftOk'  BY <2>1, <2>5, LeftKept, SameMultiple DEF AcpiCore
  <2>7. \A m \in mappings : m.vma \in owned'[Bsp]  BY <2>1, MappingArea
  <2>8. AcpiCore'  BY <2>1, <2>2, <2>4, <2>6, <2>7, OtherKeeps DEF AcpiCore
  <2>9. QED  BY <2>1, <2>8
<1>8. ASSUME FaultLookup(Bsp)
      PROVE  AcpiCore' /\ halted' \in {halted, "missing page", "not mappable"}
  <2> USE <1>8
  <2> DEFINE t == [pc |-> "frame", page |-> task[Bsp].page]
  <2>1. task[Bsp].pc = "lookup"  BY DEF FaultLookup
  <2>2. CASE Panic("missing page") \/ Panic("not mappable")
    <3>1. UNCHANGED <<free, used, mapped, pool, task, owned, job, mappings, multiple>>
      BY <2>2 DEF Panic, acpi
    <3>2. halted' \in {halted, "missing page", "not mappable"}  BY <2>2 DEF Panic
    <3>3. QED  BY <3>1, <3>2, AcpiSame
  <2>3. CASE task' = [task EXCEPT ![Bsp] = t] /\ UNCHANGED <<free, used, mapped, pool, owned, halted>>
    <3>1. t.pc = "frame" /\ t.page = task[Bsp].page  BY SMT
    <3>2. task' = [task EXCEPT ![Bsp] = t]  BY <2>3
    <3> HIDE DEF t
    <3>3. ASSUME task'[Bsp] = t  PROVE InFlight(Bsp)' = InFlight(Bsp) /\ BspOk' /\ LeftOk'
      <4>1. InFlight(Bsp)' = InFlight(Bsp)  BY <2>1, <3>1, <3>3 DEF InFlight
      <4>2. BspOk'  BY <2>1, <2>3, <3>1, <3>3 DEF BspOk, AcpiCore
      <4>3. \A q : ~Unmapping(Bsp, q)  BY <2>1 DEF Unmapping
      <4>4. LeftOk'  BY <2>3, <4>3, LeftKept, SameMultiple DEF AcpiCore
      <4>5. QED  BY <4>1, <4>2, <4>4
    <3>4. AcpiCore'  BY <2>3, <3>2, <3>3, OtherQuiet DEF AcpiCore
    <3>5. QED  BY <2>3, <3>4
  <2>4. QED  BY <2>2, <2>3 DEF FaultLookup, Goto
<1>9. ASSUME FaultFrame(Bsp)
      PROVE  AcpiCore' /\ halted' \in {halted, "out of memory"}
  <2> USE <1>9
  <2>1. task[Bsp].pc = "frame"  BY DEF FaultFrame
  <2>2. CASE Panic("out of memory")
    <3>1. UNCHANGED <<free, used, mapped, pool, task, owned, job, mappings, multiple>>
      BY <2>2 DEF Panic, acpi
    <3>2. halted' \in {halted, "out of memory"}  BY <2>2 DEF Panic
    <3>3. QED  BY <3>1, <3>2, AcpiSame
  <2>3. ASSUME NEW f \in pool, pool' = pool \ {f},
               task' = [task EXCEPT ![Bsp] = [pc |-> "map", page |-> task[Bsp].page, frame |-> f]],
               UNCHANGED <<free, used, mapped, owned, halted>>
        PROVE  AcpiCore' /\ halted' = halted
    <3> DEFINE t == [pc |-> "map", page |-> task[Bsp].page, frame |-> f]
    <3>1. t.pc = "map" /\ t.page = task[Bsp].page  BY SMT
    <3>2. task' = [task EXCEPT ![Bsp] = t]  BY <2>3
    <3> HIDE DEF t
    <3>3. ASSUME task'[Bsp] = t  PROVE InFlight(Bsp)' = InFlight(Bsp) /\ BspOk' /\ LeftOk'
      <4>1. InFlight(Bsp)' = InFlight(Bsp)  BY <2>1, <3>1, <3>3 DEF InFlight
      <4>2. BspOk'  BY <2>1, <2>3, <3>1, <3>3 DEF BspOk, AcpiCore
      <4>3. \A q : ~Unmapping(Bsp, q)  BY <2>1 DEF Unmapping
      <4>4. LeftOk'  BY <2>3, <4>3, LeftKept, SameMultiple DEF AcpiCore
      <4>5. QED  BY <4>1, <4>2, <4>4
    <3>4. NoFrame \notin pool'  BY <2>3 DEF AcpiCore
    <3>5. AcpiCore'  BY <2>3, <3>2, <3>3, <3>4, OtherQuiet DEF AcpiCore
    <3>6. QED  BY <2>3, <3>5
  <2>4. QED  BY <2>2, <2>3 DEF FaultFrame, Goto
\* A fault populates a page of an area of other code, which no mapping has.
<1>10. ASSUME FaultMap(Bsp)
      PROVE  AcpiCore' /\ halted' \in {halted, "page already mapped", "out of memory"}
  <2> USE <1>10
  <2> DEFINE p == task[Bsp].page
             f == task[Bsp].frame
  <2>1. task[Bsp].pc = "map"  BY DEF FaultMap
  <2>2. CASE Panic("page already mapped") \/ Panic("out of memory")
    <3>1. UNCHANGED <<free, used, mapped, pool, task, owned, job, mappings, multiple>>
      BY <2>2 DEF Panic, acpi
    <3>2. halted' \in {halted, "page already mapped", "out of memory"}  BY <2>2 DEF Panic
    <3>3. QED  BY <3>1, <3>2, AcpiSame
  <2>3. CASE /\ mapped' = [mapped EXCEPT ![p] = f] /\ task' = [task EXCEPT ![Bsp] = Idle]
             /\ UNCHANGED <<free, used, pool, owned, halted>>
    <3>1. PICK vma \in owned[Bsp] : vma.map /\ p \in PagesOf(vma)
      BY <2>1 DEF AcpiCore, BspOk
    <3>2. /\ vma.start \in DOMAIN used /\ used[vma.start] = vma /\ p \in 0 .. Pages - 1
      BY <3>1, OwnedArea DEF AcpiCore
    <3> HIDE DEF p, f
    <3>3. /\ mapped' = [q \in 0 .. Pages - 1 |-> mapped'[q]]
          /\ \A q \in 0 .. Pages - 1 : q # p => mapped'[q] = mapped[q]
      BY <2>3 DEF AcpiCore
    <3>4. \A m \in mappings : \A q \in PagesOf(m.vma) : mapped'[q] = mapped[q]
      <4> SUFFICES ASSUME NEW m \in mappings, NEW q \in PagesOf(m.vma)
                   PROVE  mapped'[q] = mapped[q]
        OBVIOUS
      <4>1. m.vma \in owned[Bsp] /\ ~m.vma.map /\ vma # m.vma  BY <3>1, MappingArea
      <4>2. q \in 0 .. Pages - 1 /\ \A w \in owned[Bsp] : q \in PagesOf(w) => w = m.vma
        BY <4>1, OwnedArea DEF AcpiCore
      <4>3. q # p  BY <3>1, <4>1, <4>2
      <4>4. QED  BY <3>3, <4>2, <4>3
    <3>5. Idle.pc = "idle"  BY SMT DEF Idle
    <3>6. ASSUME task'[Bsp] = Idle  PROVE InFlight(Bsp)' = InFlight(Bsp) /\ BspOk' /\ LeftOk'
      <4>1. InFlight(Bsp)' = InFlight(Bsp)  BY <2>1, <3>5, <3>6 DEF InFlight
      <4>2. BspOk'  BY <3>5, <3>6 DEF BspOk
      <4>3. \A q : ~Unmapping(Bsp, q)  BY <2>1 DEF Unmapping
      <4>4. ASSUME ~multiple', NEW q \in 0 .. Pages - 1, mapped'[q] # NoFrame
            PROVE  \E s \in DOMAIN used' : q \in PagesOf(used'[s])
        <5>1. ~multiple /\ used' = used  BY <2>3, <4>4, SameMultiple
        <5>2. CASE q = p  BY <3>1, <3>2, <5>1, <5>2
        <5>3. CASE q # p
          <6>1. mapped[q] # NoFrame  BY <3>3, <4>4, <5>3
          <6>2. QED  BY <4>3, <5>1, <6>1 DEF AcpiCore, LeftOk
        <5>4. QED  BY <5>2, <5>3
      <4>5. LeftOk'  BY <4>4 DEF LeftOk
      <4>6. QED  BY <4>1, <4>2, <4>5
    <3>7. AcpiCore'
      <4>1. NoFrame \notin pool'  BY <2>3 DEF AcpiCore
      <4>2. UNCHANGED <<free, used, owned>>  BY <2>3
      <4>3. QED  BY <2>3, <3>3, <3>4, <3>6, <4>1, <4>2, OtherQuiet
    <3>8. QED  BY <2>3, <3>7
  <2>4. QED  BY <2>2, <2>3 DEF FaultMap, Goto
<1>11. QED
  BY <1>1, <1>2, <1>3, <1>4, <1>5, <1>6, <1>7, <1>8, <1>9, <1>10 DEF Other, Step

\* None of it fails an unwrap of acpi.rs.
LEMMA AcpiOther ==
  ASSUME Least, AcpiInv, Other
  PROVE  AcpiInv'
<1>1. AcpiCore /\ UnwrapsHold /\ job = Idle /\ UNCHANGED acpi  BY DEF AcpiInv, Other
<1>2. /\ AcpiCore'
      /\ halted' \in {halted, "missing page", "not mappable", "out of memory",
                     "page already mapped"}
  BY <1>1, OtherCore
<1>3. UnwrapsHold'
  <2>1. multiple => multiple'  BY <1>1, SameMultiple
  <2>2. QED  BY <1>1, <1>2, <2>1 DEF UnwrapsHold
<1>4. QED  BY <1>2, <1>3 DEF AcpiInv


-----------------------------------------------------------------------------
(* The steps of acpi.rs.                                                   *)

\* A step of acpi.rs keeps what is not about the mapping it is at.
LEMMA JobKeeps ==
  ASSUME AcpiCore, Arena', task'[Bsp].pc \in {"idle", "insert", "free"}, LeftOk',
         mapped' = [p \in 0 .. Pages - 1 |-> mapped'[p]], NoFrame \notin pool',
         multiple' \in BOOLEAN, multiple => multiple', InsertOk', MapOk', UnmapOk',
         MappingsApart', mappings' \subseteq mappings,
         \A m \in mappings' : /\ m.vma \in owned'[Bsp]
                              /\ \A p \in PagesOf(m.vma) : mapped'[p] = mapped[p]
  PROVE  AcpiCore'
<1>1. BspOk'  BY DEF BspOk
<1>2. \A m \in mappings' : MappingOk(m)'  BY MappingKept DEF AcpiCore
<1>3. QED  BY <1>1, <1>2 DEF AcpiCore

LEMMA AcpiFail ==
  ASSUME AcpiCore, NEW why, Fail(why)
  PROVE  AcpiCore' /\ halted' = why /\ (multiple => multiple')
<1>1. UNCHANGED <<free, used, mapped, pool, task, owned, job, mappings, multiple>>
  BY DEF Fail, Panic, acpi
<1>2. halted' = why /\ UNCHANGED acpi  BY DEF Fail, Panic
<1>3. QED  BY <1>1, <1>2, AcpiSame, SameMultiple

LEMMA TakeAreaStep ==
  ASSUME Least, AcpiCore, NEW r \in Regions \cup {Lapic}, NEW bytes,
         bytes = RoundUp(r.size) \/ (r = Lapic /\ bytes = PageSize), TakeArea(r, bytes)
  PROVE  AcpiCore' /\ halted' \in {halted, "no area"} /\ (multiple => multiple')
<1>1. CASE Fail("no area")
  <2>1. AcpiCore' /\ halted' = "no area" /\ (multiple => multiple')
    BY <1>1, AcpiFail
  <2>2. QED  BY <2>1
<1>2. CASE Fitting(aligned_size(bytes)) # {}
  <2>1. /\ AllocateFind(Bsp, bytes, FALSE, FALSE) /\ job' = [pc |-> "insert", region |-> r]
        /\ multiple' = (multiple \/ bytes > r.size + PageSize - 1) /\ mappings' = mappings
    BY <1>2 DEF TakeArea
  <2>2. UNCHANGED <<used, mapped, pool, owned>> /\ halted' = "no" /\ halted = "no"
        /\ task[Bsp] = Idle
    BY <1>2, <2>1 DEF AllocateFind
  <2>3. bytes \in Nat /\ bytes > 0 /\ bytes + PageSize - 1 < Word
    BY RegionSizes, OnePage
  <2>4. PICK w \in Area : /\ Arena' /\ task'[Bsp] = [pc |-> "insert", vma |-> w]
                          /\ Size(w) = aligned_size(bytes) /\ w.map = FALSE
    <3>1. FALSE \in BOOLEAN /\ Bsp \in Cpus /\ Arena
      BY BspAssumption DEF AcpiCore
    <3>2. QED  BY <1>2, <2>1, <2>3, <3>1, AllocateFindArena
  <2>5. /\ task'[Bsp].pc = "insert" /\ task'[Bsp].vma = w /\ task[Bsp].pc = "idle"
        /\ job'.pc = "insert" /\ job'.region = r
    BY <2>1, <2>2, <2>4, SMT DEF Idle
  <2>6. /\ multiple' \in BOOLEAN /\ (multiple => multiple')
        /\ ~multiple' => ~(bytes > r.size + PageSize - 1)
    BY <2>1
  <2>7. \A q : ~Unmapping(Bsp, q)  BY <2>5 DEF Unmapping
  <2>8. LeftOk'  BY <2>2, <2>6, <2>7, LeftKept DEF AcpiCore
  <2>9. AreaFor(r, w)'  BY <2>4 DEF AreaFor
  <2>10. Whole(r)'
    <3>1. CASE bytes = RoundUp(r.size)  BY <2>6, <3>1, RegionSizes DEF Whole
    <3>2. CASE r = Lapic  BY <3>2 DEF Whole
    <3>3. QED  BY <3>1, <3>2
  <2>11. InsertOk' /\ MapOk' /\ UnmapOk'
    <3>1. InsertOk'  BY <2>4, <2>5, <2>9, <2>10 DEF InsertOk
    <3>2. QED  BY <2>5, <3>1 DEF MapOk, UnmapOk
  <2>12. MappingsApart'  BY <2>1, <2>5 DEF MappingsApart, AcpiCore
  <2>13. \A m \in mappings' : /\ m.vma \in owned'[Bsp]
                              /\ \A p \in PagesOf(m.vma) : mapped'[p] = mapped[p]
    BY <2>1, <2>2, MappingArea
  <2>14. /\ mapped' = [p \in 0 .. Pages - 1 |-> mapped'[p]] /\ NoFrame \notin pool'
         /\ mappings' \subseteq mappings
    BY <2>1, <2>2 DEF AcpiCore
  <2>15. AcpiCore'
    BY <2>4, <2>5, <2>6, <2>8, <2>11, <2>12, <2>13, <2>14, JobKeeps
  <2>16. QED  BY <2>2, <2>6, <2>15
<1>3. QED  BY <1>1, <1>2 DEF TakeArea

\* The area just entered in USED_VMA has no page left from an earlier use.
LEMMA MapInsertStep ==
  ASSUME AcpiCore, MapInsert
  PROVE  AcpiCore' /\ halted' = halted /\ (multiple => multiple')
<1>0. PICK v, r : v = task[Bsp].vma /\ r = job.region  BY SMT
<1>1. /\ job.pc = "insert" /\ AllocateInsert(Bsp) /\ mappings' = mappings
      /\ job' = [pc |-> "map", region |-> r, vma |-> v, done |-> 0]
  BY <1>0 DEF MapInsert
<1>2. multiple' \in BOOLEAN /\ (multiple <=> multiple')  BY SMT DEF MapInsert, AcpiCore
<1>3. UNCHANGED <<mapped, pool, halted>> /\ task[Bsp].pc = "insert"
  BY <1>1 DEF AllocateInsert
<1>4. Arena /\ Bsp \in Cpus  BY BspAssumption DEF AcpiCore
<1>5. /\ Arena' /\ v \in Area /\ v.start < v.end /\ v \notin owned[Bsp]
      /\ task'[Bsp] = Idle /\ owned'[Bsp] = owned[Bsp] \cup {v}
      /\ \A s \in DOMAIN used : s \in DOMAIN used' /\ used'[s] = used[s]
  BY <1>0, <1>1, <1>4, AllocateInsertArena
<1>6. /\ job'.pc = "map" /\ job'.region = r /\ job'.vma = v /\ job'.done = 0
      /\ task'[Bsp].pc = "idle"
      /\ job' = [pc |-> "map", region |-> job'.region, vma |-> job'.vma, done |-> job'.done]
  BY <1>1, <1>5, SMT DEF Idle
<1>7. \A q : ~Unmapping(Bsp, q)  BY <1>3 DEF Unmapping
<1>8. LeftOk'  BY <1>2, <1>3, <1>5, <1>7, LeftGrows DEF AcpiCore
<1>9. Held(r, v)'
  <2>1. AreaFor(r, v) /\ ~v.map /\ Whole(r)  BY <1>0, <1>1 DEF AcpiCore, InsertOk
  <2>2. Whole(r)' /\ AreaFor(r, v)'  BY <1>2, <2>1 DEF Whole, AreaFor
  <2>3. QED  BY <1>5, <2>1, <2>2 DEF Held
<1>10. ASSUME NEW p \in PagesOf(v)
       PROVE  ~(p < v.start + 0) /\ (multiple' \/ mapped'[p] = NoFrame)
  <2>1. ~(p < v.start + 0)  BY <1>5, SMT DEF PagesOf, Area
  <2>2. ASSUME ~multiple', mapped'[p] # NoFrame  PROVE FALSE
    <3>1. p \in 0 .. Pages - 1  BY <1>0, <1>3, <1>4, FlightArea
    <3>2. PICK s \in DOMAIN used : p \in PagesOf(used[s])
      BY <1>2, <1>3, <1>7, <2>2, <3>1 DEF AcpiCore, LeftOk
    <3>3. QED  BY <1>0, <1>3, <1>4, <3>2, UsedOnce
  <2>3. QED  BY <2>1, <2>2
<1>11. MapOk'
  <2>1. 0 \in 0 .. Size(v)  BY <1>5, SMT DEF Size, Area
  <2>2. QED  BY <1>5, <1>6, <1>9, <1>10, <2>1 DEF MapOk
<1>12. InsertOk' /\ UnmapOk'  BY <1>6 DEF InsertOk, UnmapOk
<1>13. MappingsApart'
  <2>1. \A m \in mappings : m.vma # v  BY <1>5, MappingArea
  <2>2. QED  BY <1>1, <1>6, <2>1 DEF AcpiCore, MappingsApart
<1>14. \A m \in mappings' : /\ m.vma \in owned'[Bsp]
                            /\ \A p \in PagesOf(m.vma) : mapped'[p] = mapped[p]
  BY <1>1, <1>3, <1>5, MappingArea
<1>15. /\ mapped' = [p \in 0 .. Pages - 1 |-> mapped'[p]] /\ NoFrame \notin pool'
       /\ mappings' \subseteq mappings
  BY <1>1, <1>3 DEF AcpiCore
<1>16. AcpiCore'
  BY <1>2, <1>5, <1>6, <1>8, <1>11, <1>12, <1>13, <1>14, <1>15, JobKeeps
<1>17. QED  BY <1>2, <1>3, <1>16


\* What is known while a mapping is made or dropped.
LEMMA JobArea ==
  ASSUME AcpiCore, NEW v, v \in owned[Bsp], job.pc \in {"map", "unmap"}, job.vma = v
  PROVE  /\ Arena /\ v \in Area /\ v.start < v.end
         /\ v.start \in DOMAIN used /\ used[v.start] = v
         /\ \A p \in PagesOf(v) : p \in 0 .. Pages - 1
         /\ \A m \in mappings : \A p \in PagesOf(m.vma) : p \notin PagesOf(v)
         /\ task[Bsp] = Idle /\ task[Bsp].pc = "idle" /\ \A q : ~Unmapping(Bsp, q)
<1>1. Arena  BY DEF AcpiCore
<1>2. /\ v \in Area /\ v.start < v.end /\ v.start \in DOMAIN used /\ used[v.start] = v
      /\ \A p \in PagesOf(v) : p \in 0 .. Pages - 1
  BY <1>1, OwnedArea
<1>3. task[Bsp] = Idle  BY DEF AcpiCore, MapOk, UnmapOk
<1>4. task[Bsp].pc = "idle"  BY <1>3, SMT DEF Idle
<1>5. \A q : ~Unmapping(Bsp, q)  BY <1>4 DEF Unmapping
<1>6. ASSUME NEW m \in mappings, NEW p \in PagesOf(m.vma), p \in PagesOf(v)  PROVE FALSE
  <2>1. m.vma = v  BY <1>6, MappingArea
  <2>2. m.vma # v  BY DEF AcpiCore, MappingsApart
  <2>3. QED  BY <2>1, <2>2
<1>7. QED  BY <1>1, <1>2, <1>3, <1>4, <1>5, <1>6

LEMMA MapPageStep ==
  ASSUME AcpiCore, MapPage
  PROVE  /\ AcpiCore' /\ halted' \in {halted, "already mapped", "no frame"}
         /\ multiple => multiple'
         /\ halted' = "already mapped" => multiple'
<1>0. PICK v, r, k : v = job.vma /\ r = job.region /\ k = job.done  BY SMT
<1> DEFINE page == v.start + k
           frame == FrameFor(r, k)
<1>1. job.pc = "map" /\ k < Size(v) /\ halted = "no"  BY <1>0 DEF MapPage
<1>2. /\ Held(r, v) /\ k \in 0 .. Size(v)
      /\ job = [pc |-> "map", region |-> r, vma |-> v, done |-> k]
      /\ \A p \in PagesOf(v) : IF p < v.start + k THEN Shown(r, v, p)
                               ELSE multiple \/ mapped[p] = NoFrame
  BY <1>0, <1>1 DEF AcpiCore, MapOk
<1>3. v \in owned[Bsp] /\ AreaFor(r, v) /\ r \in Regions \cup {Lapic}
  BY <1>2 DEF Held, AreaFor
<1>4. /\ Arena /\ v \in Area /\ v.start < v.end
      /\ v.start \in DOMAIN used /\ used[v.start] = v
      /\ \A p \in PagesOf(v) : p \in 0 .. Pages - 1
      /\ \A m \in mappings : \A p \in PagesOf(m.vma) : p \notin PagesOf(v)
      /\ task[Bsp] = Idle /\ task[Bsp].pc = "idle" /\ \A q : ~Unmapping(Bsp, q)
  BY <1>0, <1>1, <1>3, JobArea
<1>5. /\ page \in PagesOf(v) /\ ~(page < v.start + k) /\ page - v.start = k /\ k \in Nat
      /\ k + 1 \in 0 .. Size(v) /\ page \in Nat
      /\ \A p \in PagesOf(v) : p < v.start + (k + 1) => p = page \/ p < v.start + k
      /\ \A p \in PagesOf(v) : ~(p < v.start + (k + 1)) => p # page /\ ~(p < v.start + k)
  BY <1>1, <1>2, <1>4, SMT DEF PagesOf, Size, Area
<1>6. frame \in Nat
  <2>1. r.phys \in Nat  BY <1>3, RegionSizes
  <2>2. r.phys \div PageSize \in Nat  BY <2>1, Euclid
  <2>3. QED  BY <1>5, <2>2, SMT DEF FrameFor
<1>7. CASE mapped[page] # NoFrame /\ Fail("already mapped")
  <2>1. AcpiCore' /\ halted' = "already mapped" /\ (multiple => multiple')
    BY <1>7, AcpiFail
  <2>2. multiple  BY <1>2, <1>5, <1>7
  <2>3. QED  BY <2>1, <2>2
<1>8. CASE Fail("no frame")
  <2>1. AcpiCore' /\ halted' = "no frame" /\ (multiple => multiple')
    BY <1>8, AcpiFail
  <2>2. "no frame" # "already mapped"  BY SMT
  <2>3. QED  BY <2>1, <2>2
<1>9. ASSUME NEW f \in (IF frame = 0 THEN pool ELSE {frame}),
             mapped' = [mapped EXCEPT ![page] = f], pool' = pool \ {f},
             job' = [job EXCEPT !.done = @ + 1],
             UNCHANGED <<free, used, task, owned, halted, mappings, multiple>>
      PROVE  AcpiCore' /\ halted' = halted /\ (multiple => multiple')
  <2>1. f # NoFrame /\ (frame # 0 => f = frame)
    <3>1. CASE frame = 0  BY <1>9, <3>1 DEF AcpiCore
    <3>2. CASE frame # 0
      <4>1. f = frame  BY <1>9, <3>2
      <4>2. QED  BY <1>6, <4>1, NoFrameAssumption
    <3>3. QED  BY <3>1, <3>2
  <2>2. multiple' \in BOOLEAN /\ (multiple <=> multiple')  BY <1>9, SMT DEF AcpiCore
  <2>3. /\ used' = used /\ owned' = owned /\ task' = task /\ mappings' = mappings
        /\ halted' = halted /\ UNCHANGED <<free, used, task, owned>>
    BY <1>9
  <2>4. job' = [pc |-> "map", region |-> r, vma |-> v, done |-> k + 1]
    BY <1>2, <1>9, SMT
  <2>5. /\ job'.pc = "map" /\ job'.region = r /\ job'.vma = v /\ job'.done = k + 1
        /\ job' = [pc |-> "map", region |-> job'.region, vma |-> job'.vma, done |-> job'.done]
    BY <2>4, SMT
  <2> HIDE DEF page
  <2>6. /\ mapped' = [p \in 0 .. Pages - 1 |-> mapped'[p]] /\ mapped'[page] = f
        /\ \A p \in 0 .. Pages - 1 : p # page => mapped'[p] = mapped[p]
    BY <1>4, <1>5, <1>9 DEF AcpiCore
  <2>7. Held(r, v)'  BY <1>2, <1>3, <2>2, <2>3, HeldKept
  <2>8. Shown(r, v, page)'
    <3>1. FrameFor(r, page - v.start) = frame  BY <1>5
    <3>2. QED  BY <2>1, <2>6, <3>1 DEF Shown
  <2>9. ASSUME NEW p \in PagesOf(v)
        PROVE  /\ p < v.start + (k + 1) => Shown(r, v, p)'
               /\ ~(p < v.start + (k + 1)) => multiple' \/ mapped'[p] = NoFrame
    <3>1. p \in 0 .. Pages - 1  BY <1>4
    <3>2. ASSUME p < v.start + k, p # page  PROVE Shown(r, v, p)'
      <4>1. Shown(r, v, p)  BY <1>2, <3>2
      <4>2. QED  BY <2>6, <3>1, <3>2, <4>1 DEF Shown
    <3>3. p < v.start + (k + 1) => Shown(r, v, p)'
      <4>1. SUFFICES ASSUME p < v.start + (k + 1)  PROVE Shown(r, v, p)'  OBVIOUS
      <4>2. CASE p = page  BY <2>8, <4>2
      <4>3. CASE p # page  BY <1>5, <3>2, <4>1, <4>3
      <4>4. QED  BY <4>2, <4>3
    <3>4. ASSUME ~(p < v.start + (k + 1))  PROVE multiple' \/ mapped'[p] = NoFrame
      <4>1. p # page /\ ~(p < v.start + k)  BY <1>5, <3>4
      <4>2. multiple \/ mapped[p] = NoFrame  BY <1>2, <4>1
      <4>3. QED  BY <2>2, <2>6, <3>1, <4>1, <4>2
    <3>5. QED  BY <3>3, <3>4
  <2>10. MapOk'  BY <1>4, <1>5, <2>3, <2>5, <2>7, <2>9 DEF MapOk
  <2>11. InsertOk' /\ UnmapOk'  BY <2>5 DEF InsertOk, UnmapOk
  <2>12. MappingsApart'  BY <1>0, <1>1, <2>3, <2>5 DEF AcpiCore, MappingsApart
  <2>13. LeftOk'
    <3>1. ASSUME ~multiple', NEW q \in 0 .. Pages - 1, mapped'[q] # NoFrame
          PROVE  \E s \in DOMAIN used' : q \in PagesOf(used'[s])
      <4>1. CASE q = page  BY <1>4, <1>5, <2>3, <4>1
      <4>2. CASE q # page
        <5>1. ~multiple /\ mapped[q] # NoFrame  BY <2>2, <2>6, <3>1, <4>2
        <5>2. QED  BY <1>4, <2>3, <5>1 DEF AcpiCore, LeftOk
      <4>3. QED  BY <4>1, <4>2
    <3>2. QED  BY <3>1 DEF LeftOk
  <2>14. ASSUME NEW m \in mappings'
         PROVE  m.vma \in owned'[Bsp] /\ \A p \in PagesOf(m.vma) : mapped'[p] = mapped[p]
    <3>1. m \in mappings /\ m.vma \in owned[Bsp]  BY <2>3, MappingArea
    <3>2. ASSUME NEW p \in PagesOf(m.vma)  PROVE mapped'[p] = mapped[p]
      <4>1. p \in 0 .. Pages - 1  BY <1>4, <3>1, OwnedArea
      <4>2. p # page  BY <1>4, <1>5, <3>1
      <4>3. QED  BY <2>6, <4>1, <4>2
    <3>3. QED  BY <2>3, <3>1, <3>2
  <2>15. NoFrame \notin pool' /\ mappings' \subseteq mappings
    BY <1>9, <2>3 DEF AcpiCore
  <2>16. Arena' /\ task'[Bsp].pc = "idle"  BY <1>4, <2>3, ArenaSame
  <2>17. AcpiCore'
    BY <2>2, <2>6, <2>10, <2>11, <2>12, <2>13, <2>14, <2>15, <2>16, JobKeeps
  <2>18. QED  BY <2>2, <2>3, <2>17
<1>10. halted # "already mapped"  BY <1>1, SMT
<1>11. QED  BY <1>0, <1>7, <1>8, <1>9, <1>10 DEF MapPage


LEMMA MapEndStep ==
  ASSUME AcpiCore, MapEnd
  PROVE  AcpiCore' /\ halted' = halted /\ (multiple => multiple')
<1>0. PICK v, r : v = job.vma /\ r = job.region  BY SMT
<1>1. PICK m : m = [region |-> r, vma |-> v,
                    virt |-> v.start * PageSize + (r.phys % PageSize)]
  OBVIOUS
<1>2. /\ m.region = r /\ m.vma = v
      /\ m.virt = m.vma.start * PageSize + (m.region.phys % PageSize)
  BY <1>1, SMT
<1>3. /\ job.pc = "map" /\ job.done = Size(v) /\ job' = Idle
      /\ mappings' = mappings \cup {m} /\ UNCHANGED vars
  BY <1>0, <1>1 DEF MapEnd
<1>4. multiple' \in BOOLEAN /\ (multiple <=> multiple')  BY SMT DEF MapEnd, AcpiCore
<1>5. /\ used' = used /\ owned' = owned /\ task' = task /\ mapped' = mapped /\ pool' = pool
      /\ halted' = halted /\ UNCHANGED <<free, used, task, owned>>
  BY <1>3 DEF vars
<1>6. /\ Held(r, v) /\ v \in owned[Bsp]
      /\ \A p \in PagesOf(v) : p < v.start + Size(v) => Shown(r, v, p)
  BY <1>0, <1>3 DEF AcpiCore, MapOk, Held
<1>7. v \in Area /\ \A n \in mappings : n.vma # v
  BY <1>0, <1>3, <1>6, JobArea DEF AcpiCore, MappingsApart
<1>8. \A p \in PagesOf(v) : p < v.start + Size(v)  BY <1>7, SMT DEF PagesOf, Size, Area
<1>9. MappingOk(m)'
  <2>1. MappingOk(m)  BY <1>2, <1>6, <1>8 DEF MappingOk
  <2>2. QED  BY <1>2, <1>4, <1>5, <1>6, <2>1, MappingKept
<1>10. ASSUME NEW n \in mappings'  PROVE MappingOk(n)'
  <2>1. CASE n = m  BY <1>9, <2>1
  <2>2. CASE n # m
    <3>1. n \in mappings  BY <1>3, <2>2
    <3>2. MappingOk(n) /\ n.vma \in owned'[Bsp]  BY <1>5, <3>1, MappingArea DEF AcpiCore
    <3>3. QED  BY <1>4, <1>5, <3>2, MappingKept
  <2>3. QED  BY <2>1, <2>2
<1>11. job'.pc = "idle"  BY <1>3, SMT DEF Idle
<1>12. MappingsApart'
  <2>1. ASSUME NEW n \in mappings', NEW o \in mappings', n.vma = o.vma  PROVE n = o
    <3>1. \A x \in mappings' : x = m \/ x \in mappings  BY <1>3
    <3>2. QED  BY <1>2, <1>7, <2>1, <3>1 DEF AcpiCore, MappingsApart
  <2>2. QED  BY <1>11, <2>1 DEF MappingsApart
<1>13. InsertOk' /\ MapOk' /\ UnmapOk'  BY <1>11 DEF InsertOk, MapOk, UnmapOk
<1>14. Arena' /\ BspOk'  BY <1>5, ArenaSame DEF AcpiCore, BspOk
<1>15. \A q : Unmapping(Bsp, q) => Unmapping(Bsp, q)'  BY <1>5 DEF Unmapping
<1>16. LeftOk'  BY <1>4, <1>5, <1>15, LeftKept DEF AcpiCore
<1>17. AcpiCore'
  BY <1>4, <1>5, <1>10, <1>12, <1>13, <1>14, <1>16 DEF AcpiCore
<1>18. QED  BY <1>4, <1>5, <1>17

\* The page of the address that the crate gives back is the first of the area.
LEMMA UnmapBeginStep ==
  ASSUME AcpiCore, NEW m \in mappings, UnmapBegin(m)
  PROVE  AcpiCore' /\ halted' = halted /\ (multiple => multiple')
<1>0. PICK v, r : v = m.vma /\ r = m.region  BY SMT
<1>1. /\ task[Bsp] = Idle /\ r # Lapic /\ mappings' = mappings \ {m} /\ UNCHANGED vars
      /\ job' = [pc |-> "unmap", region |-> r, vma |-> v,
                 start |-> m.virt \div PageSize, done |-> 0]
  BY <1>0 DEF UnmapBegin
<1>2. multiple' \in BOOLEAN /\ (multiple <=> multiple')  BY SMT DEF UnmapBegin, AcpiCore
<1>3. /\ used' = used /\ owned' = owned /\ task' = task /\ mapped' = mapped /\ pool' = pool
      /\ halted' = halted /\ UNCHANGED <<free, used, task, owned>>
  BY <1>1 DEF vars
<1>4. /\ Held(r, v) /\ v \in owned[Bsp] /\ r \in Regions \cup {Lapic} /\ Arena
      /\ m.virt = v.start * PageSize + (r.phys % PageSize)
      /\ \A p \in PagesOf(v) : mapped[p] # NoFrame
  BY <1>0 DEF AcpiCore, MappingOk, Held, AreaFor, Shown
<1>5. v \in Area  BY <1>4, OwnedArea
<1>6. m.virt \div PageSize = v.start
  <2>1. r.phys \in Nat  BY <1>4, RegionSizes
  <2>2. r.phys % PageSize \in Nat /\ r.phys % PageSize < PageSize  BY <2>1, Euclid
  <2>3. v.start \in Nat /\ PageSize \in Nat  BY <1>5, PagesAssumption, SMT DEF Area
  <2>4. v.start * PageSize = PageSize * v.start /\ PageSize * v.start \in Nat  BY <2>3, SMT
  <2>5. /\ m.virt \in Nat /\ PageSize * v.start <= m.virt
        /\ m.virt < PageSize * v.start + PageSize
    BY <1>4, <2>2, <2>3, <2>4, SMT
  <2>6. QED  BY <2>3, <2>5, Quotient
<1>7. /\ job'.pc = "unmap" /\ job'.region = r /\ job'.vma = v
      /\ job'.start = v.start /\ job'.done = 0
      /\ job' = [pc |-> "unmap", region |-> job'.region, vma |-> job'.vma,
                 start |-> job'.start, done |-> job'.done]
      /\ task'[Bsp] = Idle /\ task'[Bsp].pc = "idle"
  BY <1>1, <1>3, <1>6, SMT DEF Idle
<1>8. UnmapOk'
  <2>1. Held(r, v)'  BY <1>2, <1>3, <1>4, HeldKept
  <2>2. UnmappedPages(r.size) \in Nat  BY <1>4, RegionSizes
  <2>3. 0 \in 0 .. UnmappedPages(r.size)  BY <2>2, SMT
  <2>4. \A p \in PagesOf(v) : ~(p < v.start + 0)  BY <1>5, SMT DEF PagesOf, Area
  <2>5. \A p \in PagesOf(v) : mapped'[p] = NoFrame <=> p < v.start + 0
    BY <1>3, <1>4, <2>4
  <2>6. QED  BY <1>1, <1>7, <2>1, <2>3, <2>5 DEF UnmapOk
<1>9. InsertOk' /\ MapOk'  BY <1>7 DEF InsertOk, MapOk
<1>10. MappingsApart'
  <2>1. \A n \in mappings' : n \in mappings /\ n # m  BY <1>1
  <2>2. \A n \in mappings' : n.vma # v  BY <1>0, <2>1 DEF AcpiCore, MappingsApart
  <2>3. QED  BY <1>7, <2>1, <2>2 DEF AcpiCore, MappingsApart
<1>11. \A q : Unmapping(Bsp, q) => Unmapping(Bsp, q)'  BY <1>3 DEF Unmapping
<1>12. LeftOk'  BY <1>2, <1>3, <1>11, LeftKept DEF AcpiCore
<1>13. Arena' /\ mappings' \subseteq mappings  BY <1>1, <1>3, <1>4, ArenaSame
<1>14. \A n \in mappings' : /\ n.vma \in owned'[Bsp]
                            /\ \A p \in PagesOf(n.vma) : mapped'[p] = mapped[p]
  BY <1>3, <1>13, MappingArea
<1>15. mapped' = [p \in 0 .. Pages - 1 |-> mapped'[p]] /\ NoFrame \notin pool'
  BY <1>3 DEF AcpiCore
<1>16. AcpiCore'
  BY <1>2, <1>7, <1>8, <1>9, <1>10, <1>12, <1>13, <1>14, <1>15, JobKeeps
<1>17. QED  BY <1>2, <1>3, <1>16

\* Every page that is unmapped is one of the area, and is mapped.
LEMMA UnmapPageStep ==
  ASSUME AcpiCore, UnmapPage
  PROVE  AcpiCore' /\ halted' = halted /\ (multiple => multiple')
<1>0. PICK v, r, k : v = job.vma /\ r = job.region /\ k = job.done  BY SMT
<1> DEFINE page == v.start + k
<1>1. job.pc = "unmap" /\ k < UnmappedPages(r.size)  BY <1>0 DEF UnmapPage
<1>2. /\ Held(r, v) /\ r # Lapic /\ k \in 0 .. UnmappedPages(r.size) /\ job.start = v.start
      /\ job = [pc |-> "unmap", region |-> r, vma |-> v, start |-> v.start, done |-> k]
      /\ \A p \in PagesOf(v) : mapped[p] = NoFrame <=> p < v.start + k
  <2>1. job.start = v.start  BY <1>0, <1>1 DEF AcpiCore, UnmapOk
  <2>2. QED  BY <1>0, <1>1, <2>1 DEF AcpiCore, UnmapOk
<1>3. /\ v \in owned[Bsp] /\ r \in Regions \cup {Lapic}
      /\ Size(v) = aligned_size(RoundUp(r.size))
  BY <1>2 DEF Held, AreaFor
<1>4. UnmappedPages(r.size) \in Nat /\ UnmappedPages(r.size) <= Size(v)
  BY <1>3, RegionSizes
<1>5. /\ Arena /\ v \in Area /\ v.start < v.end
      /\ v.start \in DOMAIN used /\ used[v.start] = v
      /\ \A p \in PagesOf(v) : p \in 0 .. Pages - 1
      /\ \A m \in mappings : \A p \in PagesOf(m.vma) : p \notin PagesOf(v)
      /\ task[Bsp] = Idle /\ task[Bsp].pc = "idle" /\ \A q : ~Unmapping(Bsp, q)
  BY <1>0, <1>1, <1>3, JobArea
<1>6. /\ page \in PagesOf(v) /\ ~(page < v.start + k)
      /\ k + 1 \in 0 .. UnmappedPages(r.size)
      /\ \A p \in PagesOf(v) : p < v.start + (k + 1) <=> p = page \/ p < v.start + k
  BY <1>1, <1>2, <1>4, <1>5, SMT DEF PagesOf, Size, Area
<1>7. mapped[page] # NoFrame  BY <1>2, <1>6
<1>8. /\ mapped' = [mapped EXCEPT ![page] = NoFrame]
      /\ job' = [job EXCEPT !.done = @ + 1]
      /\ UNCHANGED <<free, used, pool, task, owned, halted, mappings, multiple>>
  BY <1>0, <1>2, <1>7 DEF UnmapPage
<1>9. multiple' \in BOOLEAN /\ (multiple <=> multiple')  BY <1>8, SMT DEF AcpiCore
<1>10. /\ used' = used /\ owned' = owned /\ task' = task /\ mappings' = mappings
       /\ halted' = halted /\ pool' = pool /\ UNCHANGED <<free, used, task, owned>>
  BY <1>8
<1>11. /\ job'.pc = "unmap" /\ job'.region = r /\ job'.vma = v
       /\ job'.start = v.start /\ job'.done = k + 1
       /\ job' = [pc |-> "unmap", region |-> job'.region, vma |-> job'.vma,
                  start |-> job'.start, done |-> job'.done]
  BY <1>2, <1>8, SMT
<1> HIDE DEF page
<1>12. /\ mapped' = [p \in 0 .. Pages - 1 |-> mapped'[p]] /\ mapped'[page] = NoFrame
       /\ \A p \in 0 .. Pages - 1 : p # page => mapped'[p] = mapped[p]
  BY <1>5, <1>6, <1>8 DEF AcpiCore
<1>13. UnmapOk'
  <2>1. Held(r, v)'  BY <1>2, <1>3, <1>9, <1>10, HeldKept
  <2>2. ASSUME NEW p \in PagesOf(v)
        PROVE  mapped'[p] = NoFrame <=> p < v.start + (k + 1)
    <3>1. p \in 0 .. Pages - 1  BY <1>5
    <3>2. CASE p = page  BY <1>6, <1>12, <3>2
    <3>3. CASE p # page  BY <1>2, <1>6, <1>12, <3>1, <3>3
    <3>4. QED  BY <3>2, <3>3
  <2>3. QED  BY <1>2, <1>5, <1>6, <1>10, <1>11, <2>1, <2>2 DEF UnmapOk
<1>14. InsertOk' /\ MapOk'  BY <1>11 DEF InsertOk, MapOk
<1>15. MappingsApart'  BY <1>0, <1>1, <1>10, <1>11 DEF AcpiCore, MappingsApart
<1>16. LeftOk'
  <2>1. ASSUME ~multiple', NEW q \in 0 .. Pages - 1, mapped'[q] # NoFrame
        PROVE  \E s \in DOMAIN used' : q \in PagesOf(used'[s])
    <3>1. ~multiple /\ mapped[q] # NoFrame  BY <1>9, <1>12, <2>1
    <3>2. QED  BY <1>5, <1>10, <3>1 DEF AcpiCore, LeftOk
  <2>2. QED  BY <2>1 DEF LeftOk
<1>17. ASSUME NEW m \in mappings'
       PROVE  m.vma \in owned'[Bsp] /\ \A p \in PagesOf(m.vma) : mapped'[p] = mapped[p]
  <2>1. m \in mappings /\ m.vma \in owned[Bsp]  BY <1>10, MappingArea
  <2>2. ASSUME NEW p \in PagesOf(m.vma)  PROVE mapped'[p] = mapped[p]
    <3>1. p \in 0 .. Pages - 1  BY <1>5, <2>1, OwnedArea
    <3>2. p # page  BY <1>5, <1>6, <2>1
    <3>3. QED  BY <1>12, <3>1, <3>2
  <2>3. QED  BY <1>10, <2>1, <2>2
<1>18. NoFrame \notin pool' /\ mappings' \subseteq mappings  BY <1>10 DEF AcpiCore
<1>19. Arena' /\ task'[Bsp].pc = "idle"  BY <1>5, <1>10, ArenaSame
<1>20. AcpiCore'
  BY <1>9, <1>12, <1>13, <1>14, <1>15, <1>16, <1>17, <1>18, <1>19, JobKeeps
<1>21. QED  BY <1>9, <1>10, <1>20


\* When no region was a multiple of the page size, every page of the area has
\* been unmapped by then.
LEMMA UnmapRemoveStep ==
  ASSUME AcpiCore, UnmapRemove
  PROVE  AcpiCore' /\ halted' = halted /\ (multiple => multiple')
<1>0. PICK v, r : v = job.vma /\ r = job.region  BY SMT
<1>1. /\ job.pc = "unmap" /\ job.done = UnmappedPages(r.size) /\ DeallocateRemove(Bsp, v)
      /\ job' = [pc |-> "free"] /\ mappings' = mappings
  BY <1>0 DEF UnmapRemove
<1>2. multiple' \in BOOLEAN /\ (multiple <=> multiple')  BY SMT DEF UnmapRemove, AcpiCore
<1>3. /\ Held(r, v) /\ r # Lapic
      /\ \A p \in PagesOf(v) : mapped[p] = NoFrame <=> p < v.start + UnmappedPages(r.size)
  BY <1>0, <1>1 DEF AcpiCore, UnmapOk
<1>4. /\ v \in owned[Bsp] /\ ~v.map /\ r \in Regions \cup {Lapic} /\ Whole(r)
      /\ Size(v) = aligned_size(RoundUp(r.size))
  BY <1>3 DEF Held, AreaFor
<1>5. /\ Arena' /\ v \in Area /\ v.start < v.end /\ used[v.start] = v
      /\ DOMAIN used' = DOMAIN used \ {v.start}
      /\ \A s \in DOMAIN used : s # v.start => used'[s] = used[s]
      /\ task'[Bsp].pc = "free" /\ owned'[Bsp] = owned[Bsp] \ {v}
      /\ UNCHANGED <<mapped, pool, halted>>
  <2>1. Arena /\ Bsp \in Cpus  BY BspAssumption DEF AcpiCore
  <2>2. QED  BY <1>1, <1>4, <2>1, DeallocateRemoveArena
<1>6. /\ \A q : ~Unmapping(Bsp, q)
      /\ \A m \in mappings : m.vma # v
  BY <1>0, <1>1, <1>4, JobArea DEF AcpiCore, MappingsApart
<1>7. ~multiple => \A p \in PagesOf(v) : mapped[p] = NoFrame
  <2>1. SUFFICES ASSUME ~multiple, NEW p \in PagesOf(v)  PROVE mapped[p] = NoFrame
    OBVIOUS
  <2>2. UnmappedPages(r.size) = Size(v)  BY <1>3, <1>4, <2>1 DEF Whole
  <2>3. p < v.start + Size(v)  BY <1>5, SMT DEF PagesOf, Size, Area
  <2>4. QED  BY <1>3, <2>2, <2>3
<1>8. LeftOk'
  <2>1. ASSUME ~multiple', NEW q \in 0 .. Pages - 1, mapped'[q] # NoFrame
        PROVE  \E s \in DOMAIN used' : q \in PagesOf(used'[s])
    <3>1. ~multiple /\ mapped[q] # NoFrame  BY <1>2, <1>5, <2>1
    <3>2. PICK s \in DOMAIN used : q \in PagesOf(used[s])
      BY <1>6, <3>1 DEF AcpiCore, LeftOk
    <3>3. s # v.start  BY <1>5, <1>7, <3>1, <3>2
    <3>4. QED  BY <1>5, <3>2, <3>3
  <2>2. QED  BY <2>1 DEF LeftOk
<1>9. job'.pc = "free"  BY <1>1, SMT
<1>10. InsertOk' /\ MapOk' /\ UnmapOk'  BY <1>9 DEF InsertOk, MapOk, UnmapOk
<1>11. MappingsApart'  BY <1>1, <1>9 DEF AcpiCore, MappingsApart
<1>12. \A m \in mappings' : /\ m.vma \in owned'[Bsp]
                            /\ \A p \in PagesOf(m.vma) : mapped'[p] = mapped[p]
  BY <1>1, <1>5, <1>6, MappingArea
<1>13. /\ mapped' = [p \in 0 .. Pages - 1 |-> mapped'[p]] /\ NoFrame \notin pool'
       /\ mappings' \subseteq mappings
  BY <1>1, <1>5 DEF AcpiCore
<1>14. AcpiCore'
  BY <1>2, <1>5, <1>8, <1>10, <1>11, <1>12, <1>13, JobKeeps
<1>15. QED  BY <1>2, <1>5, <1>14

LEMMA UnmapInsertStep ==
  ASSUME AcpiCore, UnmapInsert
  PROVE  AcpiCore' /\ halted' = halted /\ (multiple => multiple')
<1>1. DeallocateInsert(Bsp) /\ job' = Idle /\ mappings' = mappings
  BY DEF UnmapInsert
<1>2. multiple' \in BOOLEAN /\ (multiple <=> multiple')  BY SMT DEF UnmapInsert, AcpiCore
<1>3. UNCHANGED <<used, mapped, pool, owned, halted>> /\ task[Bsp].pc = "free"
  BY <1>1 DEF DeallocateInsert
<1>4. Arena' /\ task'[Bsp] = Idle
  BY <1>1, DeallocateInsertArena, BspAssumption DEF AcpiCore
<1>5. task'[Bsp].pc = "idle" /\ job'.pc = "idle"  BY <1>1, <1>4, SMT DEF Idle
<1>6. \A q : ~Unmapping(Bsp, q)  BY <1>3 DEF Unmapping
<1>7. LeftOk'  BY <1>2, <1>3, <1>6, LeftKept DEF AcpiCore
<1>8. InsertOk' /\ MapOk' /\ UnmapOk'  BY <1>5 DEF InsertOk, MapOk, UnmapOk
<1>9. MappingsApart'  BY <1>1, <1>5 DEF AcpiCore, MappingsApart
<1>10. \A m \in mappings' : /\ m.vma \in owned'[Bsp]
                            /\ \A p \in PagesOf(m.vma) : mapped'[p] = mapped[p]
  BY <1>1, <1>3, MappingArea
<1>11. /\ mapped' = [p \in 0 .. Pages - 1 |-> mapped'[p]] /\ NoFrame \notin pool'
       /\ mappings' \subseteq mappings
  BY <1>1, <1>3 DEF AcpiCore
<1>12. AcpiCore'
  BY <1>2, <1>4, <1>5, <1>7, <1>8, <1>9, <1>10, <1>11, JobKeeps
<1>13. QED  BY <1>2, <1>3, <1>12

-----------------------------------------------------------------------------
LEMMA AcpiInvInit == AcpiInit => AcpiInv
<1> SUFFICES ASSUME AcpiInit  PROVE AcpiInv  BY SMT
<1>1. Init /\ job = Idle /\ mappings = {} /\ multiple = FALSE  BY DEF AcpiInit
<1>2. Arena  BY <1>1, InvInit DEF IInv, Core
<1>3. /\ mapped = [p \in 0 .. Pages - 1 |-> NoFrame] /\ pool = Frames
      /\ task[Bsp] = Idle /\ halted = "no"
  BY <1>1, BspAssumption DEF Init
<1>4. \A p \in 0 .. Pages - 1 : mapped[p] = NoFrame  BY <1>3
<1>5. mapped = [p \in 0 .. Pages - 1 |-> mapped[p]]  BY <1>3, SMT
<1>6. NoFrame \notin pool  BY <1>3, FramesAssumption
<1>7. multiple \in BOOLEAN /\ task[Bsp].pc = "idle" /\ job.pc = "idle"
  <2>1. Idle.pc = "idle"  BY SMT DEF Idle
  <2>2. multiple \in BOOLEAN  BY <1>1
  <2>3. QED  BY <1>1, <1>3, <2>1, <2>2
<1>8. BspOk /\ LeftOk  BY <1>4, <1>7 DEF BspOk, LeftOk
<1>9. InsertOk /\ MapOk /\ UnmapOk  BY <1>7 DEF InsertOk, MapOk, UnmapOk
<1>10. MappingsApart /\ \A m \in mappings : MappingOk(m)
  BY <1>1, <1>7 DEF MappingsApart
<1>11. AcpiCore  BY <1>2, <1>5, <1>6, <1>7, <1>8, <1>9, <1>10 DEF AcpiCore
<1>12. UnwrapsHold  BY <1>3, SMT DEF UnwrapsHold
<1>13. QED  BY <1>11, <1>12 DEF AcpiInv

LEMMA AcpiInvNext ==
  ASSUME Least, AcpiInv, [AcpiNext]_<<vars, acpi>>
  PROVE  AcpiInv'
<1>1. AcpiCore /\ UnwrapsHold  BY DEF AcpiInv
<1>2. ASSUME AcpiCore', halted' \in {halted, "no area", "no frame"}, multiple => multiple'
      PROVE  AcpiInv'
  <2>1. UnwrapsHold'  BY <1>1, <1>2 DEF UnwrapsHold
  <2>2. QED  BY <1>2, <2>1 DEF AcpiInv
<1>3. ASSUME NEW r \in Regions \cup {Lapic}, NEW bytes, TakeArea(r, bytes),
             bytes = RoundUp(r.size) \/ (r = Lapic /\ bytes = PageSize)
      PROVE  AcpiInv'
  <2>1. AcpiCore' /\ halted' \in {halted, "no area"} /\ (multiple => multiple')
    BY <1>1, <1>3, TakeAreaStep
  <2>2. QED  BY <1>2, <2>1
<1>4. CASE RemapLapic
  <2>1. TakeArea(Lapic, PageSize) /\ Lapic \in Regions \cup {Lapic}
    BY <1>4 DEF RemapLapic
  <2>2. QED  BY <1>3, <2>1
<1>5. ASSUME NEW r \in Regions, MapAllocate(r)  PROVE AcpiInv'
  <2>1. TakeArea(r, RoundUp(r.size)) /\ r \in Regions \cup {Lapic}
    BY <1>5 DEF MapAllocate
  <2>2. QED  BY <1>3, <2>1
<1>6. CASE MapPage
  <2>1. /\ AcpiCore' /\ halted' \in {halted, "already mapped", "no frame"}
        /\ multiple => multiple'
        /\ halted' = "already mapped" => multiple'
    BY <1>1, <1>6, MapPageStep
  <2>2. UnwrapsHold'  BY <1>1, <2>1 DEF UnwrapsHold
  <2>3. QED  BY <2>1, <2>2 DEF AcpiInv
<1>7. ASSUME MapInsert \/ MapEnd \/ (\E m \in mappings : UnmapBegin(m))
             \/ UnmapPage \/ UnmapRemove \/ UnmapInsert
      PROVE  AcpiInv'
  <2>1. AcpiCore' /\ halted' = halted /\ (multiple => multiple')
    BY <1>1, <1>7, MapInsertStep, MapEndStep, UnmapBeginStep, UnmapPageStep,
       UnmapRemoveStep, UnmapInsertStep
  <2>2. QED  BY <1>2, <2>1
<1>8. CASE Other  BY <1>8, AcpiOther
<1>9. CASE UNCHANGED vars /\ UNCHANGED acpi
  <2>1. /\ UNCHANGED <<free, used, mapped, pool, task, owned, job, mappings, multiple>>
        /\ halted' = halted
    BY <1>9 DEF vars, acpi
  <2>2. AcpiCore'  BY <1>1, <2>1, AcpiSame
  <2>3. multiple => multiple'  BY <1>1, <1>9, SameMultiple
  <2>4. QED  BY <1>2, <2>1, <2>2, <2>3
<1>10. CASE UNCHANGED <<vars, acpi>>
  <2>1. UNCHANGED vars /\ UNCHANGED acpi  BY <1>10
  <2>2. QED  BY <1>9, <2>1
<1>11. QED
  BY <1>4, <1>5, <1>6, <1>7, <1>8, <1>9, <1>10 DEF AcpiNext, Halted

\* Where the i-th byte of a region that is mapped is seen.
LEMMA ByteSeen ==
  ASSUME AcpiCore, NEW m \in mappings, Covered(m.region), NEW i \in 0 .. m.region.size - 1
  PROVE  mapped[(m.virt + i) \div PageSize] = (m.region.phys + i) \div PageSize
<1>0. PICK v, r, off : v = m.vma /\ r = m.region /\ off = r.phys % PageSize  OBVIOUS
<1> DEFINE k == (off + i) \div PageSize
<1>1. /\ Held(r, v) /\ v \in owned[Bsp] /\ r \in Regions \cup {Lapic} /\ Arena
      /\ Size(v) = aligned_size(RoundUp(r.size)) \/ (r = Lapic /\ Size(v) = aligned_size(PageSize))
      /\ m.virt = v.start * PageSize + off
      /\ \A p \in PagesOf(v) :
           FrameFor(r, p - v.start) # 0 => mapped[p] = FrameFor(r, p - v.start)
  BY <1>0 DEF AcpiCore, MappingOk, Held, AreaFor, Shown
<1>2. r.phys >= PageSize /\ off + r.size <= RoundUp(r.size)  BY <1>0 DEF Covered
<1>3. /\ r.phys \in Nat /\ r.size \in Nat /\ aligned_size(RoundUp(r.size)) \in Nat
      /\ RoundUp(r.size) = PageSize * aligned_size(RoundUp(r.size))
  BY <1>1, RegionSizes
<1>4. PageSize \in Nat /\ PageSize > 0 /\ aligned_size(PageSize) = 1  BY OnePage
<1>5. v \in Area  BY <1>1, OwnedArea
<1>6. v.start \in Nat /\ v.end \in Nat /\ Size(v) = v.end - v.start
  BY <1>5, PagesAssumption, SMT DEF Area, Size
<1>7. /\ off \in Nat /\ off < PageSize /\ r.phys \div PageSize \in Nat
      /\ r.phys = PageSize * (r.phys \div PageSize) + off
  BY <1>0, <1>3, Euclid
<1>8. i \in Nat /\ i < r.size  BY <1>0, <1>3, SMT
<1>9. off + i \in Nat  BY <1>7, <1>8, SMT
<1>10. k \in Nat /\ PageSize * k <= off + i
  <2>1. /\ k \in Nat /\ (off + i) % PageSize \in Nat
        /\ off + i = PageSize * k + ((off + i) % PageSize)
    BY <1>9, Euclid
  <2> HIDE DEF k
  <2>2. PageSize * k \in Nat  BY <1>4, <2>1, SMT
  <2>3. QED  BY <2>1, <2>2, <1>9, SMT
<1> HIDE DEF k
<1>11. off + i < PageSize * Size(v)
  <2>1. CASE Size(v) = aligned_size(RoundUp(r.size))
    <3>1. off + r.size <= PageSize * Size(v)  BY <1>2, <1>3, <2>1
    <3>2. PageSize * Size(v) \in Int  BY <1>4, <1>6, SMT
    <3>3. QED  BY <1>3, <1>7, <1>8, <3>1, <3>2, SMT
  <2>2. CASE r = Lapic /\ Size(v) = aligned_size(PageSize)
    <3>1. off + r.size <= PageSize  BY <1>0, <2>2, LapicAssumption
    <3>2. PageSize * Size(v) = PageSize  BY <1>4, <2>2, SMT
    <3>3. QED  BY <1>3, <1>4, <1>7, <1>8, <3>1, <3>2, SMT
  <2>3. QED  BY <1>1, <2>1, <2>2
<1>12. k < Size(v)
  <2>1. SUFFICES ASSUME Size(v) <= k  PROVE FALSE  BY <1>6, <1>10, SMT
  <2>2. Size(v) \in Int  BY <1>6, SMT
  <2>3. PageSize * Size(v) <= PageSize * k  BY <1>4, <1>10, <2>1, <2>2, SMT
  <2>4. PageSize * Size(v) \in Int /\ PageSize * k \in Int  BY <1>4, <1>10, <2>2, SMT
  <2>5. QED  BY <1>9, <1>10, <1>11, <2>3, <2>4, SMT
<1>13. v.start + k \in PagesOf(v) /\ (v.start + k) - v.start = k
  BY <1>6, <1>10, <1>12, SMT DEF PagesOf
<1>14. (m.virt + i) \div PageSize = v.start + k
  <2>1. (v.start * PageSize + off + i) \div PageSize = v.start + ((off + i) \div PageSize)
    BY <1>6, <1>7, <1>8, ByteAt
  <2>2. m.virt + i = v.start * PageSize + off + i  BY <1>1
  <2>3. QED  BY <2>1, <2>2 DEF k
<1>15. (r.phys + i) \div PageSize = FrameFor(r, k)
  <2> DEFINE q == r.phys \div PageSize
  <2>1. q \in Nat /\ r.phys = PageSize * q + off  BY <1>7
  <2>2. FrameFor(r, k) = q + k  BY DEF FrameFor
  <2> HIDE DEF q
  <2>3. PageSize * q = q * PageSize  BY <1>4, <2>1, SMT
  <2>4. r.phys + i = q * PageSize + off + i  BY <2>1, <2>3
  <2>5. (q * PageSize + off + i) \div PageSize = q + ((off + i) \div PageSize)
    BY <1>7, <1>8, <2>1, ByteAt
  <2>6. QED  BY <2>2, <2>4, <2>5 DEF k
<1>16. FrameFor(r, k) # 0
  <2> DEFINE q == r.phys \div PageSize
  <2>1. q \in Nat /\ r.phys = PageSize * q + off  BY <1>7
  <2>2. FrameFor(r, k) = q + k  BY DEF FrameFor
  <2> HIDE DEF q
  <2>3. q # 0
    <3>1. SUFFICES ASSUME q = 0  PROVE FALSE  BY SMT
    <3>2. PageSize * q = 0  BY <1>4, <3>1, SMT
    <3>3. QED  BY <1>2, <1>4, <1>7, <2>1, <3>2, SMT
  <2>4. QED  BY <1>10, <2>1, <2>2, <2>3, SMT
<1>17. mapped[v.start + k] = FrameFor(r, k)  BY <1>1, <1>13, <1>16
<1>18. QED  BY <1>0, <1>14, <1>15, <1>17


-----------------------------------------------------------------------------
(* Vmm implements VmaSpace.                                                *)

RangeOf(vma) == [start |-> vma.start, end |-> vma.end]
Live == {RangeOf(vma) : vma \in UNION {owned[c] : c \in Cpus}}

LEMMA InLive ==
  /\ \A x : x \in Live <=> \E c \in Cpus : \E v \in owned[c] : x = RangeOf(v)
  /\ \A x : x \in Live' <=> \E c \in Cpus : \E v \in owned'[c] : x = RangeOf(v)
BY DEF Live

LEMMA SameRange ==
  ASSUME IInv, NEW c \in Cpus, NEW v \in owned[c], NEW d \in Cpus, NEW u \in owned[d],
         RangeOf(u) = RangeOf(v)
  PROVE  u = v
<1>1. u.start = v.start  BY SMT DEF RangeOf
<1>2. QED  BY <1>1 DEF IInv, Core, Arena, OwnedOk

LEMMA AcquireStep ==
  ASSUME IInv, NEW c \in Cpus, AllocateInsert(c)
  PROVE  Space!Next
<1> DEFINE v == task[c].vma
<1>1. /\ Core /\ task[c].pc = "insert"
      /\ owned' = [owned EXCEPT ![c] = @ \cup {v}]
  BY DEF AllocateInsert, IInv
<1>2. owned'[c] = owned[c] \cup {v} /\ \A d \in Cpus \ {c} : owned'[d] = owned[d]
  BY <1>1 DEF Core, Arena, ListTypes, Types
<1>3. PICK size \in Sizes : Size(v) = aligned_size(size)
  BY <1>1 DEF Core, Arena, TaskOk
<1>4. v \in Area /\ v.start < v.end  BY <1>1, FlightArea DEF Core
<1>5. Live' = Live \cup {RangeOf(v)}
  <2>1. ASSUME NEW x \in Live'  PROVE x \in Live \cup {RangeOf(v)}
    <3>1. PICK d \in Cpus : \E u \in owned'[d] : x = RangeOf(u)  BY InLive
    <3>2. PICK u \in owned'[d] : x = RangeOf(u)  BY <3>1
    <3>3. u \in owned[d] \/ u = v  BY <1>2, <3>2
    <3>4. QED  BY <3>2, <3>3, InLive
  <2>2. ASSUME NEW x \in Live  PROVE x \in Live'
    <3>1. PICK d \in Cpus : \E u \in owned[d] : x = RangeOf(u)  BY InLive
    <3>2. PICK u \in owned[d] : x = RangeOf(u)  BY <3>1
    <3>3. u \in owned'[d]  BY <1>2, <3>2
    <3>4. QED  BY <3>2, <3>3, InLive
  <2>3. RangeOf(v) \in Live'  BY <1>2, InLive
  <2>4. QED  BY <2>1, <2>2, <2>3
<1>6. ASSUME NEW r \in Live  PROVE v.end <= r.start \/ r.end <= v.start
  <2>1. PICK d \in Cpus : \E u \in owned[d] : r = RangeOf(u)  BY InLive
  <2>2. PICK u \in owned[d] : r = RangeOf(u)  BY <2>1
  <2>3. u.start \in DOMAIN used /\ used[u.start] = u
    BY <1>1, <2>2 DEF Core, Arena, OwnedOk
  <2>4. u \in Area /\ u.start < u.end  BY <1>1, <2>3, UsedArea DEF Core
  <2>5. \A p \in PagesOf(u) : p \notin PagesOf(v)  BY <1>1, <2>3, UsedOnce DEF Core
  <2>6. r.start = u.start /\ r.end = u.end  BY <2>2, SMT DEF RangeOf
  <2> HIDE DEF v
  <2>7. /\ u.start \in Int /\ u.end \in Int /\ v.start \in Int /\ v.end \in Int
    BY <1>4, <2>4, PagesAssumption, SMT DEF Area
  <2>8. v.end <= u.start \/ u.end <= v.start
    <3>1. CASE u.start >= v.start
      BY <2>4, <2>5, <2>7, <3>1, SMT DEF PagesOf
    <3>2. CASE v.start >= u.start
      BY <1>4, <2>5, <2>7, <3>2, SMT DEF PagesOf
    <3>3. QED  BY <2>7, <3>1, <3>2, SMT
  <2>9. QED  BY <2>6, <2>8
<1>7. /\ (v.end - v.start) * PageSize >= size
      /\ (v.end - v.start - 1) * PageSize < size
  BY <1>3, AlignedSize, SizesOk DEF Size
<1> HIDE DEF v
<1>8. v.start \in 0 .. Pages /\ v.end \in 0 .. Pages  BY <1>4, SMT DEF Area
<1>9. PICK start \in 0 .. Pages : start = v.start  BY <1>8
<1>10. PICK end \in 0 .. Pages : end = v.end  BY <1>8
<1>11. Space!Acquire(start, end)
  <2>1. \A r \in Live : Space!Disjoint(Space!RangeOf(start, end), r)
    <3>1. /\ Space!RangeOf(start, end).start = v.start
          /\ Space!RangeOf(start, end).end = v.end
      BY <1>9, <1>10, SMT DEF Space!RangeOf
    <3>2. QED  BY <1>6, <3>1 DEF Space!Disjoint
  <2>2. Live' = Live \cup {Space!RangeOf(start, end)}
    BY <1>5, <1>9, <1>10 DEF Space!RangeOf, RangeOf
  <2>3. QED  BY <1>7, <1>9, <1>10, <2>1, <2>2 DEF Space!Acquire, Live, RangeOf
<1>12. start < end  BY <1>4, <1>9, <1>10
<1>13. QED  BY <1>11, <1>12 DEF Space!Next

LEMMA ReleaseStep ==
  ASSUME IInv, NEW c \in Cpus, NEW v \in owned[c], DeallocateRemove(c, v)
  PROVE  Space!Next
<1>1. Core /\ v.start \in DOMAIN used  BY DEF IInv, Core, Arena, OwnedOk
<1>2. owned' = [owned EXCEPT ![c] = @ \ {v}]  BY <1>1 DEF DeallocateRemove
<1>3. owned'[c] = owned[c] \ {v} /\ \A d \in Cpus \ {c} : owned'[d] = owned[d]
  BY <1>1, <1>2 DEF Core, Arena, ListTypes, Types
<1>4. \A d \in Cpus : v \notin owned'[d] /\ owned'[d] \subseteq owned[d]
  BY <1>1, <1>3 DEF Core, Arena, OwnedOk
<1>5. Live' = Live \ {RangeOf(v)}
  <2>1. ASSUME NEW x \in Live'  PROVE x \in Live \ {RangeOf(v)}
    <3>1. PICK d \in Cpus : \E u \in owned'[d] : x = RangeOf(u)  BY InLive
    <3>2. PICK u \in owned'[d] : x = RangeOf(u)  BY <3>1
    <3>3. u \in owned[d] /\ u # v  BY <1>4, <3>2
    <3>4. RangeOf(u) # RangeOf(v)  BY <3>3, SameRange
    <3>5. QED  BY <3>2, <3>3, <3>4, InLive
  <2>2. ASSUME NEW x \in Live, x # RangeOf(v)  PROVE x \in Live'
    <3>1. PICK d \in Cpus : \E u \in owned[d] : x = RangeOf(u)  BY InLive
    <3>2. PICK u \in owned[d] : x = RangeOf(u)  BY <3>1
    <3>3. u # v  BY <2>2, <3>2
    <3>4. u \in owned'[d]  BY <1>3, <3>2, <3>3
    <3>5. QED  BY <3>2, <3>4, InLive
  <2>3. QED  BY <2>1, <2>2
<1>6. RangeOf(v) \in Live  BY InLive
<1>7. \E r \in Live : Live' = Live \ {r}  BY <1>5, <1>6
<1>8. QED  BY <1>7 DEF Space!Next, Space!Release, Live, RangeOf

LEMMA Elsewhere ==
  ASSUME NEW c \in Cpus, Call(c) \/ Step(c)
  PROVE  \/ owned' = owned
         \/ AllocateInsert(c)
         \/ \E vma \in owned[c] : DeallocateRemove(c, vma)
<1>1. CASE Call(c)
  <2>1. CASE \E size \in Sizes, map, atomic \in BOOLEAN : AllocateFind(c, size, map, atomic)
    BY <2>1 DEF AllocateFind, vars
  <2>2. CASE \E p \in 0 .. Pages - 1 : Touch(c, p)  BY <2>2 DEF Touch
  <2>3. QED  BY <1>1, <2>1, <2>2 DEF Call
<1>2. CASE Step(c)
  <2>1. CASE DeallocateUnmap(c)  BY <2>1 DEF DeallocateUnmap
  <2>2. CASE DeallocateFrame(c)  BY <2>2 DEF DeallocateFrame
  <2>3. CASE DeallocateInsert(c)  BY <2>3 DEF DeallocateInsert
  <2>4. CASE FaultLookup(c)  BY <2>4 DEF FaultLookup, Panic
  <2>5. CASE FaultFrame(c)  BY <2>5 DEF FaultFrame, Panic
  <2>6. CASE FaultMap(c)  BY <2>6 DEF FaultMap, Panic
  <2>7. QED  BY <1>2, <2>1, <2>2, <2>3, <2>4, <2>5, <2>6 DEF Step
<1>3. QED  BY <1>1, <1>2
-----------------------------------------------------------------------------
(* The theorems.                                                           *)

INSTANCE WellFoundedInduction

LEMMA LeastHolds == Least
<1> SUFFICES ASSUME NEW S \in SUBSET Nat, S # {}
             PROVE  \E x \in S : \A y \in S : x <= y
  BY DEF Least
<1> DEFINE R == {p \in Nat \X Nat : p[1] < p[2]}
<1>1. OpToRel(<, Nat) = R  BY DEF OpToRel
<1>2. ASSUME NEW x \in Nat, NEW y \in Nat, x < y  PROVE <<x, y>> \in R
  <2>1. <<x, y>> \in Nat \X Nat  BY SMT
  <2>2. <<x, y>>[1] = x /\ <<x, y>>[2] = y  BY SMT
  <2>3. QED  BY <1>2, <2>1, <2>2
<1> HIDE DEF R
<1>3. IsWellFoundedOn(R, Nat)  BY <1>1, NatLessThanWellFounded
<1>4. PICK x \in S : \A y \in S : <<y, x>> \notin R  BY <1>3, WFMin
<1>5. ASSUME NEW y \in S  PROVE x <= y
  <2>1. ~(y < x)  BY <1>2, <1>4
  <2>2. QED  BY <2>1, SMT
<1>6. QED  BY <1>5

\* The invariant, for any number of CPUs, pages and frames and any sizes the
\* callers may ask for.
THEOREM Inductive == Spec => []IInv
<1>1. IInv /\ [Next]_vars => IInv'  BY LeastHolds, InvNext
<1>2. QED  BY InvInit, <1>1, PTL DEF Spec

\* Whatever the CPUs are in the middle of, each page of the arena belongs to
\* exactly one area: free, in use, or between FREE_VMA and USED_VMA.
THEOREM TilingHolds == Spec => []Tiling
<1>1. IInv => Tiling  BY DEF IInv, Core, Arena, Layout, Tiles, Tiling
<1>2. QED  BY <1>1, Inductive, PTL

\* Only pages of areas in use, or being given back by deallocate, are mapped.
THEOREM FreshHolds == Spec => []FreshIsUnmapped
<1>1. IInv => FreshIsUnmapped
  BY DEF IInv, Core, Arena, MappedOk, Unmapping, FreshIsUnmapped
<1>2. QED  BY <1>1, Inductive, PTL

\* For any number of CPUs, neither deallocate nor handle_demand_paging panics
\* over an area or a page of code that keeps to what it allocated.
THEOREM PanicsHold == Spec => []OwnersDontPanic
<1>1. IInv => OwnersDontPanic  BY DEF IInv, PanicsLeft, OwnersDontPanic
<1>2. QED  BY <1>1, Inductive, PTL

\* A frame is free, behind one page, or in the hands of one CPU.
THEOREM FrameHolds == Spec => []FrameAccounted
<1>1. ASSUME IInv, NEW f \in Frames
      PROVE  LET places == {<<"page", p>> : p \in {q \in DOMAIN mapped : mapped[q] = f}}
                   \cup {<<"cpu", c>> : c \in {d \in Cpus :
                           task[d].pc \in {"drop", "map"} /\ task[d].frame = f}} IN
             IF f \in pool THEN places = {} ELSE \E x \in places : places = {x}
  <2> DEFINE P == {<<"page", p>> : p \in {q \in DOMAIN mapped : mapped[q] = f}}
             C == {<<"cpu", c>> : c \in {d \in Cpus :
                     task[d].pc \in {"drop", "map"} /\ task[d].frame = f}}
  <2>1. FramesOk /\ DOMAIN mapped = 0 .. Pages - 1 /\ f # NoFrame
    BY <1>1, FramesAssumption DEF IInv, Core, Arena, ListTypes, Types
  <2>2. \A x : x \in P <=> \E p \in 0 .. Pages - 1 : mapped[p] = f /\ x = <<"page", p>>
    BY <2>1
  <2>3. \A x : x \in C <=> \E c \in Cpus : Holds(c, f) /\ x = <<"cpu", c>>
    BY DEF Holds
  <2> HIDE DEF P, C
  <2>4. CASE f \in pool
    <3>0. \A p \in 0 .. Pages - 1 : mapped[p] # f
      <4>1. \A p \in 0 .. Pages - 1 : mapped[p] \notin pool  BY <2>1 DEF FramesOk
      <4>2. QED  BY <2>4, <4>1
    <3>1. P = {}  BY <2>2, <3>0
    <3>2. C = {}  BY <2>1, <2>3, <2>4 DEF FramesOk
    <3>3. P \cup C = {}  BY <3>1, <3>2
    <3>4. QED  BY <2>4, <3>3 DEF P, C
  <2>5. ASSUME f \notin pool, NEW p \in 0 .. Pages - 1, mapped[p] = f
        PROVE  \E x \in P \cup C : P \cup C = {x}
    <3>1. P = {<<"page", p>>}
      <4>1. \A q \in 0 .. Pages - 1 : mapped[q] = f => q = p
        BY <2>1, <2>5 DEF FramesOk
      <4>2. QED  BY <2>2, <2>5, <4>1
    <3>0. \A c \in Cpus : ~Holds(c, f)
      <4>1. \A c \in Cpus : Holds(c, f) => \A q \in 0 .. Pages - 1 : mapped[q] # f
        BY <2>1 DEF FramesOk
      <4>2. QED  BY <2>5, <4>1
    <3>2. C = {}  BY <2>3, <3>0
    <3>3. QED  BY <3>1, <3>2
  <2>6. ASSUME f \notin pool, NEW c \in Cpus, Holds(c, f)
        PROVE  \E x \in P \cup C : P \cup C = {x}
    <3>1. C = {<<"cpu", c>>}
      <4>1. \A d \in Cpus : Holds(d, f) => d = c  BY <2>1, <2>6 DEF FramesOk
      <4>2. QED  BY <2>3, <2>6, <4>1
    <3>2. P = {}  BY <2>1, <2>2, <2>6 DEF FramesOk
    <3>3. QED  BY <3>1, <3>2
  <2>7. CASE f \notin pool
    <3>1. \E x \in P \cup C : P \cup C = {x}
      BY <2>1, <2>5, <2>6, <2>7 DEF FramesOk
    <3>2. QED  BY <2>7, <3>1 DEF P, C
  <2>8. QED  BY <2>4, <2>7
<1>2. IInv => FrameAccounted  BY <1>1 DEF FrameAccounted
<1>3. QED  BY <1>2, Inductive, PTL

\* The callers of allocate and deallocate get what VmaSpace promises: a range
\* of as many pages as the bytes need, disjoint from every range in use, at the
\* point where allocate enters it in USED_VMA.
THEOREM SpaceRefined == Spec => SpaceSpec
<1>1. Init => Space!Init
  <2>1. SUFFICES ASSUME Init  PROVE Space!Init  BY SMT
  <2>2. \A c \in Cpus : owned[c] = {}  BY <2>1 DEF Init
  <2>3. \A x : x \notin Live  BY <2>2, InLive
  <2>4. Live = {}  BY <2>3
  <2>5. QED  BY <2>4 DEF Space!Init, Live, RangeOf
<1>2. IInv /\ [Next]_vars => [Space!Next]_Live
  <2> SUFFICES ASSUME IInv, [Next]_vars  PROVE [Space!Next]_Live  BY SMT
  <2>1. CASE owned' = owned  BY <2>1 DEF Live
  <2>2. ASSUME NEW c \in Cpus, Call(c) \/ Step(c)  PROVE [Space!Next]_Live
    BY <2>1, <2>2, Elsewhere, AcquireStep, ReleaseStep
  <2>3. CASE UNCHANGED vars  BY <2>1, <2>3 DEF vars
  <2>4. QED  BY <2>2, <2>3 DEF Next, Halted
<1>3. IInv /\ [Next]_vars =>
        [Space!Next]_({[start |-> vma.start, end |-> vma.end] :
                         vma \in UNION {owned[c] : c \in Cpus}})
  BY <1>2 DEF Live, RangeOf
<1>4. QED  BY <1>1, <1>3, Inductive, PTL DEF Spec, SpaceSpec, Space!Spec

\* The invariant of the mappings of acpi.rs, for any arena, any regions of the
\* firmware and any order in which the crate maps and drops them.
THEOREM AcpiInductive == AcpiSpec => []AcpiInv
<1>1. AcpiInv /\ [AcpiNext]_<<vars, acpi>> => AcpiInv'  BY LeastHolds, AcpiInvNext
<1>2. QED  BY AcpiInvInit, <1>1, PTL DEF AcpiSpec

\* Through the mapping that map_physical_region or remap_lapic returns, the
\* region, if it ends in the pages mapped for it and does not touch physical page
\* 0 (Covered), is seen byte by byte until unmap_physical_region drops it.
THEOREM RegionSeenHolds == AcpiSpec => []RegionSeen
<1>1. AcpiInv => RegionSeen  BY ByteSeen DEF AcpiInv, RegionSeen
<1>2. QED  BY <1>1, AcpiInductive, PTL

\* As long as no region was a multiple of the page size, every mapped page is in
\* an area in use: unmap_physical_region leaves none behind.
THEOREM NothingLeftHolds == AcpiSpec => []NothingLeft
<1>1. AcpiInv => NothingLeft
  <2> SUFFICES ASSUME AcpiInv, ~multiple, NEW p \in DOMAIN mapped, mapped[p] # NoFrame
               PROVE  \/ \E s \in DOMAIN used : p \in PagesOf(used[s])
                      \/ task[Bsp].pc \in {"unmap", "drop"} /\ p \in PagesOf(task[Bsp].vma)
    BY DEF NothingLeft
  <2>1. mapped = [q \in 0 .. Pages - 1 |-> mapped[q]] /\ LeftOk
    BY DEF AcpiInv, AcpiCore
  <2>2. p \in 0 .. Pages - 1
    <3>1. DOMAIN mapped = 0 .. Pages - 1  BY <2>1, SMT
    <3>2. QED  BY <3>1
  <2>3. QED  BY <2>1, <2>2 DEF LeftOk, Unmapping
<1>2. QED  BY <1>1, AcpiInductive, PTL

\* unmap_physical_region finds every page mapped, and map_physical_region meets
\* a mapped page only after a region that was a multiple of the page size.
THEOREM UnwrapsHeld == AcpiSpec => []UnwrapsHold
<1>1. AcpiInv => UnwrapsHold  BY DEF AcpiInv
<1>2. QED  BY <1>1, AcpiInductive, PTL
=============================================================================
