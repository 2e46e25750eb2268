---------------------------- MODULE LocksProofs ----------------------------
(***************************************************************************)
(* No CPUs wait for each other (NoWaitCycle), and a panic that has begun   *)
(* to write has stopped the others (HaltCovers), for any number of CPUs.   *)
(*                                                                         *)
(* What a CPU has to do is a list of steps without a bound: calls nest and *)
(* loop.  The invariant says of the list, not of the function it is from,  *)
(* that it may be done: there are points, one between each two steps, that *)
(* say which locks are held there, begin with what the CPU holds now, end  *)
(* with nothing held, and allow each step (Valid).  A lock may be taken    *)
(* when the CPU has neither it nor a shared lock of the same or a higher   *)
(* rank; a call may be made where every body of the function may be done.  *)
(* So each body is looked at once, at any point that allows the call, and  *)
(* the loops need no induction.                                            *)
(*                                                                         *)
(* The locks of tables have no rank.  A CPU has only its own ones, so when *)
(* no two CPUs use one root, a CPU that is waited for has a shared lock,   *)
(* and the ranks of the locks they wait for rise along any chain.          *)
(***************************************************************************)
EXTENDS Locks, SequenceTheorems, TLAPS

\* The locks all CPUs take, in the order in which they nest.
Shared ==
  {FREE_VMA, USED_VMA, HEAP, FRAME_ALLOCATOR, SERIAL, GDT, IDT} \cup {TSS(c) : c \in Cpus}

Rank(l) ==
  CASE l[1] = "FREE_VMA" -> 1
    [] l[1] = "USED_VMA" -> 2
    [] l[1] = "HEAP" -> 3
    [] l[1] = "FRAME_ALLOCATOR" -> 4
    [] l[1] = "TSS" -> 6
    [] OTHER -> 5

\* What a CPU holds, and the root in its ACTIVE_TABLE, before a step: beside
\* shared locks, at most those of its own ACTIVE_TABLE and of its own root.
Point(c) ==
  {x \in [held : SUBSET Lock, root : Cpus] :
     x.held \subseteq Shared \cup {ACTIVE_TABLE(c), TableRoot(x.root)}}

At(held, r) == [held |-> held, root |-> r]

\* The shared locks held come before rank n.
Below(x, n) == \A l \in x.held \cap Shared : Rank(l) < n

\* The functions that are called from others, and where they may be called:
\* below which locks, and whether no table may be locked.
Callee  == {"alloc", "grow", "shrink", "walk", "heap_fault", "touch", "unmap_current"}
Limit(f) == CASE f \in {"walk", "heap_fault"} -> 4
              [] f \in {"alloc", "grow", "shrink"} -> 3
              [] OTHER -> 1
MayCall(f, x) ==
  Below(x, Limit(f)) /\ (f \notin {"shrink", "walk"} => x.held \subseteq Shared)

Locking   == [do : {"lock"}, on : Lock]
Unlocking == [do : {"unlock"}, on : Lock]
Calling   == [do : {"call"}, f : Callee]
Using     == [do : {"use"}, root : Cpus]
Marking   == [do : {"ready"}]
CodeStep  == Locking \cup Unlocking \cup Calling \cup Using \cup Marking

\* A step of the code may be done at x, and leads to y.
Allowed(s, x, y) ==
  \/ /\ s \in Locking /\ s.on \notin x.held
     /\ s.on \in Shared => Below(x, Rank(s.on))
     /\ y = At(x.held \cup {s.on}, x.root)
  \/ s \in Unlocking /\ s.on \in x.held /\ y = At(x.held \ {s.on}, x.root)
  \/ s \in Calling /\ MayCall(s.f, x) /\ y = x
  \/ s \in Using /\ TableRoot(x.root) \notin x.held /\ y = At(x.held, s.root)
  \/ s \in Marking /\ y = x

\* A list of steps may be done by c at x, and leads to y.
Valid(c, steps, x, y) ==
  /\ steps \in Seq(CodeStep)
  /\ \E h \in [1 .. Len(steps) + 1 -> Point(c)] :
       /\ h[1] = x /\ h[Len(steps) + 1] = y
       /\ \A i \in 1 .. Len(steps) : Allowed(steps[i], h[i], h[i + 1])

-----------------------------------------------------------------------------
(* The names of the locks.                                                 *)

LEMMA Ranks ==
  /\ Rank(FREE_VMA) = 1 /\ Rank(USED_VMA) = 2 /\ Rank(HEAP) = 3
  /\ Rank(FRAME_ALLOCATOR) = 4 /\ Rank(SERIAL) = 5
  /\ Rank(GDT) = 5 /\ Rank(IDT) = 5 /\ \A c : Rank(TSS(c)) = 6
BY DEF Rank, FREE_VMA, USED_VMA, HEAP, FRAME_ALLOCATOR, SERIAL, GDT, IDT, TSS

LEMMA SharedRank ==
  ASSUME NEW l \in Shared
  PROVE  l \in Lock /\ Rank(l) \in 1 .. 6
BY Ranks DEF Shared, Lock

LEMMA TableNames ==
  /\ \A c \in Cpus : ACTIVE_TABLE(c) \in Lock /\ TableRoot(c) \in Lock
  /\ \A c \in Cpus : ACTIVE_TABLE(c) \notin Shared /\ TableRoot(c) \notin Shared
  /\ \A c, d \in Cpus : ACTIVE_TABLE(c) # TableRoot(d)
  /\ \A c, d \in Cpus : ACTIVE_TABLE(c) = ACTIVE_TABLE(d) => c = d
  /\ \A c, d \in Cpus : TableRoot(c) = TableRoot(d) => c = d
<1>1. \A c \in Cpus : ACTIVE_TABLE(c) \in Lock /\ TableRoot(c) \in Lock
  BY Zenon DEF Lock
<1>2. \A c \in Cpus : ACTIVE_TABLE(c)[1] = "ACTIVE_TABLE" /\ ACTIVE_TABLE(c)[2] = c
  BY DEF ACTIVE_TABLE
<1>3. \A c \in Cpus : TableRoot(c)[1] = "TableRoot" /\ TableRoot(c)[2] = c
  BY DEF TableRoot
<1>4. \A l \in Shared : l[1] # "ACTIVE_TABLE" /\ l[1] # "TableRoot"
  BY DEF Shared, FREE_VMA, USED_VMA, HEAP, FRAME_ALLOCATOR, SERIAL, GDT, IDT, TSS
<1>5. QED  BY <1>1, <1>2, <1>3, <1>4

-----------------------------------------------------------------------------
(* Lists of steps.                                                         *)

\* Nothing to do.
LEMMA ValidNil ==
  ASSUME NEW c \in Cpus, NEW x \in Point(c)
  PROVE  Valid(c, <<>>, x, x)
<1>1. <<>> \in Seq(CodeStep) /\ Len(<<>>) = 0  BY EmptySeq, Zenon
<1> DEFINE h == [i \in 1 .. 1 |-> x]
<1>2. h \in [1 .. Len(<<>>) + 1 -> Point(c)] /\ h[1] = x /\ h[Len(<<>>) + 1] = x
  BY <1>1
<1>3. \A i \in 1 .. Len(<<>>) : Allowed(<<>>[i], h[i], h[i + 1])  BY <1>1
<1>4. QED  BY <1>1, <1>2, <1>3, Zenon DEF Valid

\* A single step.
LEMMA ValidOne ==
  ASSUME NEW c \in Cpus, NEW s \in CodeStep, NEW x \in Point(c), NEW y \in Point(c),
         Allowed(s, x, y)
  PROVE  Valid(c, <<s>>, x, y)
<1>1. <<s>> \in Seq(CodeStep) /\ Len(<<s>>) = 1 /\ <<s>>[1] = s  OBVIOUS
<1> DEFINE h == [i \in 1 .. 2 |-> IF i = 1 THEN x ELSE y]
<1>2. h \in [1 .. Len(<<s>>) + 1 -> Point(c)] /\ h[1] = x /\ h[Len(<<s>>) + 1] = y
  BY <1>1
<1>3. \A i \in 1 .. Len(<<s>>) : i = 1 /\ h[i] = x /\ h[i + 1] = y  BY <1>1
<1> HIDE DEF h
<1>4. \A i \in 1 .. Len(<<s>>) : Allowed(<<s>>[i], h[i], h[i + 1])  BY <1>1, <1>3, Zenon
<1>5. QED  BY <1>1, <1>2, <1>4, Zenon DEF Valid

\* One list after another.
LEMMA ValidConcat ==
  ASSUME NEW c \in Cpus, NEW s, NEW t, NEW x, NEW y, NEW z,
         Valid(c, s, x, y), Valid(c, t, y, z)
  PROVE  Valid(c, s \o t, x, z)
<1>1. s \in Seq(CodeStep) /\ t \in Seq(CodeStep)  BY Zenon DEF Valid
<1>2. PICK g \in [1 .. Len(s) + 1 -> Point(c)] :
        /\ g[1] = x /\ g[Len(s) + 1] = y
        /\ \A i \in 1 .. Len(s) : Allowed(s[i], g[i], g[i + 1])
  BY Zenon DEF Valid
<1>3. PICK h \in [1 .. Len(t) + 1 -> Point(c)] :
        /\ h[1] = y /\ h[Len(t) + 1] = z
        /\ \A i \in 1 .. Len(t) : Allowed(t[i], h[i], h[i + 1])
  BY Zenon DEF Valid
<1> DEFINE u == s \o t
           k == [i \in 1 .. Len(u) + 1 |-> IF i <= Len(s) THEN g[i] ELSE h[i - Len(s)]]
<1>4. Len(s) \in Nat /\ Len(t) \in Nat  BY <1>1, LenProperties, Zenon
<1>5. /\ u \in Seq(CodeStep) /\ Len(u) = Len(s) + Len(t)
      /\ \A i \in 1 .. Len(s) + Len(t) :
           u[i] = IF i <= Len(s) THEN s[i] ELSE t[i - Len(s)]
  BY <1>1, ConcatProperties, Zenon
<1> HIDE DEF u
<1>6. k \in [1 .. Len(u) + 1 -> Point(c)]
  <2>1. ASSUME NEW i \in 1 .. Len(u) + 1  PROVE k[i] \in Point(c)
    <3>1. CASE i <= Len(s)  BY <1>4, <3>1
    <3>2. CASE i > Len(s)
      <4>1. i - Len(s) \in 1 .. Len(t) + 1  BY <1>4, <1>5, <3>2
      <4>2. h[i - Len(s)] \in Point(c)  BY <4>1, Zenon
      <4>3. QED  BY <1>4, <3>2, <4>2
    <3>3. QED  BY <1>4, <3>1, <3>2
  <2>2. QED  BY <2>1
<1>7. k[1] = x /\ k[Len(u) + 1] = z
  <2>1. k[1] = x
    <3>1. CASE Len(s) = 0  BY <1>2, <1>3, <1>4, <1>5, <3>1
    <3>2. CASE Len(s) # 0  BY <1>2, <1>4, <1>5, <3>2
    <3>3. QED  BY <3>1, <3>2
  <2>2. k[Len(u) + 1] = z  BY <1>3, <1>4, <1>5
  <2>3. QED  BY <2>1, <2>2
<1>8. ASSUME NEW i \in 1 .. Len(u)  PROVE Allowed(u[i], k[i], k[i + 1])
  <2>1. CASE i <= Len(s)
    <3>1. i \in 1 .. Len(s) /\ u[i] = s[i] /\ k[i] = g[i]  BY <1>4, <1>5, <2>1
    <3>2. k[i + 1] = g[i + 1]
      <4>1. CASE i = Len(s)  BY <1>2, <1>3, <1>4, <1>5, <4>1
      <4>2. CASE i < Len(s)  BY <1>4, <1>5, <4>2
      <4>3. QED  BY <1>4, <2>1, <4>1, <4>2
    <3> HIDE DEF k
    <3>3. QED  BY <1>2, <3>1, <3>2, Zenon
  <2>2. CASE i > Len(s)
    <3>1. /\ i - Len(s) \in 1 .. Len(t) /\ u[i] = t[i - Len(s)]
          /\ k[i] = h[i - Len(s)] /\ k[i + 1] = h[(i - Len(s)) + 1]
      BY <1>4, <1>5, <2>2
    <3> HIDE DEF k
    <3>2. QED  BY <1>3, <3>1, Zenon
  <2>3. QED  BY <1>4, <1>5, <2>1, <2>2
<1> HIDE DEF k
<1>9. Valid(c, u, x, z)  BY <1>5, <1>6, <1>7, <1>8, Zenon DEF Valid
<1>10. QED  BY <1>9, Zenon DEF u

\* The first step of a list, and the rest.
LEMMA ValidHead ==
  ASSUME NEW c \in Cpus, NEW s, NEW x, NEW y, Valid(c, s, x, y), s # <<>>
  PROVE  /\ Head(s) \in CodeStep
         /\ \E z \in Point(c) : Allowed(Head(s), x, z) /\ Valid(c, Tail(s), z, y)
<1>1. s \in Seq(CodeStep)  BY Zenon DEF Valid
<1>2. PICK h \in [1 .. Len(s) + 1 -> Point(c)] :
        /\ h[1] = x /\ h[Len(s) + 1] = y
        /\ \A i \in 1 .. Len(s) : Allowed(s[i], h[i], h[i + 1])
  BY Zenon DEF Valid
<1>3. Len(s) \in Nat \ {0}  BY <1>1, EmptySeq, Zenon
<1>4. /\ Head(s) \in CodeStep /\ Tail(s) \in Seq(CodeStep) /\ Len(Tail(s)) = Len(s) - 1
      /\ \A i \in 1 .. Len(Tail(s)) : Tail(s)[i] = s[i + 1]
  BY <1>1, HeadTailProperties, Zenon
<1>5. Head(s) = s[1]  BY <1>1, <1>3
<1> DEFINE k == [i \in 1 .. Len(Tail(s)) + 1 |-> h[i + 1]]
<1>6. k \in [1 .. Len(Tail(s)) + 1 -> Point(c)]  BY <1>3, <1>4
<1>7. k[1] = h[2] /\ k[Len(Tail(s)) + 1] = y  BY <1>2, <1>3, <1>4
<1>8. ASSUME NEW i \in 1 .. Len(Tail(s))  PROVE Allowed(Tail(s)[i], k[i], k[i + 1])
  <2>1. /\ i + 1 \in 1 .. Len(s) /\ k[i] = h[i + 1] /\ k[i + 1] = h[(i + 1) + 1]
        /\ Tail(s)[i] = s[i + 1]
    BY <1>3, <1>4
  <2> HIDE DEF k
  <2>2. QED  BY <1>2, <2>1, Zenon
<1> HIDE DEF k
<1>9. Valid(c, Tail(s), h[2], y)  BY <1>4, <1>6, <1>7, <1>8, Zenon DEF Valid
<1>10. Allowed(s[1], x, h[2])
  <2>1. 1 \in 1 .. Len(s) /\ 1 + 1 = 2  BY <1>3
  <2>2. QED  BY <1>2, <2>1
<1>11. h[2] \in Point(c)
  <2>1. 2 \in 1 .. Len(s) + 1  BY <1>3
  <2>2. QED  BY <2>1, Zenon
<1>12. QED  BY <1>4, <1>5, <1>9, <1>10, <1>11, Zenon

\* A list leads from a point to a point, and an empty one nowhere.
LEMMA ValidEnds ==
  ASSUME NEW c \in Cpus, NEW s, NEW x, NEW y, Valid(c, s, x, y)
  PROVE  x \in Point(c) /\ y \in Point(c) /\ (s = <<>> => x = y)
<1>1. s \in Seq(CodeStep)  BY Zenon DEF Valid
<1>2. PICK h \in [1 .. Len(s) + 1 -> Point(c)] : h[1] = x /\ h[Len(s) + 1] = y
  BY Zenon DEF Valid
<1>3. Len(s) \in Nat  BY <1>1, LenProperties, Zenon
<1>4. 1 \in 1 .. Len(s) + 1 /\ Len(s) + 1 \in 1 .. Len(s) + 1  BY <1>3
<1>5. h[1] \in Point(c) /\ h[Len(s) + 1] \in Point(c)  BY <1>4, Zenon
<1>6. s = <<>> => Len(s) + 1 = 1  BY <1>3
<1>7. QED  BY <1>2, <1>5, <1>6, Zenon
-----------------------------------------------------------------------------
(* The pieces the functions are made of.                                   *)

\* With one more lock.
Taking(x, l) == At(x.held \cup {l}, x.root)

\* A point is a record.
LEMMA PointIs ==
  ASSUME NEW c \in Cpus, NEW x \in Point(c)
  PROVE  /\ x.held \subseteq Lock /\ x.root \in Cpus
         /\ x.held \subseteq Shared \cup {ACTIVE_TABLE(c), TableRoot(x.root)}
         /\ x = At(x.held, x.root)
BY DEF Point, At

LEMMA IsPoint ==
  ASSUME NEW c \in Cpus, NEW H, NEW r \in Cpus, H \subseteq Lock,
         H \subseteq Shared \cup {ACTIVE_TABLE(c), TableRoot(r)}
  PROVE  At(H, r) \in Point(c) /\ At(H, r).held = H /\ At(H, r).root = r
BY DEF Point, At

\* A lock around a list.
LEMMA ValidUnder ==
  ASSUME NEW c \in Cpus, NEW l \in Lock, NEW body, NEW x \in Point(c), NEW z,
         l \notin x.held, l \in Shared => Below(x, Rank(l)),
         Taking(x, l) \in Point(c), Valid(c, body, Taking(x, l), z), l \in z.held
  PROVE  Valid(c, Under(l, body), x, At(z.held \ {l}, z.root))
<1> DEFINE s == [do |-> "lock", on |-> l]
           t == [do |-> "unlock", on |-> l]
           y == At(z.held \ {l}, z.root)
<1>1. z \in Point(c)  BY ValidEnds, Zenon
<1>2. y \in Point(c)
  <2>1. z.held \ {l} \subseteq Lock /\ z.root \in Cpus
    BY <1>1, PointIs, Zenon
  <2>2. z.held \ {l} \subseteq Shared \cup {ACTIVE_TABLE(c), TableRoot(z.root)}
    BY <1>1, PointIs, Zenon
  <2>3. QED  BY <2>1, <2>2, IsPoint, Zenon
<1>3. s \in Locking /\ s.on = l /\ t \in Unlocking /\ t.on = l
  BY DEF Locking, Unlocking
<1> HIDE DEF s, t, y
<1>4. Allowed(s, x, Taking(x, l))  BY <1>3, Zenon DEF Allowed, Taking
<1>5. Allowed(t, z, y)  BY <1>3, Zenon DEF Allowed, y
<1>6. Valid(c, <<s>>, x, Taking(x, l))  BY <1>3, <1>4, ValidOne, Zenon DEF CodeStep
<1>7. Valid(c, <<t>>, z, y)  BY <1>1, <1>2, <1>3, <1>5, ValidOne, Zenon DEF CodeStep
<1>8. Valid(c, <<s>> \o body, x, z)  BY <1>6, ValidConcat, Zenon
<1>9. Valid(c, (<<s>> \o body) \o <<t>>, x, y)  BY <1>7, <1>8, ValidConcat, Zenon
<1>10. QED  BY <1>9, Zenon DEF Under, s, t, y

\* A shared lock around a list that comes back to where it begins.
LEMMA SharedTaking ==
  ASSUME NEW c \in Cpus, NEW l \in Shared, NEW x \in Point(c), Below(x, Rank(l))
  PROVE  /\ Taking(x, l) \in Point(c) /\ l \notin x.held
         /\ Taking(x, l).held = x.held \cup {l} /\ Taking(x, l).root = x.root
         /\ \A n \in Nat : Rank(l) < n => Below(Taking(x, l), n)
<1>1. l \in Lock /\ Rank(l) \in 1 .. 6  BY SharedRank, Zenon
<1>2. /\ Taking(x, l) \in Point(c)
      /\ Taking(x, l).held = x.held \cup {l} /\ Taking(x, l).root = x.root
  <2>1. /\ x.held \cup {l} \subseteq Lock /\ x.root \in Cpus
        /\ x.held \cup {l} \subseteq Shared \cup {ACTIVE_TABLE(c), TableRoot(x.root)}
    BY <1>1, PointIs, Zenon
  <2>2. QED  BY <2>1, IsPoint DEF Taking
<1>3. l \notin x.held
  <2>1. l \in x.held => Rank(l) < Rank(l)  BY Zenon DEF Below
  <2>2. QED  BY <1>1, <2>1
<1>4. ASSUME NEW n \in Nat, Rank(l) < n, NEW m \in Taking(x, l).held \cap Shared
      PROVE  Rank(m) < n
  <2>1. CASE m = l  BY <1>4, <2>1
  <2>2. CASE m # l
    <3>1. m \in x.held \cap Shared  BY <1>2, <1>4, <2>2, Zenon
    <3>2. Rank(m) < Rank(l)  BY <3>1, Zenon DEF Below
    <3>3. Rank(m) \in 1 .. 6  BY <1>4, SharedRank, Zenon
    <3>4. QED  BY <1>1, <1>4, <3>2, <3>3
  <2>3. QED  BY <2>1, <2>2
<1>5. QED  BY <1>2, <1>3, <1>4, Zenon DEF Below

LEMMA UnderShared ==
  ASSUME NEW c \in Cpus, NEW l \in Shared, NEW body, NEW x \in Point(c),
         Below(x, Rank(l)), Valid(c, body, Taking(x, l), Taking(x, l))
  PROVE  Valid(c, Under(l, body), x, x)
<1>1. /\ Taking(x, l) \in Point(c) /\ l \notin x.held
      /\ Taking(x, l).held = x.held \cup {l} /\ Taking(x, l).root = x.root
  BY SharedTaking, Zenon
<1>2. l \in Lock  BY SharedRank, Zenon
<1>3. l \in Taking(x, l).held  BY <1>1, Zenon
<1>4. Valid(c, Under(l, body), x, At(Taking(x, l).held \ {l}, Taking(x, l).root))
  BY <1>1, <1>2, <1>3, ValidUnder, Zenon
<1>5. Taking(x, l).held \ {l} = x.held  BY <1>1, Zenon
<1>6. At(Taking(x, l).held \ {l}, Taking(x, l).root) = x  BY <1>1, <1>5, PointIs, Zenon
<1>7. QED  BY <1>4, <1>6, Zenon

\* A shared lock around nothing.
LEMMA UnderNil ==
  ASSUME NEW c \in Cpus, NEW l \in Shared, NEW x \in Point(c), Below(x, Rank(l))
  PROVE  Valid(c, Under(l, <<>>), x, x)
BY SharedTaking, ValidNil, UnderShared, Zenon

\* A call, where it may be made.
LEMMA ValidCall ==
  ASSUME NEW c \in Cpus, NEW f \in Callee, NEW x \in Point(c), MayCall(f, x)
  PROVE  Valid(c, Call(f), x, x)
<1> DEFINE s == [do |-> "call", f |-> f]
<1>1. s \in Calling /\ s.f = f  BY DEF Calling
<1> HIDE DEF s
<1>2. Allowed(s, x, x)  BY <1>1, Zenon DEF Allowed
<1>3. Valid(c, <<s>>, x, x)  BY <1>1, <1>2, ValidOne, Zenon DEF CodeStep
<1>4. QED  BY <1>3, Zenon DEF Call, s

\* What is below a lock is below the next ones.
LEMMA BelowMore ==
  ASSUME NEW c \in Cpus, NEW x \in Point(c), NEW m \in Nat, NEW n \in Nat, m <= n,
         Below(x, m)
  PROVE  Below(x, n)
<1> SUFFICES ASSUME NEW l \in x.held \cap Shared  PROVE Rank(l) < n
  BY Zenon DEF Below
<1>1. Rank(l) \in 1 .. 6  BY SharedRank, Zenon
<1>2. Rank(l) < m  BY Zenon DEF Below
<1>3. QED  BY <1>1, <1>2

\* The tables of the CPU around a list.
Inside(c, x) == At(x.held \cup {ACTIVE_TABLE(c), TableRoot(x.root)}, x.root)

LEMMA InsideIs ==
  ASSUME NEW c \in Cpus, NEW x \in Point(c)
  PROVE  /\ Inside(c, x) \in Point(c) /\ Inside(c, x).root = x.root
         /\ Inside(c, x).held = x.held \cup {ACTIVE_TABLE(c), TableRoot(x.root)}
         /\ \A n : Below(x, n) => Below(Inside(c, x), n)
<1>1. /\ Inside(c, x) \in Point(c) /\ Inside(c, x).root = x.root
      /\ Inside(c, x).held = x.held \cup {ACTIVE_TABLE(c), TableRoot(x.root)}
  <2> DEFINE H == x.held \cup {ACTIVE_TABLE(c), TableRoot(x.root)}
  <2>1. H \subseteq Lock /\ x.root \in Cpus
    <3>1. x.held \subseteq Lock /\ x.root \in Cpus  BY PointIs, Zenon
    <3>2. ACTIVE_TABLE(c) \in Lock /\ TableRoot(x.root) \in Lock
      BY <3>1, TableNames, Zenon
    <3>3. QED  BY <3>1, <3>2, Zenon
  <2>2. H \subseteq Shared \cup {ACTIVE_TABLE(c), TableRoot(x.root)}
    BY PointIs, Zenon
  <2> HIDE DEF H
  <2>3. At(H, x.root) \in Point(c) /\ At(H, x.root).held = H /\ At(H, x.root).root = x.root
    BY <2>1, <2>2, IsPoint
  <2>4. QED  BY <2>3, Zenon DEF Inside, H
<1>2. ASSUME NEW l \in Inside(c, x).held \cap Shared  PROVE l \in x.held \cap Shared
  <2>1. ACTIVE_TABLE(c) \notin Shared /\ TableRoot(x.root) \notin Shared
    BY PointIs, TableNames, Zenon
  <2>2. QED  BY <1>1, <1>2, <2>1, Zenon
<1>3. QED  BY <1>1, <1>2, Zenon DEF Below

LEMMA ValidTable ==
  ASSUME NEW c \in Cpus, NEW body, NEW x \in Point(c), x.root = root[c],
         x.held \subseteq Shared, Valid(c, body, Inside(c, x), Inside(c, x))
  PROVE  Valid(c, WithTable(c, body), x, x)
<1> DEFINE a == ACTIVE_TABLE(c)
           t == TableRoot(x.root)
           y == Taking(x, a)
<1>1. /\ a \in Lock /\ t \in Lock /\ a \notin Shared /\ t \notin Shared /\ a # t
      /\ a \notin x.held /\ t \notin x.held
  BY PointIs, TableNames, Zenon
<1>2. /\ y \in Point(c) /\ y.held = x.held \cup {a} /\ y.root = x.root
  <2>1. x.held \cup {a} \subseteq Lock /\ x.root \in Cpus
    BY <1>1, PointIs, Zenon
  <2>2. x.held \cup {a} \subseteq Shared \cup {ACTIVE_TABLE(c), TableRoot(x.root)}
    BY PointIs, Zenon
  <2>3. QED  BY <2>1, <2>2, IsPoint DEF Taking
<1>3. Inside(c, x) = Taking(y, t)
  <2>1. y.held \cup {t} = x.held \cup {a, t}  BY <1>2, Zenon
  <2>2. QED  BY <1>2, <2>1, Zenon DEF Inside, Taking
<1>4. /\ Inside(c, x) \in Point(c) /\ Inside(c, x).root = x.root
      /\ Inside(c, x).held = x.held \cup {a, t}
  BY InsideIs, Zenon
<1> HIDE DEF a, t, y
<1>5. Valid(c, Under(t, body), y, y)
  <2>1. t \notin y.held /\ t \in Inside(c, x).held  BY <1>1, <1>2, <1>4, Zenon
  <2>2. Valid(c, Under(t, body), y, At(Inside(c, x).held \ {t}, Inside(c, x).root))
    BY <1>1, <1>2, <1>3, <1>4, <2>1, ValidUnder, Zenon
  <2>3. Inside(c, x).held \ {t} = y.held  BY <1>1, <1>2, <1>4, Zenon
  <2>4. At(Inside(c, x).held \ {t}, Inside(c, x).root) = y
    BY <1>2, <1>4, <2>3, PointIs, Zenon
  <2>5. QED  BY <2>2, <2>4, Zenon
<1>6. Valid(c, Under(a, Under(t, body)), x, x)
  <2>1. a \in y.held /\ y.held \ {a} = x.held  BY <1>1, <1>2, Zenon
  <2>2. Valid(c, Under(a, Under(t, body)), x, At(y.held \ {a}, y.root))
    BY <1>1, <1>2, <1>5, <2>1, ValidUnder, Zenon DEF y
  <2>3. At(y.held \ {a}, y.root) = x  BY <1>2, <2>1, PointIs, Zenon
  <2>4. QED  BY <2>2, <2>3, Zenon
<1>7. QED  BY <1>6, Zenon DEF WithTable, a, t
-----------------------------------------------------------------------------
(* The functions.                                                          *)

\* Those that take one lock.
LEMMA LeafValid ==
  ASSUME NEW c \in Cpus, NEW x \in Point(c)
  PROVE  /\ Below(x, 5) => Valid(c, log, x, x)
         /\ Below(x, 4) => Valid(c, frame, x, x)
         /\ Below(x, 3) => Valid(c, dealloc, x, x)
<1>1. SERIAL \in Shared /\ FRAME_ALLOCATOR \in Shared /\ HEAP \in Shared
  BY Zenon DEF Shared
<1>2. QED  BY <1>1, Ranks, UnderNil, Zenon DEF log, frame, dealloc

\* The calls that may be made below a lock.
LEMMA Calls ==
  ASSUME NEW c \in Cpus, NEW x \in Point(c)
  PROVE  /\ Below(x, 4) => Valid(c, Call("walk"), x, x)
         /\ Below(x, 3) => Valid(c, Call("shrink"), x, x)
         /\ Below(x, 4) /\ x.held \subseteq Shared => Valid(c, Call("heap_fault"), x, x)
         /\ Below(x, 3) /\ x.held \subseteq Shared =>
              Valid(c, Call("alloc"), x, x) /\ Valid(c, Call("grow"), x, x)
         /\ Below(x, 1) /\ x.held \subseteq Shared =>
              Valid(c, Call("touch"), x, x) /\ Valid(c, Call("unmap_current"), x, x)
<1>1. /\ Limit("walk") = 4 /\ Limit("heap_fault") = 4 /\ Limit("alloc") = 3
      /\ Limit("grow") = 3 /\ Limit("shrink") = 3
      /\ Limit("touch") = 1 /\ Limit("unmap_current") = 1
  BY DEF Limit
<1>2. {"walk", "heap_fault", "alloc", "grow", "shrink", "touch", "unmap_current"}
        \subseteq Callee
  BY DEF Callee
<1>3. QED  BY <1>1, <1>2, ValidCall, Zenon DEF MayCall

\* Locked::alloc and the faults it can meet.
LEMMA AllocValid ==
  ASSUME NEW c \in Cpus, NEW x \in Point(c), Below(x, 3), x.held \subseteq Shared,
         NEW body \in alloc
  PROVE  Valid(c, body, x, x)
<1>1. PICK inside \in {<<>>, Call("heap_fault")}, after \in {<<>>, Call("heap_fault")} :
        body = Under(HEAP, inside) \o after
  BY DEF alloc
<1>2. HEAP \in Shared /\ Rank(HEAP) = 3  BY Ranks, Zenon DEF Shared
<1>3. /\ Taking(x, HEAP) \in Point(c) /\ Taking(x, HEAP).held = x.held \cup {HEAP}
      /\ Below(Taking(x, HEAP), 4)
  <2>1. 3 < 4 /\ 4 \in Nat  OBVIOUS
  <2>2. QED  BY <1>2, <2>1, SharedTaking
<1>4. Taking(x, HEAP).held \subseteq Shared  BY <1>2, <1>3, Zenon
<1>5. Valid(c, inside, Taking(x, HEAP), Taking(x, HEAP))
  BY <1>1, <1>3, <1>4, ValidNil, Calls, Zenon
<1>6. Valid(c, Under(HEAP, inside), x, x)  BY <1>2, <1>5, UnderShared, Zenon
<1>7. Below(x, 4)  BY BelowMore
<1>8. Valid(c, after, x, x)  BY <1>1, <1>7, ValidNil, Calls, Zenon
<1>9. QED  BY <1>1, <1>6, <1>8, ValidConcat, Zenon

\* What the maps of the areas do to the heap, and a walk to the frames.
LEMMA LoopsValid ==
  ASSUME NEW c \in Cpus, NEW x \in Point(c), NEW body
  PROVE  /\ Below(x, 3) /\ x.held \subseteq Shared /\ body \in grow => Valid(c, body, x, x)
         /\ Below(x, 3) /\ body \in shrink => Valid(c, body, x, x)
         /\ Below(x, 4) /\ body \in walk => Valid(c, body, x, x)
<1>1. ASSUME Below(x, 3), x.held \subseteq Shared, body \in grow
      PROVE  Valid(c, body, x, x)
  <2>1. Valid(c, Call("alloc"), x, x) /\ Valid(c, Call("grow"), x, x)
    BY <1>1, Calls, Zenon
  <2>2. Valid(c, dealloc, x, x)  BY <1>1, LeafValid, Zenon
  <2>3. QED  BY <1>1, <2>1, <2>2, ValidNil, ValidConcat, Zenon DEF grow
<1>2. ASSUME Below(x, 3), body \in shrink  PROVE Valid(c, body, x, x)
  BY <1>2, Calls, LeafValid, ValidNil, ValidConcat, Zenon DEF shrink
<1>3. ASSUME Below(x, 4), body \in walk  PROVE Valid(c, body, x, x)
  BY <1>3, Calls, LeafValid, ValidNil, ValidConcat, Zenon DEF walk
<1>4. QED  BY <1>1, <1>2, <1>3, Zenon

\* A page fault uses the tables with or without their locks.
LEMMA FaultValid ==
  ASSUME NEW c \in Cpus, NEW body, NEW x \in Point(c), x.root = root[c],
         x.held \subseteq Shared,
         Valid(c, body, x, x), Valid(c, body, Inside(c, x), Inside(c, x))
  PROVE  Valid(c, Fault(c, body), x, x)
BY ValidTable, Zenon DEF Fault

LEMMA HeapFaultValid ==
  ASSUME NEW c \in Cpus, NEW x \in Point(c), x.root = root[c], Below(x, 4),
         x.held \subseteq Shared, NEW body \in heap_fault(c)
  PROVE  Valid(c, body, x, x)
<1>1. PICK b \in {log, frame \o Call("walk")} : body = Fault(c, b)
  BY Zenon DEF heap_fault
<1>2. ASSUME NEW y \in Point(c), Below(y, 4)  PROVE Valid(c, b, y, y)
  <2>1. Below(y, 5)  BY <1>2, BelowMore
  <2>2. QED  BY <1>1, <1>2, <2>1, LeafValid, Calls, ValidConcat, Zenon
<1>3. Inside(c, x) \in Point(c) /\ Below(Inside(c, x), 4)  BY InsideIs, Zenon
<1>4. QED  BY <1>1, <1>2, <1>3, FaultValid, Zenon

LEMMA VmallocFaultValid ==
  ASSUME NEW c \in Cpus, NEW x \in Point(c), x.root = root[c], x.held = {},
         NEW body \in vmalloc_fault(c)
  PROVE  Valid(c, body, x, x)
<1>1. PICK b \in {log, Under(USED_VMA, <<>>) \o frame \o log \o Call("walk")} :
        body = Fault(c, b)
  BY Zenon DEF vmalloc_fault
<1>2. ASSUME NEW y \in Point(c), Below(y, 2)  PROVE Valid(c, b, y, y)
  <2>1. Below(y, 5) /\ Below(y, 4)  BY <1>2, BelowMore
  <2>2. USED_VMA \in Shared /\ Rank(USED_VMA) = 2  BY Ranks, Zenon DEF Shared
  <2>3. Valid(c, Under(USED_VMA, <<>>), y, y)  BY <1>2, <2>2, UnderNil, Zenon
  <2>4. Valid(c, frame, y, y) /\ Valid(c, log, y, y) /\ Valid(c, Call("walk"), y, y)
    BY <2>1, LeafValid, Calls, Zenon
  <2>5. Valid(c, Under(USED_VMA, <<>>) \o frame, y, y)
    BY <2>3, <2>4, ValidConcat, Zenon
  <2>6. Valid(c, Under(USED_VMA, <<>>) \o frame \o log, y, y)
    BY <2>4, <2>5, ValidConcat, Zenon
  <2>7. QED  BY <1>1, <2>4, <2>6, ValidConcat, Zenon
<1>3. Below(x, 2)  BY Zenon DEF Below
<1>4. Inside(c, x) \in Point(c) /\ Below(Inside(c, x), 2)  BY <1>3, InsideIs, Zenon
<1>5. QED  BY <1>1, <1>2, <1>3, <1>4, FaultValid, Zenon

\* Below every lock there is no shared one.
LEMMA BelowAll ==
  ASSUME NEW c \in Cpus, NEW x \in Point(c), Below(x, 1), x.held \subseteq Shared
  PROVE  x.held = {}
<1> SUFFICES ASSUME NEW l \in x.held  PROVE FALSE  OBVIOUS
<1>1. l \in Shared /\ Rank(l) < 1  BY Zenon DEF Below
<1>2. QED  BY <1>1, SharedRank

LEMMA TouchValid ==
  ASSUME NEW c \in Cpus, NEW x \in Point(c), x.root = root[c], Below(x, 1),
         x.held \subseteq Shared, NEW body \in touch(c)
  PROVE  Valid(c, body, x, x)
<1>1. CASE body = <<>>  BY <1>1, ValidNil, Zenon
<1>2. CASE \E fault \in vmalloc_fault(c) : body = fault \o Call("touch")
  <2>1. PICK fault \in vmalloc_fault(c) : body = fault \o Call("touch")  BY <1>2, Zenon
  <2>2. Valid(c, fault, x, x)  BY BelowAll, VmallocFaultValid, Zenon
  <2>3. Valid(c, Call("touch"), x, x)  BY Calls, Zenon
  <2>4. QED  BY <2>1, <2>2, <2>3, ValidConcat, Zenon
<1>3. QED  BY <1>1, <1>2, Zenon DEF touch

LEMMA UnmapValid ==
  ASSUME NEW c \in Cpus, NEW x \in Point(c), x.root = root[c], Below(x, 1),
         x.held \subseteq Shared, NEW body \in unmap_current(c)
  PROVE  Valid(c, body, x, x)
<1>1. CASE body = <<>>  BY <1>1, ValidNil, Zenon
<1>2. CASE body = WithTable(c, <<>>) \o frame \o Call("unmap_current")
  <2>1. Inside(c, x) \in Point(c)  BY InsideIs, Zenon
  <2>2. Valid(c, WithTable(c, <<>>), x, x)  BY <2>1, ValidNil, ValidTable, Zenon
  <2>3. Below(x, 4)  BY BelowMore
  <2>4. Valid(c, frame, x, x)  BY <2>3, LeafValid, Zenon
  <2>5. Valid(c, Call("unmap_current"), x, x)  BY Calls, Zenon
  <2>6. Valid(c, WithTable(c, <<>>) \o frame, x, x)
    BY <2>2, <2>4, ValidConcat, Zenon
  <2>7. QED  BY <1>2, <2>5, <2>6, ValidConcat, Zenon
<1>3. QED  BY <1>1, <1>2, Zenon DEF unmap_current

\* The functions that are called from others come back to where they began.
LEMMA CalleeValid ==
  ASSUME NEW c \in Cpus, NEW x \in Point(c), x.root = root[c], NEW f \in Callee,
         MayCall(f, x), NEW body \in Bodies(c, f)
  PROVE  Valid(c, body, x, x)
<1>1. CASE f = "alloc"
  <2>1. Bodies(c, f) = alloc /\ Limit(f) = 3  BY <1>1 DEF Bodies, Limit
  <2>2. QED  BY <1>1, <2>1, AllocValid, Zenon DEF MayCall
<1>2. CASE f = "grow"
  <2>1. Bodies(c, f) = grow /\ Limit(f) = 3  BY <1>2 DEF Bodies, Limit
  <2>2. QED  BY <1>2, <2>1, LoopsValid, Zenon DEF MayCall
<1>3. CASE f = "shrink"
  <2>1. Bodies(c, f) = shrink /\ Limit(f) = 3  BY <1>3 DEF Bodies, Limit
  <2>2. QED  BY <1>3, <2>1, LoopsValid, Zenon DEF MayCall
<1>4. CASE f = "walk"
  <2>1. Bodies(c, f) = walk /\ Limit(f) = 4  BY <1>4 DEF Bodies, Limit
  <2>2. QED  BY <1>4, <2>1, LoopsValid, Zenon DEF MayCall
<1>5. CASE f = "heap_fault"
  <2>1. Bodies(c, f) = heap_fault(c) /\ Limit(f) = 4  BY <1>5 DEF Bodies, Limit
  <2>2. QED  BY <1>5, <2>1, HeapFaultValid, Zenon DEF MayCall
<1>6. CASE f = "unmap_current"
  <2>1. Bodies(c, f) = unmap_current(c) /\ Limit(f) = 1  BY <1>6 DEF Bodies, Limit
  <2>2. QED  BY <1>6, <2>1, UnmapValid, Zenon DEF MayCall
<1>7. CASE f = "touch"
  <2>1. Bodies(c, f) = touch(c) /\ Limit(f) = 1  BY <1>7 DEF Bodies, Limit
  <2>2. QED  BY <1>7, <2>1, TouchValid, Zenon DEF MayCall
<1>8. QED  BY <1>1, <1>2, <1>3, <1>4, <1>5, <1>6, <1>7, Zenon DEF Callee

\* The maps of the areas, each under its own lock.
LEMMA MapValid ==
  ASSUME NEW c \in Cpus, NEW x \in Point(c), x.held = {},
         NEW l \in {FREE_VMA, USED_VMA}
  PROVE  /\ Valid(c, Under(l, Call("grow")), x, x)
         /\ Valid(c, Under(l, Call("shrink")), x, x)
<1>1. l \in Shared /\ Rank(l) \in {1, 2}  BY Ranks, Zenon DEF Shared
<1>2. Below(x, Rank(l))  BY Zenon DEF Below
<1>3. /\ Taking(x, l) \in Point(c) /\ Taking(x, l).held = x.held \cup {l}
      /\ \A n \in Nat : Rank(l) < n => Below(Taking(x, l), n)
  BY <1>1, <1>2, SharedTaking, Zenon
<1>4. Below(Taking(x, l), 3)  BY <1>1, <1>3
<1>5. Taking(x, l).held \subseteq Shared  BY <1>1, <1>3, Zenon
<1>6. /\ Valid(c, Call("grow"), Taking(x, l), Taking(x, l))
      /\ Valid(c, Call("shrink"), Taking(x, l), Taking(x, l))
  BY <1>3, <1>4, <1>5, Calls, Zenon
<1>7. QED  BY <1>1, <1>2, <1>6, UnderShared, Zenon

LEMMA VmmValid ==
  ASSUME NEW c \in Cpus, NEW x \in Point(c), x.root = root[c], x.held = {},
         NEW body \in vmm_allocate \cup vmm_deallocate
  PROVE  Valid(c, body, x, x)
<1>1. /\ Valid(c, Under(FREE_VMA, Call("grow")), x, x)
      /\ Valid(c, Under(USED_VMA, Call("grow")), x, x)
      /\ Valid(c, Under(USED_VMA, Call("shrink")), x, x)
  BY MapValid, Zenon
<1>2. Below(x, 1) /\ x.held \subseteq Shared  BY Zenon DEF Below
<1>3. Valid(c, Call("unmap_current"), x, x)  BY <1>2, Calls, Zenon
<1>4. CASE body \in vmm_allocate
  <2>1. PICK b \in {<<>>, Under(USED_VMA, Call("grow"))} :
          body = Under(FREE_VMA, Call("grow")) \o b
    BY <1>4, Zenon DEF vmm_allocate
  <2>2. Valid(c, b, x, x)  BY <1>1, <2>1, ValidNil, Zenon
  <2>3. QED  BY <1>1, <2>1, <2>2, ValidConcat, Zenon
<1>5. CASE body \in vmm_deallocate
  <2>1. body = Under(USED_VMA, Call("shrink")) \o Call("unmap_current")
                 \o Under(FREE_VMA, Call("grow"))
    BY <1>5, Zenon DEF vmm_deallocate
  <2>2. Valid(c, Under(USED_VMA, Call("shrink")) \o Call("unmap_current"), x, x)
    BY <1>1, <1>3, ValidConcat, Zenon
  <2>3. QED  BY <1>1, <2>1, <2>2, ValidConcat, Zenon
<1>6. QED  BY <1>4, <1>5, Zenon

\* set_current_table ends with the root it switches to.
LEMMA SetTableValid ==
  ASSUME NEW c \in Cpus, NEW x \in Point(c), x.held = {},
         NEW body \in set_current_table(c)
  PROVE  \E r \in Cpus : Valid(c, body, x, At({}, r))
<1> DEFINE a == ACTIVE_TABLE(c)
<1>1. PICK r \in SwitchTo(c), drop \in {<<>>, frame \o dealloc} :
        body = Under(a, Use(r) \o drop) \o Under(a, Under(TableRoot(r), <<>>))
  BY DEF set_current_table
<1>2. r \in Cpus /\ x.root \in Cpus
  BY CpusAssumption, PointIs, Zenon DEF SwitchTo
<1> DEFINE t == TableRoot(r)
           s == [do |-> "use", root |-> r]
           p == At({a}, x.root)
           q == At({a}, r)
           b == At({a, t}, r)
           e == At({}, r)
<1>3. /\ a \in Lock /\ t \in Lock /\ a \notin Shared /\ t \notin Shared /\ a # t
      /\ TableRoot(x.root) # a
  BY <1>2, TableNames, Zenon
<1>4. /\ p \in Point(c) /\ p.held = {a} /\ p.root = x.root
      /\ q \in Point(c) /\ q.held = {a} /\ q.root = r
      /\ b \in Point(c) /\ b.held = {a, t} /\ b.root = r
      /\ e \in Point(c) /\ e.held = {} /\ e.root = r
  BY <1>2, <1>3, IsPoint
<1>5. x = At({}, x.root)  BY PointIs, Zenon
<1>6. Taking(x, a) = p /\ Taking(e, a) = q /\ Taking(q, t) = b
  <2>1. {} \cup {a} = {a} /\ {a} \cup {t} = {a, t}  OBVIOUS
  <2>2. QED  BY <1>4, <2>1, Zenon DEF Taking
<1>7. {a} \ {a} = {} /\ {a, t} \ {t} = {a}  BY <1>3
<1>8. s \in Using /\ s.root = r  BY <1>2 DEF Using
<1> HIDE DEF a, t, s, p, q, b, e
<1>9. Valid(c, Use(r) \o drop, p, q)
  <2>1. Allowed(s, p, q)
    <3>1. TableRoot(p.root) \notin p.held  BY <1>3, <1>4, Zenon
    <3>2. q = At(p.held, s.root)  BY <1>4, <1>8, Zenon DEF q
    <3>3. QED  BY <1>8, <3>1, <3>2, Zenon DEF Allowed
  <2>2. Valid(c, <<s>>, p, q)  BY <1>4, <1>8, <2>1, ValidOne, Zenon DEF CodeStep
  <2>3. Below(q, 4) /\ Below(q, 3)  BY <1>3, <1>4, Zenon DEF Below
  <2>4. Valid(c, frame \o dealloc, q, q)  BY <1>4, <2>3, LeafValid, ValidConcat, Zenon
  <2>5. Valid(c, drop, q, q)  BY <1>1, <1>4, <2>4, ValidNil, Zenon
  <2>6. QED  BY <2>2, <2>5, ValidConcat, Zenon DEF Use, s
<1>10. Valid(c, Under(a, Use(r) \o drop), x, e)
  <2>1. Valid(c, Under(a, Use(r) \o drop), x, At(q.held \ {a}, q.root))
    BY <1>3, <1>4, <1>6, <1>9, ValidUnder, Zenon
  <2>2. At(q.held \ {a}, q.root) = e  BY <1>4, <1>7, Zenon DEF e
  <2>3. QED  BY <2>1, <2>2, Zenon
<1>11. Valid(c, Under(t, <<>>), q, q)
  <2>1. t \notin q.held /\ t \in b.held  BY <1>3, <1>4, Zenon
  <2>2. Valid(c, Under(t, <<>>), q, At(b.held \ {t}, b.root))
    BY <1>3, <1>4, <1>6, <2>1, ValidNil, ValidUnder, Zenon
  <2>3. At(b.held \ {t}, b.root) = q  BY <1>4, <1>7, Zenon DEF q
  <2>4. QED  BY <2>2, <2>3, Zenon
<1>12. Valid(c, Under(a, Under(t, <<>>)), e, e)
  <2>1. Valid(c, Under(a, Under(t, <<>>)), e, At(q.held \ {a}, q.root))
    BY <1>3, <1>4, <1>6, <1>11, ValidUnder, Zenon
  <2>2. At(q.held \ {a}, q.root) = e  BY <1>4, <1>7, Zenon DEF e
  <2>3. QED  BY <2>1, <2>2, Zenon
<1>13. Valid(c, body, x, e)  BY <1>1, <1>10, <1>12, ValidConcat, Zenon DEF t
<1>14. QED  BY <1>2, <1>13, Zenon DEF e

\* The tables are loaded, and the root of the CPU is made.
LEMMA BootValid ==
  ASSUME NEW c \in Cpus, NEW x \in Point(c), x.root = root[c], x.held = {}
  PROVE  /\ Valid(c, Under(GDT, <<>>), x, x) /\ Valid(c, Under(IDT, <<>>), x, x)
         /\ Valid(c, install(c), x, x) /\ Valid(c, ap_setup, x, x)
         /\ Valid(c, WithTable(c, Call("walk")), x, x)
<1>1. GDT \in Shared /\ IDT \in Shared /\ TSS(c) \in Shared  BY Zenon DEF Shared
<1>2. x.held \subseteq Shared /\ \A n : Below(x, n)  BY Zenon DEF Below
<1>3. Valid(c, Under(GDT, <<>>), x, x) /\ Valid(c, Under(IDT, <<>>), x, x)
  BY <1>1, <1>2, UnderNil, Zenon
<1>4. Valid(c, install(c), x, x)
  <2>1. /\ Taking(x, GDT) \in Point(c)
        /\ \A n \in Nat : Rank(GDT) < n => Below(Taking(x, GDT), n)
    BY <1>1, <1>2, SharedTaking, Zenon
  <2>2. Below(Taking(x, GDT), Rank(TSS(c)))
    <3>1. Rank(GDT) = 5 /\ Rank(TSS(c)) = 6  BY Ranks, Zenon
    <3>2. QED  BY <2>1, <3>1
  <2>3. Valid(c, Under(TSS(c), <<>>), Taking(x, GDT), Taking(x, GDT))
    BY <1>1, <2>1, <2>2, UnderNil, Zenon
  <2>4. QED  BY <1>1, <1>2, <2>3, UnderShared, Zenon DEF install
<1>5. Valid(c, ap_setup, x, x)
  BY <1>2, LeafValid, Calls, ValidConcat, Zenon DEF ap_setup
<1>6. Valid(c, WithTable(c, Call("walk")), x, x)
  <2>1. Inside(c, x) \in Point(c) /\ Below(Inside(c, x), 4)  BY <1>2, InsideIs, Zenon
  <2>2. Valid(c, Call("walk"), Inside(c, x), Inside(c, x))  BY <2>1, Calls, Zenon
  <2>3. QED  BY <1>2, <2>2, ValidTable, Zenon
<1>7. QED  BY <1>3, <1>4, <1>5, <1>6, Zenon

LEMMA ApStartValid ==
  ASSUME NEW c \in Cpus, NEW x \in Point(c), x.root = root[c], x.held = {}
  PROVE  Valid(c, ap_start(c), x, x)
<1> DEFINE Ok(s) == Valid(c, s, x, x)
           tls == Under(FREE_VMA, Call("grow")) \o Under(USED_VMA, Call("grow"))
<1>1. ap_start(c) = Under(GDT, <<>>) \o Under(IDT, <<>>) \o tls \o Call("touch")
                      \o install(c) \o ap_setup \o Do("ready")
  BY Zenon DEF ap_start
<1>2. Ok(tls)
  <2>1. tls \in vmm_allocate  BY Zenon DEF vmm_allocate
  <2>2. QED  BY <2>1, VmmValid, Zenon
<1>3. Ok(Call("touch"))
  <2>1. Below(x, 1) /\ x.held \subseteq Shared  BY Zenon DEF Below
  <2>2. QED  BY <2>1, Calls, Zenon
<1>4. Ok(Do("ready"))
  <2>1. [do |-> "ready"] \in Marking  BY DEF Marking
  <2>2. [do |-> "ready"] \in CodeStep /\ Allowed([do |-> "ready"], x, x)
    BY <2>1, Zenon DEF CodeStep, Allowed
  <2>3. QED  BY <2>2, ValidOne, Zenon DEF Do
<1>5. Ok(Under(GDT, <<>>)) /\ Ok(Under(IDT, <<>>)) /\ Ok(install(c)) /\ Ok(ap_setup)
  BY BootValid, Zenon
<1>6. ASSUME NEW s, NEW t, Ok(s), Ok(t)  PROVE Ok(s \o t)  BY <1>6, ValidConcat, Zenon
<1> HIDE DEF Ok, tls
<1>7. Ok(Under(GDT, <<>>) \o Under(IDT, <<>>) \o tls)  BY <1>2, <1>5, <1>6, Zenon
<1>8. Ok(Under(GDT, <<>>) \o Under(IDT, <<>>) \o tls \o Call("touch") \o install(c))
  BY <1>3, <1>5, <1>6, <1>7, Zenon
<1>9. Ok(ap_start(c))  BY <1>1, <1>4, <1>5, <1>6, <1>8, Zenon
<1>10. QED  BY <1>9, Zenon DEF Ok

\* What the code of a CPU calls begins and ends without locks.
LEMMA EntryValid ==
  ASSUME NEW c \in Cpus, NEW x \in Point(c), x.root = root[c], x.held = {},
         NEW f \in Anytime \cup BootOnly \cup LateOnly, NEW body \in Bodies(c, f)
  PROVE  \E r \in Cpus : Valid(c, body, x, At({}, r))
<1>1. x = At({}, x.root) /\ x.root \in Cpus  BY PointIs, Zenon
<1>2. \A n : Below(x, n)  BY Zenon DEF Below
<1>3. x.held \subseteq Shared  BY Zenon
<1>4. CASE f = "log"
  <2>1. Bodies(c, f) = {log}  BY <1>4 DEF Bodies
  <2>2. Valid(c, body, x, x)  BY <1>2, <2>1, LeafValid, Zenon
  <2>3. QED  BY <1>1, <2>2, Zenon
<1>5. CASE f = "alloc"
  <2>1. Bodies(c, f) = alloc  BY <1>5 DEF Bodies
  <2>2. Valid(c, body, x, x)  BY <1>2, <1>3, <2>1, AllocValid, Zenon
  <2>3. QED  BY <1>1, <2>2, Zenon
<1>6. CASE f = "dealloc"
  <2>1. Bodies(c, f) = {dealloc}  BY <1>6 DEF Bodies
  <2>2. Valid(c, body, x, x)  BY <1>2, <2>1, LeafValid, Zenon
  <2>3. QED  BY <1>1, <2>2, Zenon
<1>7. CASE f = "vmalloc_fault"
  <2>1. Bodies(c, f) = vmalloc_fault(c)  BY <1>7 DEF Bodies
  <2>2. Valid(c, body, x, x)  BY <2>1, VmallocFaultValid, Zenon
  <2>3. QED  BY <1>1, <2>2, Zenon
<1>8. CASE f \in {"vmm_allocate", "vmm_deallocate"}
  <2>1. Bodies(c, f) \subseteq vmm_allocate \cup vmm_deallocate
    <3>1. CASE f = "vmm_allocate"
      <4>1. Bodies(c, f) = vmm_allocate  BY <3>1 DEF Bodies
      <4>2. QED  BY <4>1, Zenon
    <3>2. CASE f = "vmm_deallocate"
      <4>1. Bodies(c, f) = vmm_deallocate  BY <3>2 DEF Bodies
      <4>2. QED  BY <4>1, Zenon
    <3>3. QED  BY <1>8, <3>1, <3>2, Zenon
  <2>2. Valid(c, body, x, x)  BY <2>1, VmmValid, Zenon
  <2>3. QED  BY <1>1, <2>2, Zenon
<1>9. CASE f = "new"
  <2>1. Bodies(c, f) = new  BY <1>9 DEF Bodies
  <2>2. body = frame \o Call("alloc")  BY <2>1, Zenon DEF new
  <2>3. Valid(c, body, x, x)
    BY <1>2, <1>3, <2>2, LeafValid, Calls, ValidConcat, Zenon
  <2>4. QED  BY <1>1, <2>3, Zenon
<1>10. CASE f = "set_current_table"
  <2>1. Bodies(c, f) = set_current_table(c)  BY <1>10 DEF Bodies
  <2>2. QED  BY <2>1, SetTableValid, Zenon
<1>11. CASE f \in {"map_current", "gdt", "idt", "install", "setup"}
  <2>1. \/ body = WithTable(c, Call("walk"))
        \/ body \in {Under(GDT, <<>>), Under(IDT, <<>>), install(c)}
        \/ body = ap_setup \o WithTable(c, Call("walk"))
    <3>1. CASE f = "map_current"
      <4>1. Bodies(c, f) = map_current(c)  BY <3>1 DEF Bodies
      <4>2. QED  BY <4>1, Zenon DEF map_current
    <3>2. CASE f = "gdt"
      <4>1. Bodies(c, f) = {Under(GDT, <<>>)}  BY <3>2 DEF Bodies
      <4>2. QED  BY <4>1, Zenon
    <3>3. CASE f = "idt"
      <4>1. Bodies(c, f) = {Under(IDT, <<>>)}  BY <3>3 DEF Bodies
      <4>2. QED  BY <4>1, Zenon
    <3>4. CASE f = "install"
      <4>1. Bodies(c, f) = {install(c)}  BY <3>4 DEF Bodies
      <4>2. QED  BY <4>1, Zenon
    <3>5. CASE f = "setup"
      <4>1. Bodies(c, f) = setup(c)  BY <3>5 DEF Bodies
      <4>2. QED  BY <4>1, Zenon DEF setup
    <3>6. QED  BY <1>11, <3>1, <3>2, <3>3, <3>4, <3>5, Zenon
  <2>2. Valid(c, body, x, x)  BY <2>1, BootValid, ValidConcat, Zenon
  <2>3. QED  BY <1>1, <2>2, Zenon
<1>12. CASE f = "unmap_current"
  <2>1. Bodies(c, f) = unmap_current(c)  BY <1>12 DEF Bodies
  <2>2. Valid(c, body, x, x)  BY <1>2, <1>3, <2>1, UnmapValid, Zenon
  <2>3. QED  BY <1>1, <2>2, Zenon
<1>13. QED
  BY <1>4, <1>5, <1>6, <1>7, <1>8, <1>9, <1>10, <1>11, <1>12, Zenon
  DEF Anytime, BootOnly, LateOnly
-----------------------------------------------------------------------------
(* The invariant.                                                          *)

Now(c) == At({l \in Lock : holder[l] = c}, root[c])

\* c is in the code, and what is left of it may be done from here.
InCode(c) == \E r \in Cpus : Valid(c, todo[c], Now(c), At({}, r))

\* c is at step k of panic.
Panicking(c, k) ==
  /\ todo[c] = SubSeq(panic, k, 8)
  /\ k \in {3, 4, 6, 7} => holder[SERIAL] = c
  /\ k = 1 => said[c] = 0

Local(c) ==
  \/ Frozen(c)
  \/ c \notin panicked /\ InCode(c)
  \/ c \in panicked /\ \E k \in 1 .. 7 : Panicking(c, k)

Types ==
  /\ todo = [c \in Cpus |-> todo[c]]
  /\ holder \in [Lock -> Cpus \cup {Nobody}]
  /\ root \in [Cpus -> Cpus]
  /\ lapic \in BOOLEAN /\ early \in BOOLEAN
  /\ boot \in [Cpus -> {"parked", "released", "starting", "ready"}]
  /\ nmi \subseteq Cpus /\ panicked \subseteq Cpus
  /\ said \in [Cpus -> Nat]

\* Before start_cpus the boot processor is alone: nobody else runs, or panics.
Alone ==
  ~lapic =>
    /\ early /\ nmi = {}
    /\ \A c \in Cpus \ {Bsp} : c \notin panicked /\ boot[c] = "parked" /\ todo[c] = <<>>

\* Without a panic nobody is stopped, and nothing is said.
Calm ==
  /\ panicked = {} => nmi = {} /\ \A c \in Cpus : ~Frozen(c)
  /\ \A c \in Cpus \ panicked : said[c] = 0

\* A panic past its first step has stopped the others.
Stopped(d) == d \in nmi \/ Frozen(d)
Began(c)   == todo[c] # panic /\ (~Frozen(c) \/ said[c] > 0)
Covered    ==
  lapic => \A c \in panicked : Began(c) => \A d \in Cpus \ {c} : Stopped(d)

IInv == Types /\ (\A c \in Cpus : Local(c)) /\ Alone /\ Calm /\ Covered

\* The steps of panic.
LEMMA PanicIs ==
  /\ Len(panic) = 8 /\ \E S : panic \in Seq(S)
  /\ panic[1] = [do |-> "stop"] /\ panic[8] = [do |-> "freeze"]
  /\ \A k \in {2, 5} : panic[k] = [do |-> "lock", on |-> SERIAL]
  /\ \A k \in {3, 6} : panic[k] = [do |-> "say"]
  /\ \A k \in {4, 7} : panic[k] = [do |-> "unlock", on |-> SERIAL]
<1> DEFINE e1 == [do |-> "stop"]
           e2 == [do |-> "lock", on |-> SERIAL]
           e3 == [do |-> "say"]
           e4 == [do |-> "unlock", on |-> SERIAL]
           e5 == [do |-> "freeze"]
           S == {e1, e2, e3, e4, e5}
           a == <<e1>>
           b == (<<e2>> \o <<e3>>) \o <<e4>>
           z == <<e5>>
<1>1. panic = ((a \o b) \o b) \o z  BY Zenon DEF panic, Do, Under
<1> HIDE DEF e1, e2, e3, e4, e5
<1>2. e1 \in S /\ e2 \in S /\ e3 \in S /\ e4 \in S /\ e5 \in S  OBVIOUS
<1> HIDE DEF S
<1>3. \A e \in S : <<e>> \in Seq(S) /\ Len(<<e>>) = 1 /\ <<e>>[1] = e  OBVIOUS
<1>4. /\ <<e2>> \o <<e3>> \in Seq(S) /\ Len(<<e2>> \o <<e3>>) = 2
      /\ (<<e2>> \o <<e3>>)[1] = e2 /\ (<<e2>> \o <<e3>>)[2] = e3
  BY <1>2, <1>3, ConcatProperties
<1>5. b \in Seq(S) /\ Len(b) = 3 /\ b[1] = e2 /\ b[2] = e3 /\ b[3] = e4
  BY <1>2, <1>3, <1>4, ConcatProperties
<1>6. a \in Seq(S) /\ Len(a) = 1 /\ a[1] = e1  BY <1>2, <1>3
<1>7. z \in Seq(S) /\ Len(z) = 1 /\ z[1] = e5  BY <1>2, <1>3
<1> HIDE DEF a, b, z
<1> DEFINE u == a \o b
           v == u \o b
           p == v \o z
<1>8. panic = p  BY <1>1, Zenon
<1>9. /\ u \in Seq(S) /\ Len(u) = Len(a) + Len(b)
      /\ \A i \in 1 .. Len(a) + Len(b) :
           u[i] = IF i <= Len(a) THEN a[i] ELSE b[i - Len(a)]
  BY <1>5, <1>6, ConcatProperties, Zenon
<1> HIDE DEF u
<1>10. /\ u \in Seq(S) /\ Len(u) = 4
      /\ \A i \in 1 .. 4 : u[i] = IF i <= 1 THEN a[i] ELSE b[i - 1]
  BY <1>5, <1>6, <1>9
<1>11. /\ v \in Seq(S) /\ Len(v) = Len(u) + Len(b)
      /\ \A i \in 1 .. Len(u) + Len(b) :
           v[i] = IF i <= Len(u) THEN u[i] ELSE b[i - Len(u)]
  BY <1>5, <1>10, ConcatProperties, Zenon
<1> HIDE DEF v
<1>12. /\ v \in Seq(S) /\ Len(v) = 7
      /\ \A i \in 1 .. 7 : v[i] = IF i <= 4 THEN u[i] ELSE b[i - 4]
  BY <1>5, <1>10, <1>11
<1>13. /\ p \in Seq(S) /\ Len(p) = Len(v) + Len(z)
      /\ \A i \in 1 .. Len(v) + Len(z) :
           p[i] = IF i <= Len(v) THEN v[i] ELSE z[i - Len(v)]
  BY <1>7, <1>12, ConcatProperties, Zenon
<1> HIDE DEF p
<1>14. /\ p \in Seq(S) /\ Len(p) = 8
      /\ \A i \in 1 .. 8 : p[i] = IF i <= 7 THEN v[i] ELSE z[i - 7]
  BY <1>7, <1>12, <1>13
<1>15. /\ p[1] = a[1] /\ p[2] = b[1] /\ p[3] = b[2] /\ p[4] = b[3]
  BY <1>10, <1>12, <1>14
<1>16. /\ p[5] = b[1] /\ p[6] = b[2] /\ p[7] = b[3] /\ p[8] = z[1]
  BY <1>12, <1>14
<1>17. /\ p[1] = e1 /\ p[2] = e2 /\ p[3] = e3 /\ p[4] = e4
       /\ p[5] = e2 /\ p[6] = e3 /\ p[7] = e4 /\ p[8] = e5
  BY <1>5, <1>6, <1>7, <1>15, <1>16, Zenon
<1>18. QED  BY <1>8, <1>14, <1>17, Zenon DEF e1, e2, e3, e4, e5

\* A CPU that panics does the next step, and freezes after the last.
LEMMA PanicSuffix ==
  /\ SubSeq(panic, 1, 8) = panic /\ SubSeq(panic, 8, 8) = Do("freeze")
  /\ \A k \in 1 .. 7 :
       LET s == SubSeq(panic, k, 8) IN
       /\ s # <<>> /\ Head(s) = panic[k] /\ Tail(s) = SubSeq(panic, k + 1, 8)
       /\ s # Do("freeze") /\ (k # 1 => s # panic)
<1>0. PICK S : panic \in Seq(S)  BY PanicIs, Zenon
<1>1. panic \in Seq(S) /\ Len(panic) = 8  BY <1>0, PanicIs, Zenon
<1>2. SubSeq(panic, 1, 8) = panic
  BY <1>1, SubSeqFull, Zenon
<1>3. \A i \in 1 .. 8 : panic[i] \in S  BY <1>1, ElementOfSeq, Zenon
<1>4. ASSUME NEW k \in 1 .. 8
      PROVE  /\ SubSeq(panic, k, 8) \in Seq(S) /\ Len(SubSeq(panic, k, 8)) = 9 - k
             /\ \A i \in 1 .. 9 - k : SubSeq(panic, k, 8)[i] = panic[k + i - 1]
  <2>1. \A i \in k .. 8 : panic[i] \in S  BY <1>3
  <2>2. QED  BY <2>1, SubSeqProperties
<1>5. SubSeq(panic, 8, 8) = Do("freeze")
  <2>1. /\ SubSeq(panic, 8, 8) \in Seq(S) /\ Len(SubSeq(panic, 8, 8)) = 1
        /\ SubSeq(panic, 8, 8)[1] = panic[8]
    BY <1>4
  <2>2. /\ Do("freeze") \in Seq(S) /\ Len(Do("freeze")) = 1
        /\ Do("freeze")[1] = panic[8]
    <3>1. panic[8] \in S  BY <1>3
    <3>2. Do("freeze") = <<panic[8]>>  BY PanicIs, Zenon DEF Do
    <3>3. \A e \in S : <<e>> \in Seq(S) /\ Len(<<e>>) = 1 /\ <<e>>[1] = e  OBVIOUS
    <3>4. QED  BY <3>1, <3>2, <3>3, Zenon
  <2>3. QED  BY <2>1, <2>2, SeqEqual
<1>6. ASSUME NEW k \in 1 .. 7
      PROVE  LET s == SubSeq(panic, k, 8) IN
             /\ s # <<>> /\ Head(s) = panic[k] /\ Tail(s) = SubSeq(panic, k + 1, 8)
             /\ s # Do("freeze") /\ (k # 1 => s # panic)
  <2>1. Len(SubSeq(panic, k, 8)) = 9 - k  BY <1>4
  <2>2. SubSeq(panic, k, 8) # <<>>
    <3>1. Len(SubSeq(panic, k, 8)) # 0  BY <2>1
    <3>2. QED  BY <3>1, EmptySeq, Zenon
  <2>3. k \in 1 .. Len(panic) /\ 8 \in k .. Len(panic)  BY <1>1
  <2>4. /\ Head(SubSeq(panic, k, 8)) = panic[k]
        /\ Tail(SubSeq(panic, k, 8)) = SubSeq(panic, k + 1, 8)
    BY <1>1, <2>3, HeadTailOfSubSeq, Zenon
  <2>5. Len(Do("freeze")) = 1  BY DEF Do
  <2>6. /\ Len(SubSeq(panic, k, 8)) # Len(Do("freeze"))
        /\ k # 1 => Len(SubSeq(panic, k, 8)) # Len(panic)
    <3>1. 9 - k # 1 /\ (k # 1 => 9 - k # 8)  OBVIOUS
    <3>2. QED  BY <1>1, <2>1, <2>5, <3>1, Zenon
  <2>7. QED  BY <2>2, <2>4, <2>6, Zenon
<1>7. QED  BY <1>2, <1>5, <1>6, Zenon
-----------------------------------------------------------------------------
(* What holds for a CPU depends on what the CPU does.                      *)

LEMMA CodeRuns ==
  ASSUME NEW c \in Cpus, NEW s, NEW x, NEW y, Valid(c, s, x, y)
  PROVE  s # Do("freeze")
<1>1. s \in Seq(CodeStep)  BY Zenon DEF Valid
<1>2. [do |-> "freeze"] \notin CodeStep
  BY DEF CodeStep, Locking, Unlocking, Calling, Using, Marking
<1>3. Len(<<[do |-> "freeze"]>>) = 1 /\ <<[do |-> "freeze"]>>[1] = [do |-> "freeze"]
  OBVIOUS
<1>4. SUFFICES ASSUME s = Do("freeze")  PROVE FALSE  OBVIOUS
<1>5. Len(s) = 1 /\ s[1] = [do |-> "freeze"]  BY <1>3, <1>4, Zenon DEF Do
<1>6. 1 \in 1 .. Len(s)  BY <1>5
<1>7. s[1] \in CodeStep  BY <1>1, <1>6, ElementOfSeq, Zenon
<1>8. QED  BY <1>2, <1>5, <1>7, Zenon

LEMMA FreezeIs == Do("freeze") # <<>> /\ Head(Do("freeze")).do = "freeze"
BY DEF Do

\* A CPU about to do a step is in the code, or panics.
LEMMA Kind ==
  ASSUME NEW c \in Cpus, Local(c), NEW what, what # "freeze", Next1(c, what)
  PROVE  /\ ~Frozen(c)
         /\ \/ /\ c \notin panicked /\ Head(todo[c]) \in CodeStep
               /\ \E r \in Cpus : \E z \in Point(c) :
                    /\ Allowed(Head(todo[c]), Now(c), z)
                    /\ Valid(c, Tail(todo[c]), z, At({}, r))
            \/ /\ c \in panicked
               /\ \E k \in 1 .. 7 :
                    /\ Panicking(c, k) /\ Head(todo[c]) = panic[k]
                    /\ Tail(todo[c]) = SubSeq(panic, k + 1, 8)
<1>1. todo[c] # <<>> /\ Head(todo[c]).do = what  BY Zenon DEF Next1
<1>2. ~Frozen(c)  BY <1>1, FreezeIs, Zenon DEF Frozen
<1>3. CASE c \notin panicked /\ InCode(c)
  BY <1>1, <1>2, <1>3, ValidHead, Zenon DEF InCode
<1>4. CASE c \in panicked /\ \E k \in 1 .. 7 : Panicking(c, k)
  <2>1. PICK k \in 1 .. 7 : Panicking(c, k)  BY <1>4, Zenon
  <2>2. Head(todo[c]) = panic[k] /\ Tail(todo[c]) = SubSeq(panic, k + 1, 8)
    BY <2>1, PanicSuffix, Zenon DEF Panicking
  <2>3. QED  BY <1>2, <1>4, <2>1, <2>2, Zenon
<1>5. QED  BY <1>2, <1>3, <1>4, Zenon DEF Local

\* What a step of another CPU leaves alone.
LEMMA LocalKept ==
  ASSUME NEW d \in Cpus, Local(d), todo'[d] = todo[d], root'[d] = root[d],
         said'[d] = said[d], d \in panicked' <=> d \in panicked,
         \A l \in Lock : holder'[l] = d <=> holder[l] = d
  PROVE  Local(d)'
<1>1. Now(d)' = Now(d)
  <2>1. {l \in Lock : holder'[l] = d} = {l \in Lock : holder[l] = d}  BY Zenon
  <2>2. QED  BY <2>1, Zenon DEF Now
<1>2. InCode(d) => InCode(d)'  BY <1>1, Zenon DEF InCode
<1>3. Frozen(d) => Frozen(d)'  BY Zenon DEF Frozen
<1>4. SERIAL \in Lock  BY SharedRank, Zenon DEF Shared
<1>5. \A k : Panicking(d, k) => Panicking(d, k)'  BY <1>4, Zenon DEF Panicking
<1>6. QED  BY <1>2, <1>3, <1>5, Zenon DEF Local

\* The step of a CPU that panics leads to the next one.
LEMMA PanicNext ==
  ASSUME NEW c \in Cpus, c \in panicked', NEW k \in 1 .. 7,
         todo'[c] = SubSeq(panic, k + 1, 8), k \in {2, 3, 5, 6} => holder'[SERIAL] = c
  PROVE  Local(c)'
<1>1. CASE k = 7
  <2>1. k + 1 = 8  BY <1>1
  <2>2. todo'[c] = SubSeq(panic, 8, 8)  BY <2>1, Zenon
  <2>3. QED  BY <2>2, PanicSuffix, Zenon DEF Local, Frozen
<1>2. CASE k # 7
  <2>1. /\ k + 1 \in 1 .. 7 /\ k + 1 # 1
        /\ k + 1 \in {3, 4, 6, 7} => k \in {2, 3, 5, 6}
    BY <1>2
  <2>2. Panicking(c, k + 1)'  BY <2>1, Zenon DEF Panicking
  <2>3. QED  BY <2>1, <2>2, Zenon DEF Local
<1>3. QED  BY <1>1, <1>2, Zenon

\* How the boot goes on when c does something.
Booting(c) ==
  /\ todo[c] # <<>> \/ lapic \/ c = Bsp
  /\ boot' \in [Cpus -> {"parked", "released", "starting", "ready"}]
  /\ lapic \/ \A d \in Cpus \ {c} : boot'[d] = boot[d]

LEMMA BootKept ==
  ASSUME Types, NEW c \in Cpus, NEW what, Next1(c, what), boot' = boot
  PROVE  Booting(c)
BY Zenon DEF Types, Next1, Booting

\* The rest of the invariant, for a step of a CPU that is not the first of its
\* panic.
LEMMA OthersKept ==
  ASSUME IInv, NEW c \in Cpus, NEW t, todo' = [todo EXCEPT ![c] = t],
         lapic' <=> lapic, early' <=> early, Booting(c), nmi' = nmi, panicked' = panicked,
         \A d \in Cpus \ {c} : said'[d] = said[d],
         ~Frozen(c), c \notin panicked => t # Do("freeze") /\ said'[c] = said[c],
         c \in panicked => todo[c] # panic
  PROVE  Alone' /\ Calm' /\ Covered'
<1>1. /\ todo'[c] = t /\ \A d \in Cpus \ {c} : todo'[d] = todo[d]
      /\ panicked \subseteq Cpus
  BY Zenon DEF IInv, Types
<1>2. \A d \in Cpus \ {c} : Frozen(d)' <=> Frozen(d)  BY <1>1, Zenon DEF Frozen
<1>3. Alone'
  <2>1. ~lapic => c = Bsp  BY Zenon DEF IInv, Alone, Booting
  <2>2. QED  BY <1>1, <2>1, Zenon DEF IInv, Alone, Booting
<1>4. Calm'
  <2>1. c \notin panicked => ~Frozen(c)'  BY <1>1, Zenon DEF Frozen
  <2>2. QED  BY <1>2, <2>1, Zenon DEF IInv, Calm
<1>5. Covered'
  <2> SUFFICES ASSUME lapic, NEW e \in panicked, Began(e)', NEW d \in Cpus \ {e}
               PROVE  Stopped(d)'
    BY Zenon DEF Covered
  <2>1. Began(e)
    <3>1. CASE e = c  BY <3>1, Zenon DEF Began
    <3>2. CASE e # c
      <4>1. todo'[e] = todo[e] /\ said'[e] = said[e] /\ (Frozen(e)' <=> Frozen(e))
        BY <1>1, <1>2, <3>2, Zenon
      <4>2. QED  BY <4>1, Zenon DEF Began
    <3>3. QED  BY <3>1, <3>2, Zenon
  <2>2. Stopped(d)  BY <2>1, Zenon DEF IInv, Covered
  <2>3. QED  BY <1>2, <2>2, Zenon DEF Stopped
<1>6. QED  BY <1>3, <1>4, <1>5, Zenon
-----------------------------------------------------------------------------
(* The steps.                                                              *)

LEMMA NowIs ==
  ASSUME Types, NEW c \in Cpus
  PROVE  /\ Now(c).held = {l \in Lock : holder[l] = c} /\ Now(c).root = root[c]
         /\ \A l \in Now(c).held : l \in Lock /\ holder[l] = c
         /\ Now(c) = At(Now(c).held, root[c])
<1>1. Now(c).held = {l \in Lock : holder[l] = c} /\ Now(c).root = root[c]
  BY DEF Now, At
<1>2. QED  BY <1>1, Zenon DEF Now

LEMMA InvInit == Init => IInv
<1> SUFFICES ASSUME Init  PROVE IInv  OBVIOUS
<1>1. Types  BY CpusAssumption, Zenon DEF Init, Types
<1>2. ASSUME NEW c \in Cpus  PROVE Local(c) /\ ~Frozen(c)
  <2>1. {l \in Lock : holder[l] = c} = {} /\ root[c] = c /\ todo[c] = <<>> /\ c \notin panicked
    BY CpusAssumption DEF Init
  <2>2. Now(c) = At({}, c)  BY <2>1, Zenon DEF Now
  <2>3. At({}, c) \in Point(c)  BY IsPoint
  <2>4. Valid(c, todo[c], Now(c), At({}, c))  BY <2>1, <2>2, <2>3, ValidNil, Zenon
  <2>5. QED  BY <2>1, <2>4, FreezeIs, Zenon DEF Local, InCode, Frozen
<1>3. Alone /\ Calm /\ Covered  BY <1>2 DEF Init, Alone, Calm, Covered
<1>4. QED  BY <1>1, <1>2, <1>3, Zenon DEF IInv

\* The CPU that steps changes what it has to do; it is still where it may be.
LEMMA CodeStepInv ==
  ASSUME IInv, NEW c \in Cpus, NEW t, todo' = [todo EXCEPT ![c] = t],
         holder' \in [Lock -> Cpus \cup {Nobody}],
         root' \in [Cpus -> Cpus], \A d \in Cpus \ {c} : root'[d] = root[d],
         \A d \in Cpus \ {c} : \A l \in Lock : holder'[l] = d <=> holder[l] = d,
         UNCHANGED <<lapic, early, nmi, panicked, said>>, Booting(c),
         ~Frozen(c), Local(c)',
         c \notin panicked => t # Do("freeze"),
         c \in panicked => todo[c] # panic
  PROVE  IInv'
<1>1. (lapic' <=> lapic) /\ (early' <=> early)  OBVIOUS
<1>2. nmi' = nmi /\ panicked' = panicked /\ said' = said  BY Zenon
<1>3. Alone' /\ Calm' /\ Covered'  BY <1>1, <1>2, OthersKept, Zenon
<1>4. Types'
  <2>1. lapic' \in BOOLEAN /\ early' \in BOOLEAN  BY <1>1, Zenon DEF IInv, Types
  <2>2. todo' = [d \in Cpus |-> todo'[d]]  BY DEF IInv, Types
  <2>3. QED  BY <1>2, <2>1, <2>2, Zenon DEF IInv, Types, Booting
<1>5. ASSUME NEW d \in Cpus  PROVE Local(d)'
  <2>1. CASE d = c  BY <2>1, Zenon
  <2>2. CASE d # c
    <3>1. todo'[d] = todo[d]  BY <2>2, Zenon DEF IInv, Types
    <3>2. QED  BY <1>2, <2>2, <3>1, LocalKept, Zenon DEF IInv
  <2>3. QED  BY <2>1, <2>2, Zenon
<1>6. QED  BY <1>3, <1>4, <1>5, Zenon DEF IInv

\* A CPU that has nothing to do begins something.
LEMMA StartsInv ==
  ASSUME IInv, NEW c \in Cpus, todo[c] = <<>>, NEW t, todo' = [todo EXCEPT ![c] = t],
         holder' = holder, root' = root, Booting(c),
         UNCHANGED <<lapic, early, nmi, panicked, said>>,
         \A x \in Point(c) : x.root = root[c] /\ x.held = {} =>
           \E r \in Cpus : Valid(c, t, x, At({}, r))
  PROVE  IInv'
<1>1. Local(c) /\ Types  BY Zenon DEF IInv
<1>2. c \notin panicked /\ InCode(c)
  BY <1>1, FreezeIs, PanicSuffix, Zenon DEF Local, Frozen, Panicking
<1>3. PICK r \in Cpus : Valid(c, <<>>, Now(c), At({}, r))  BY <1>2, Zenon DEF InCode
<1>4. Now(c) \in Point(c) /\ Now(c) = At({}, r)  BY <1>3, ValidEnds, Zenon
<1>5. Now(c).held = {}  BY <1>4 DEF At
<1>6. Now(c).root = root[c]  BY <1>1, NowIs, Zenon
<1>7. PICK q \in Cpus : Valid(c, t, Now(c), At({}, q))  BY <1>4, <1>5, <1>6, Zenon
<1>8. todo'[c] = t /\ Now(c)' = Now(c) /\ c \notin panicked'
  BY <1>1, <1>2, Zenon DEF Types, Now
<1>9. Local(c)'  BY <1>7, <1>8, Zenon DEF Local, InCode
<1>10. t # Do("freeze")  BY <1>7, CodeRuns, Zenon
<1>11. ~Frozen(c)  BY FreezeIs, Zenon DEF Frozen
<1>12. /\ holder' \in [Lock -> Cpus \cup {Nobody}] /\ root' \in [Cpus -> Cpus]
       /\ \A d \in Cpus \ {c} : root'[d] = root[d]
       /\ \A d \in Cpus \ {c} : \A l \in Lock : holder'[l] = d <=> holder[l] = d
  BY <1>1, Zenon DEF Types
<1>13. QED  BY <1>2, <1>9, <1>10, <1>11, <1>12, CodeStepInv, Zenon

LEMMA BeginInv ==
  ASSUME IInv, NEW c \in Cpus, Begin(c)
  PROVE  IInv'
<1>0. PICK f \in Entry : \E t \in Bodies(c, f) : todo' = [todo EXCEPT ![c] = t]
  BY Zenon DEF Begin, Then
<1>1. PICK t \in Bodies(c, f) : todo' = [todo EXCEPT ![c] = t]  BY <1>0, Zenon
<1>2. /\ todo[c] = <<>> /\ UNCHANGED <<lapic, early, nmi, panicked, said>>
      /\ holder' = holder /\ root' = root /\ boot' = boot /\ (early => c = Bsp)
  BY Zenon DEF Begin, bootVars
<1>3. f \in Anytime \cup BootOnly \cup LateOnly  BY Zenon DEF Entry
<1>4. Booting(c)  BY <1>2, Zenon DEF Booting, IInv, Types, Alone
<1>5. \A x \in Point(c) : x.root = root[c] /\ x.held = {} =>
        \E r \in Cpus : Valid(c, t, x, At({}, r))
  BY <1>1, <1>3, EntryValid, Zenon
<1>6. QED  BY <1>1, <1>2, <1>4, <1>5, StartsInv, Zenon

LEMMA StartCpuInv ==
  ASSUME IInv, NEW c \in Cpus, StartCpu(c)
  PROVE  IInv'
<1>1. /\ lapic /\ todo[Bsp] = <<>> /\ todo' = [todo EXCEPT ![Bsp] = log]
      /\ UNCHANGED <<lapic, early, nmi, panicked, said>>
      /\ holder' = holder /\ root' = root /\ boot' = [boot EXCEPT ![c] = "released"]
  BY Zenon DEF StartCpu, Then
<1>2. Booting(Bsp)  BY <1>1 DEF Booting, IInv, Types
<1>3. ASSUME NEW x \in Point(Bsp), x.held = {}
      PROVE  \E r \in Cpus : Valid(Bsp, log, x, At({}, r))
  <2>1. Below(x, 5)  BY <1>3, Zenon DEF Below
  <2>2. Valid(Bsp, log, x, x)  BY <2>1, CpusAssumption, LeafValid, Zenon
  <2>3. x = At({}, x.root) /\ x.root \in Cpus
    BY <1>3, CpusAssumption, PointIs, Zenon
  <2>4. QED  BY <2>2, <2>3, Zenon
<1>4. QED  BY <1>1, <1>2, <1>3, CpusAssumption, StartsInv, Zenon

LEMMA ApStartInv ==
  ASSUME IInv, NEW c \in Cpus, ApStart(c)
  PROVE  IInv'
<1>1. /\ boot[c] = "released" /\ todo[c] = <<>>
      /\ UNCHANGED <<lapic, early, nmi, panicked, said>>
      /\ holder' = holder /\ root' = root /\ boot' = [boot EXCEPT ![c] = "starting"]
  BY Zenon DEF ApStart
<1>2. todo' = [todo EXCEPT ![c] = ap_start(c)]  BY Zenon DEF ApStart, Then
<1>3. Booting(c)
  <2>1. lapic \/ c = Bsp  BY <1>1 DEF IInv, Alone
  <2>2. QED  BY <1>1, <2>1 DEF Booting, IInv, Types
<1>4. ASSUME NEW x \in Point(c), x.root = root[c], x.held = {}
      PROVE  \E r \in Cpus : Valid(c, ap_start(c), x, At({}, r))
  <2>1. Valid(c, ap_start(c), x, x)  BY <1>4, ApStartValid, Zenon
  <2>2. x = At({}, x.root) /\ x.root \in Cpus  BY <1>4, PointIs, Zenon
  <2>3. QED  BY <2>1, <2>2, Zenon
<1>5. QED  BY <1>1, <1>2, <1>3, <1>4, StartsInv, Zenon

LEMMA ReadyInv ==
  ASSUME IInv, NEW c \in Cpus, Ready(c)
  PROVE  IInv'
<1> DEFINE s == Head(todo[c])
           t == Tail(todo[c])
<1>1. /\ Next1(c, "ready") /\ boot' = [boot EXCEPT ![c] = "ready"]
      /\ todo' = [todo EXCEPT ![c] = t] /\ holder' = holder /\ root' = root
      /\ UNCHANGED <<lapic, early, nmi, panicked, said>>
  BY Zenon DEF Ready, Then
<1>2. Local(c) /\ Types  BY Zenon DEF IInv
<1>3. s.do = "ready" /\ todo[c] # <<>>  BY <1>1, Zenon DEF Next1
<1>4. \A k \in 1 .. 7 : panic[k].do # "ready"
  <2>1. \A k \in 1 .. 7 : k = 1 \/ k \in {2, 5} \/ k \in {3, 6} \/ k \in {4, 7}  OBVIOUS
  <2>2. QED  BY <2>1, PanicIs
<1>5. c \notin panicked /\ ~Frozen(c)  BY <1>1, <1>2, <1>3, <1>4, Kind, Zenon
<1>6. PICK r \in Cpus, z \in Point(c) : Allowed(s, Now(c), z) /\ Valid(c, t, z, At({}, r))
  BY <1>1, <1>2, <1>5, Kind, Zenon
<1> HIDE DEF s, t
<1>7. z = Now(c)
  BY <1>3, <1>6 DEF Allowed, Locking, Unlocking, Using, Calling, Marking
<1>8. todo'[c] = t /\ c \notin panicked' /\ Now(c)' = Now(c)
  BY <1>1, <1>2, <1>5, Zenon DEF Types, Now
<1>9. Local(c)'  BY <1>6, <1>7, <1>8, Zenon DEF Local, InCode
<1>10. t # Do("freeze")  BY <1>6, CodeRuns, Zenon
<1>11. /\ holder' \in [Lock -> Cpus \cup {Nobody}] /\ root' \in [Cpus -> Cpus]
       /\ \A d \in Cpus \ {c} : root'[d] = root[d]
       /\ \A d \in Cpus \ {c} : \A m \in Lock : holder'[m] = d <=> holder[m] = d
  BY <1>1, <1>2, Zenon DEF Types
<1>12. Booting(c)  BY <1>1, <1>2, <1>3 DEF Booting, Types
<1>13. QED  BY <1>1, <1>5, <1>9, <1>10, <1>11, <1>12, CodeStepInv, Zenon

LEMMA EnterInv ==
  ASSUME IInv, NEW c \in Cpus, Enter(c)
  PROVE  IInv'
<1>1. Next1(c, "call")  BY Zenon DEF Enter
<1>2. PICK b \in Bodies(c, Head(todo[c]).f) : todo' = [todo EXCEPT ![c] = b \o Tail(todo[c])]
  BY Zenon DEF Enter, Then
<1>3. /\ UNCHANGED <<lapic, early, nmi, panicked, said>> /\ boot' = boot
      /\ holder' = holder /\ root' = root
  BY Zenon DEF Enter, bootVars
<1>4. Local(c) /\ Types  BY Zenon DEF IInv
<1>5. Head(todo[c]).do = "call"  BY <1>1, Zenon DEF Next1
<1>6. \A k \in 1 .. 7 : panic[k].do # "call"
  <2>1. \A k \in 1 .. 7 : k = 1 \/ k \in {2, 5} \/ k \in {3, 6} \/ k \in {4, 7}  OBVIOUS
  <2>2. QED  BY <2>1, PanicIs
<1>7. /\ ~Frozen(c) /\ c \notin panicked /\ Head(todo[c]) \in CodeStep
      /\ \E r \in Cpus : \E z \in Point(c) :
           /\ Allowed(Head(todo[c]), Now(c), z)
           /\ Valid(c, Tail(todo[c]), z, At({}, r))
  BY <1>1, <1>4, <1>5, <1>6, Kind, Zenon
<1>8. PICK r \in Cpus, z \in Point(c) :
        Allowed(Head(todo[c]), Now(c), z) /\ Valid(c, Tail(todo[c]), z, At({}, r))
  BY <1>7, Zenon
<1>9. /\ Head(todo[c]) \in Calling /\ MayCall(Head(todo[c]).f, Now(c)) /\ z = Now(c)
      /\ Head(todo[c]).f \in Callee
  BY <1>5, <1>8 DEF Allowed, Locking, Unlocking, Using, Calling, Marking
<1>10. Now(c) \in Point(c) /\ Now(c).root = root[c]  BY <1>4, <1>9, NowIs, Zenon
<1>11. Valid(c, b, Now(c), Now(c))  BY <1>2, <1>9, <1>10, CalleeValid, Zenon
<1>12. Valid(c, b \o Tail(todo[c]), Now(c), At({}, r))
  BY <1>8, <1>9, <1>11, ValidConcat, Zenon
<1>13. /\ todo'[c] = b \o Tail(todo[c]) /\ Now(c)' = Now(c) /\ c \notin panicked'
  BY <1>2, <1>3, <1>4, <1>7, Zenon DEF Types, Now
<1>14. Local(c)'  BY <1>12, <1>13, Zenon DEF Local, InCode
<1>15. b \o Tail(todo[c]) # Do("freeze")  BY <1>12, CodeRuns, Zenon
<1>16. /\ holder' \in [Lock -> Cpus \cup {Nobody}] /\ root' \in [Cpus -> Cpus]
       /\ \A d \in Cpus \ {c} : root'[d] = root[d]
       /\ \A d \in Cpus \ {c} : \A l \in Lock : holder'[l] = d <=> holder[l] = d
  BY <1>3, <1>4, Zenon DEF Types
<1>17. Booting(c)  BY <1>1, <1>3, <1>4, BootKept, Zenon
<1>18. QED  BY <1>2, <1>3, <1>7, <1>14, <1>15, <1>16, <1>17, CodeStepInv, Zenon

LEMMA AcquireInv ==
  ASSUME IInv, NEW c \in Cpus, Acquire(c)
  PROVE  IInv'
<1> DEFINE s == Head(todo[c])
           t == Tail(todo[c])
           l == s.on
<1>1. /\ Next1(c, "lock") /\ holder[l] = Nobody /\ holder' = [holder EXCEPT ![l] = c]
      /\ todo' = [todo EXCEPT ![c] = t] /\ root' = root
      /\ UNCHANGED <<lapic, early, nmi, panicked, said>> /\ boot' = boot
  BY Zenon DEF Acquire, Then, bootVars
<1>2. Local(c) /\ Types  BY Zenon DEF IInv
<1>3. s.do = "lock"  BY <1>1, Zenon DEF Next1
<1>4. todo'[c] = t /\ panicked' = panicked /\ root'[c] = root[c]
  BY <1>1, <1>2, Zenon DEF Types
<1>5. SERIAL \in Lock  BY SharedRank, Zenon DEF Shared
<1>6. /\ l \in Lock /\ ~Frozen(c) /\ Local(c)'
      /\ c \notin panicked => t # Do("freeze")
      /\ c \in panicked => todo[c] # panic
  <2>1. CASE c \notin panicked
    <3>1. PICK r \in Cpus, z \in Point(c) :
            Allowed(s, Now(c), z) /\ Valid(c, t, z, At({}, r))
      BY <1>1, <1>2, <2>1, Kind, Zenon
    <3>2. l \in Lock /\ z = At(Now(c).held \cup {l}, Now(c).root)
      <4> HIDE DEF s, t
      <4>1. QED  BY <1>3, <3>1 DEF Allowed, Locking, Unlocking, Using, Calling, Marking
    <3> HIDE DEF s, t, l
    <3>3. holder'[l] = c /\ \A m \in Lock \ {l} : holder'[m] = holder[m]
      BY <1>1, <1>2, <3>2, Zenon DEF Types
    <3>4. {m \in Lock : holder'[m] = c} = {m \in Lock : holder[m] = c} \cup {l}
      BY <3>2, <3>3, Zenon
    <3>5. Now(c)' = z  BY <1>2, <1>4, <3>2, <3>4, NowIs, Zenon DEF Now
    <3>6. Local(c)'  BY <1>4, <2>1, <3>1, <3>5, Zenon DEF Local, InCode
    <3>7. t # Do("freeze")  BY <3>1, CodeRuns, Zenon
    <3>8. ~Frozen(c)  BY <1>1, <1>2, Kind, Zenon
    <3>9. QED  BY <2>1, <3>2, <3>6, <3>7, <3>8, Zenon
  <2>2. CASE c \in panicked
    <3>1. PICK k \in 1 .. 7 : Panicking(c, k) /\ s = panic[k] /\ t = SubSeq(panic, k + 1, 8)
      BY <1>1, <1>2, <2>2, Kind, Zenon
    <3>2. k \in {2, 5}
      <4>1. k = 1 \/ k \in {2, 5} \/ k \in {3, 6} \/ k \in {4, 7}  OBVIOUS
      <4> HIDE DEF s
      <4>2. QED  BY <1>3, <3>1, <4>1, PanicIs
    <3>3. l = SERIAL
      <4> HIDE DEF s
      <4>1. QED  BY <3>1, <3>2, PanicIs
    <3> HIDE DEF s, t, l
    <3>4. holder'[SERIAL] = c  BY <1>1, <1>2, <1>5, <3>3, Zenon DEF Types
    <3>5. Local(c)'  BY <1>4, <2>2, <3>1, <3>4, PanicNext, Zenon
    <3>6. todo[c] # panic
      <4>1. k # 1  BY <3>2
      <4>2. QED  BY <3>1, <4>1, PanicSuffix, Zenon DEF Panicking
    <3>7. ~Frozen(c)  BY <1>1, <1>2, Kind, Zenon
    <3>8. QED  BY <1>5, <2>2, <3>3, <3>5, <3>6, <3>7, Zenon
  <2>3. QED  BY <2>1, <2>2, Zenon
<1> HIDE DEF s, t, l
<1>7. /\ holder' \in [Lock -> Cpus \cup {Nobody}] /\ root' \in [Cpus -> Cpus]
      /\ \A d \in Cpus \ {c} : root'[d] = root[d]
  BY <1>1, <1>2, <1>6, Zenon DEF Types
<1>8. \A d \in Cpus \ {c} : \A m \in Lock : holder'[m] = d <=> holder[m] = d
  BY <1>1, <1>2, CpusAssumption, Zenon DEF Types
<1>9. Booting(c)  BY <1>1, <1>2, BootKept, Zenon
<1>10. QED  BY <1>1, <1>6, <1>7, <1>8, <1>9, CodeStepInv, Zenon

LEMMA ReleaseInv ==
  ASSUME IInv, NEW c \in Cpus, Release(c)
  PROVE  IInv'
<1> DEFINE s == Head(todo[c])
           t == Tail(todo[c])
           l == s.on
<1>1. /\ Next1(c, "unlock") /\ holder' = [holder EXCEPT ![l] = Nobody]
      /\ todo' = [todo EXCEPT ![c] = t] /\ root' = root
      /\ UNCHANGED <<lapic, early, nmi, panicked, said>> /\ boot' = boot
  BY Zenon DEF Release, Then, bootVars
<1>2. Local(c) /\ Types  BY Zenon DEF IInv
<1>3. s.do = "unlock"  BY <1>1, Zenon DEF Next1
<1>4. todo'[c] = t /\ panicked' = panicked /\ root'[c] = root[c]
  BY <1>1, <1>2, Zenon DEF Types
<1>5. SERIAL \in Lock  BY SharedRank, Zenon DEF Shared
<1>6. /\ l \in Lock /\ holder[l] = c /\ ~Frozen(c) /\ Local(c)'
      /\ c \notin panicked => t # Do("freeze")
      /\ c \in panicked => todo[c] # panic
  <2>1. CASE c \notin panicked
    <3>1. PICK r \in Cpus, z \in Point(c) :
            Allowed(s, Now(c), z) /\ Valid(c, t, z, At({}, r))
      BY <1>1, <1>2, <2>1, Kind, Zenon
    <3>2. l \in Now(c).held /\ z = At(Now(c).held \ {l}, Now(c).root)
      <4> HIDE DEF s, t
      <4>1. QED  BY <1>3, <3>1 DEF Allowed, Locking, Unlocking, Using, Calling, Marking
    <3> HIDE DEF s, t, l
    <3>3. l \in Lock /\ holder[l] = c  BY <1>2, <3>2, NowIs, Zenon
    <3>4. holder'[l] = Nobody /\ \A m \in Lock \ {l} : holder'[m] = holder[m]
      BY <1>1, <1>2, <3>3, Zenon DEF Types
    <3>5. {m \in Lock : holder'[m] = c} = {m \in Lock : holder[m] = c} \ {l}
      BY <3>3, <3>4, CpusAssumption, Zenon
    <3>6. Now(c)' = z  BY <1>2, <1>4, <3>2, <3>5, NowIs, Zenon DEF Now
    <3>7. Local(c)'  BY <1>4, <2>1, <3>1, <3>6, Zenon DEF Local, InCode
    <3>8. t # Do("freeze")  BY <3>1, CodeRuns, Zenon
    <3>9. ~Frozen(c)  BY <1>1, <1>2, Kind, Zenon
    <3>10. QED  BY <2>1, <3>3, <3>7, <3>8, <3>9, Zenon
  <2>2. CASE c \in panicked
    <3>1. PICK k \in 1 .. 7 : Panicking(c, k) /\ s = panic[k] /\ t = SubSeq(panic, k + 1, 8)
      BY <1>1, <1>2, <2>2, Kind, Zenon
    <3>2. k \in {4, 7}
      <4>1. k = 1 \/ k \in {2, 5} \/ k \in {3, 6} \/ k \in {4, 7}  OBVIOUS
      <4> HIDE DEF s
      <4>2. QED  BY <1>3, <3>1, <4>1, PanicIs
    <3>3. l = SERIAL
      <4> HIDE DEF s
      <4>1. QED  BY <3>1, <3>2, PanicIs
    <3> HIDE DEF s, t, l
    <3>4. k \in {3, 4, 6, 7} /\ k \notin {2, 3, 5, 6} /\ k # 1  BY <3>2
    <3>5. holder[SERIAL] = c  BY <3>1, <3>4, Zenon DEF Panicking
    <3>6. Local(c)'  BY <1>4, <2>2, <3>1, <3>4, PanicNext, Zenon
    <3>7. todo[c] # panic  BY <3>1, <3>4, PanicSuffix, Zenon DEF Panicking
    <3>8. ~Frozen(c)  BY <1>1, <1>2, Kind, Zenon
    <3>9. QED  BY <1>5, <2>2, <3>3, <3>5, <3>6, <3>7, <3>8, Zenon
  <2>3. QED  BY <2>1, <2>2, Zenon
<1> HIDE DEF s, t, l
<1>7. /\ holder' \in [Lock -> Cpus \cup {Nobody}] /\ root' \in [Cpus -> Cpus]
      /\ \A d \in Cpus \ {c} : root'[d] = root[d]
  BY <1>1, <1>2, <1>6, Zenon DEF Types
<1>8. \A d \in Cpus \ {c} : \A m \in Lock : holder'[m] = d <=> holder[m] = d
  BY <1>1, <1>2, <1>6, CpusAssumption, Zenon DEF Types
<1>9. Booting(c)  BY <1>1, <1>2, BootKept, Zenon
<1>10. QED  BY <1>1, <1>6, <1>7, <1>8, <1>9, CodeStepInv, Zenon

LEMMA UseRootInv ==
  ASSUME IInv, NEW c \in Cpus, UseRoot(c)
  PROVE  IInv'
<1> DEFINE s == Head(todo[c])
           t == Tail(todo[c])
<1>1. /\ Next1(c, "use") /\ root' = [root EXCEPT ![c] = s.root]
      /\ todo' = [todo EXCEPT ![c] = t] /\ holder' = holder
      /\ UNCHANGED <<lapic, early, nmi, panicked, said>> /\ boot' = boot
  BY Zenon DEF UseRoot, Then, bootVars
<1>2. Local(c) /\ Types  BY Zenon DEF IInv
<1>3. s.do = "use"  BY <1>1, Zenon DEF Next1
<1>4. \A k \in 1 .. 7 : panic[k].do # "use"
  <2>1. \A k \in 1 .. 7 : k = 1 \/ k \in {2, 5} \/ k \in {3, 6} \/ k \in {4, 7}  OBVIOUS
  <2>2. QED  BY <2>1, PanicIs
<1>5. c \notin panicked /\ ~Frozen(c)  BY <1>1, <1>2, <1>3, <1>4, Kind, Zenon
<1>6. PICK r \in Cpus, z \in Point(c) : Allowed(s, Now(c), z) /\ Valid(c, t, z, At({}, r))
  BY <1>1, <1>2, <1>5, Kind, Zenon
<1> HIDE DEF s, t
<1>7. s.root \in Cpus /\ z = At(Now(c).held, s.root)
  BY <1>3, <1>6 DEF Allowed, Locking, Unlocking, Using, Calling, Marking
<1>8. todo'[c] = t /\ c \notin panicked' /\ root'[c] = s.root
  BY <1>1, <1>2, <1>5, Zenon DEF Types
<1>9. Now(c)' = z  BY <1>1, <1>2, <1>7, <1>8, NowIs, Zenon DEF Now
<1>10. Local(c)'  BY <1>6, <1>8, <1>9, Zenon DEF Local, InCode
<1>11. t # Do("freeze")  BY <1>6, CodeRuns, Zenon
<1>12. /\ holder' \in [Lock -> Cpus \cup {Nobody}] /\ root' \in [Cpus -> Cpus]
       /\ \A d \in Cpus \ {c} : root'[d] = root[d]
       /\ \A d \in Cpus \ {c} : \A m \in Lock : holder'[m] = d <=> holder[m] = d
  BY <1>1, <1>2, <1>7, Zenon DEF Types
<1>13. Booting(c)  BY <1>1, <1>2, BootKept, Zenon
<1>14. QED  BY <1>1, <1>5, <1>10, <1>11, <1>12, <1>13, CodeStepInv, Zenon

\* Of the steps of a panic, which are the first and those that write.
LEMMA PanicKind ==
  ASSUME NEW c \in Cpus, Local(c), NEW what \in {"stop", "say"}, Next1(c, what)
  PROVE  /\ c \in panicked /\ ~Frozen(c)
         /\ \E k \in 1 .. 7 :
              /\ Panicking(c, k) /\ Tail(todo[c]) = SubSeq(panic, k + 1, 8)
              /\ IF what = "stop" THEN k = 1 ELSE k \in {3, 6}
<1>1. Head(todo[c]).do = what /\ what # "freeze"  BY Zenon DEF Next1
<1>2. Head(todo[c]) \notin CodeStep
  BY <1>1 DEF CodeStep, Locking, Unlocking, Calling, Using, Marking
<1>3. PICK k \in 1 .. 7 : /\ Panicking(c, k) /\ Head(todo[c]) = panic[k]
                          /\ Tail(todo[c]) = SubSeq(panic, k + 1, 8)
  BY <1>1, <1>2, Kind, Zenon
<1>4. IF what = "stop" THEN k = 1 ELSE k \in {3, 6}
  <2>1. k = 1 \/ k \in {2, 5} \/ k \in {3, 6} \/ k \in {4, 7}  OBVIOUS
  <2>2. QED  BY <1>1, <1>3, <2>1, PanicIs
<1>5. QED  BY <1>1, <1>2, <1>3, <1>4, Kind, Zenon

LEMMA SayInv ==
  ASSUME IInv, NEW c \in Cpus, Say(c)
  PROVE  IInv'
<1> DEFINE t == Tail(todo[c])
<1>1. /\ Next1(c, "say") /\ said' = [said EXCEPT ![c] = @ + 1]
      /\ todo' = [todo EXCEPT ![c] = t]
      /\ UNCHANGED <<holder, root, lapic, early, nmi, panicked>> /\ boot' = boot
  BY Zenon DEF Say, Then, bootVars
<1>2. Local(c) /\ Types  BY Zenon DEF IInv
<1>3. PICK k \in 1 .. 7 :
        Panicking(c, k) /\ t = SubSeq(panic, k + 1, 8) /\ k \in {3, 6}
  BY <1>1, <1>2, PanicKind, Zenon
<1>4. c \in panicked /\ ~Frozen(c)  BY <1>1, <1>2, PanicKind, Zenon
<1> HIDE DEF t
<1>5. k \in {3, 4, 6, 7} /\ k # 1  BY <1>3
<1>6. todo[c] # panic  BY <1>3, <1>5, PanicSuffix, Zenon DEF Panicking
<1>7. (lapic' <=> lapic) /\ (early' <=> early) /\ boot' = boot  BY <1>1
<1>8. /\ todo'[c] = t /\ c \in panicked' /\ panicked' = panicked /\ nmi' = nmi
      /\ holder' = holder /\ root' = root
      /\ \A d \in Cpus \ {c} : said'[d] = said[d]
  BY <1>1, <1>2, <1>4, Zenon DEF Types
<1>9. Alone' /\ Calm' /\ Covered'
  <2>1. Booting(c)  BY <1>1, <1>2, BootKept, Zenon
  <2>2. QED  BY <1>1, <1>4, <1>6, <1>7, <1>8, <2>1, OthersKept, Zenon
<1>10. Types'  BY <1>1, <1>2 DEF Types
<1>11. Local(c)'  BY <1>3, <1>5, <1>8, PanicNext, Zenon DEF Panicking
<1>12. ASSUME NEW d \in Cpus  PROVE Local(d)'
  <2>1. CASE d = c  BY <1>11, <2>1, Zenon
  <2>2. CASE d # c
    <3>1. todo'[d] = todo[d]  BY <1>1, <1>2, <2>2, Zenon DEF Types
    <3>2. QED  BY <1>8, <2>2, <3>1, LocalKept, Zenon DEF IInv
  <2>3. QED  BY <2>1, <2>2, Zenon
<1>13. QED  BY <1>9, <1>10, <1>12, Zenon DEF IInv

LEMMA StopOthersInv ==
  ASSUME IInv, NEW c \in Cpus, StopOthers(c)
  PROVE  IInv'
<1> DEFINE t == Tail(todo[c])
<1>1. /\ Next1(c, "stop") /\ nmi' = IF lapic THEN nmi \cup (Cpus \ {c}) ELSE nmi
      /\ todo' = [todo EXCEPT ![c] = t]
      /\ UNCHANGED <<holder, root, lapic, early, panicked, said>> /\ boot' = boot
  BY Zenon DEF StopOthers, Then, bootVars
<1>2. Local(c) /\ Types  BY Zenon DEF IInv
<1>3. PICK k \in 1 .. 7 : Panicking(c, k) /\ t = SubSeq(panic, k + 1, 8) /\ k = 1
  BY <1>1, <1>2, PanicKind, Zenon
<1>4. c \in panicked /\ ~Frozen(c)  BY <1>1, <1>2, PanicKind, Zenon
<1> HIDE DEF t
<1>5. k \notin {2, 3, 5, 6}  BY <1>3
<1>6. (lapic' <=> lapic) /\ (early' <=> early) /\ boot' = boot  BY <1>1
<1>7. /\ todo'[c] = t /\ c \in panicked' /\ panicked' = panicked /\ said' = said
      /\ holder' = holder /\ root' = root
      /\ \A d \in Cpus \ {c} : todo'[d] = todo[d]
  BY <1>1, <1>2, <1>4, Zenon DEF Types
<1>8. /\ nmi \subseteq nmi' /\ nmi' \subseteq Cpus
      /\ lapic => \A d \in Cpus \ {c} : d \in nmi'
  BY <1>1, <1>2, Zenon DEF Types
<1>9. Types'  BY <1>1, <1>2, <1>8 DEF Types
<1>10. ASSUME NEW d \in Cpus  PROVE Local(d)'
  <2>1. CASE d = c  BY <1>3, <1>5, <1>7, <2>1, PanicNext, Zenon
  <2>2. CASE d # c  BY <1>7, <2>2, LocalKept, Zenon DEF IInv
  <2>3. QED  BY <2>1, <2>2, Zenon
<1>11. Alone' /\ Calm'
  <2>1. todo[c] # <<>> /\ (~lapic => nmi' = nmi)  BY <1>1, Zenon DEF Next1
  <2>2. ~lapic => c = Bsp  BY <2>1, Zenon DEF IInv, Alone
  <2>3. QED  BY <1>4, <1>6, <1>7, <2>1, <2>2, Zenon DEF IInv, Alone, Calm
<1>12. Covered'
  <2> SUFFICES ASSUME lapic, NEW e \in panicked, Began(e)', NEW d \in Cpus \ {e}
               PROVE  Stopped(d)'
    BY <1>6, <1>7, Zenon DEF Covered
  <2>1. CASE d # c  BY <1>8, <2>1, Zenon DEF Stopped
  <2>2. CASE d = c
    <3>1. e \in Cpus \ {c}  BY <1>2, <2>2, Zenon DEF Types
    <3>2. Began(e)  BY <1>7, <3>1, Zenon DEF Began, Frozen
    <3>3. Stopped(d)  BY <3>2, Zenon DEF IInv, Covered
    <3>4. QED  BY <1>4, <1>8, <2>2, <3>3, Zenon DEF Stopped
  <2>3. QED  BY <2>1, <2>2, Zenon
<1>13. QED  BY <1>9, <1>10, <1>11, <1>12, Zenon DEF IInv

\* A CPU at the first step of its panic has said nothing.
LEMMA PanicSilent ==
  ASSUME NEW c \in Cpus, Local(c), c \in panicked, todo[c] = panic
  PROVE  said[c] = 0
<1>1. panic # Do("freeze")
  <2>1. 1 \in 1 .. 7  OBVIOUS
  <2>2. QED  BY <2>1, PanicSuffix, Zenon
<1>2. PICK k \in 1 .. 7 : Panicking(c, k)  BY <1>1, Zenon DEF Local, Frozen
<1>3. k = 1  BY <1>2, PanicSuffix, Zenon DEF Panicking
<1>4. QED  BY <1>2, <1>3, Zenon DEF Panicking

LEMMA PanicInv ==
  ASSUME IInv, NEW c \in Cpus, Panic(c)
  PROVE  IInv'
<1>1. /\ c \in Running \ panicked /\ ~Frozen(c) /\ panicked' = panicked \cup {c}
      /\ todo' = [todo EXCEPT ![c] = panic]
      /\ UNCHANGED <<holder, root, lapic, early, nmi, said>> /\ boot' = boot
  BY Zenon DEF Panic, Then, bootVars
<1>2. Types  BY Zenon DEF IInv
<1>3. (lapic' <=> lapic) /\ (early' <=> early) /\ boot' = boot  BY <1>1
<1>4. /\ todo'[c] = panic /\ said' = said /\ holder' = holder /\ root' = root /\ nmi' = nmi
      /\ \A d \in Cpus \ {c} : todo'[d] = todo[d]
  BY <1>1, <1>2, Zenon DEF Types
<1>5. Types'  BY <1>1, <1>2 DEF Types
<1>6. Local(c)'
  <2>1. said[c] = 0  BY <1>1, Zenon DEF IInv, Calm
  <2>2. 1 \in 1 .. 7 /\ 1 \notin {3, 4, 6, 7}  OBVIOUS
  <2>3. Panicking(c, 1)'  BY <1>4, <2>1, <2>2, PanicSuffix, Zenon DEF Panicking
  <2>4. QED  BY <1>1, <2>2, <2>3, Zenon DEF Local
<1>7. ASSUME NEW d \in Cpus  PROVE Local(d)'
  <2>1. CASE d = c  BY <1>6, <2>1, Zenon
  <2>2. CASE d # c
    <3>1. d \in panicked' <=> d \in panicked  BY <1>1, <2>2, Zenon
    <3>2. QED  BY <1>4, <2>2, <3>1, LocalKept, Zenon DEF IInv
  <2>3. QED  BY <2>1, <2>2, Zenon
<1>8. Alone'
  <2>1. ~lapic => c = Bsp  BY <1>1 DEF Running, IInv, Alone
  <2>2. QED  BY <1>1, <1>3, <1>4, <2>1, Zenon DEF IInv, Alone
<1>9. Calm'  BY <1>1, <1>4, Zenon DEF IInv, Calm
<1>10. Covered'
  <2> SUFFICES ASSUME lapic, NEW e \in panicked', Began(e)', NEW d \in Cpus \ {e}
               PROVE  Stopped(d)'
    BY <1>3, Zenon DEF Covered
  <2>1. e # c  BY <1>4, Zenon DEF Began
  <2>2. e \in panicked /\ e \in Cpus \ {c}  BY <1>1, <1>2, <2>1, Zenon DEF Types
  <2>3. Began(e)  BY <1>4, <2>2, Zenon DEF Began, Frozen
  <2>4. Stopped(d)  BY <2>2, <2>3, Zenon DEF IInv, Covered
  <2>5. d # c => (Frozen(d)' <=> Frozen(d))  BY <1>4, Zenon DEF Frozen
  <2>6. QED  BY <1>1, <1>4, <2>4, <2>5, Zenon DEF Stopped
<1>11. QED  BY <1>5, <1>7, <1>8, <1>9, <1>10, Zenon DEF IInv

LEMMA TakeNmiInv ==
  ASSUME IInv, NEW c \in Cpus, TakeNmi(c)
  PROVE  IInv'
<1>1. /\ c \in nmi /\ nmi' = nmi \ {c} /\ todo' = [todo EXCEPT ![c] = Do("freeze")]
      /\ UNCHANGED <<holder, root, lapic, early, panicked, said>> /\ boot' = boot
  BY Zenon DEF TakeNmi, Then, bootVars
<1>2. Types /\ Local(c)  BY Zenon DEF IInv
<1>3. (lapic' <=> lapic) /\ (early' <=> early) /\ boot' = boot  BY <1>1
<1>4. /\ todo'[c] = Do("freeze") /\ said' = said /\ holder' = holder /\ root' = root
      /\ panicked' = panicked
      /\ \A d \in Cpus \ {c} : todo'[d] = todo[d]
  BY <1>1, <1>2, Zenon DEF Types
<1>5. Types'  BY <1>1, <1>2 DEF Types
<1>6. Frozen(c)' /\ \A d \in Cpus \ {c} : Frozen(d)' <=> Frozen(d)
  BY <1>4, Zenon DEF Frozen
<1>7. ASSUME NEW d \in Cpus  PROVE Local(d)'
  <2>1. CASE d = c  BY <1>6, <2>1, Zenon DEF Local
  <2>2. CASE d # c  BY <1>4, <2>2, LocalKept, Zenon DEF IInv
  <2>3. QED  BY <2>1, <2>2, Zenon
<1>8. Alone'  BY <1>1, <1>3, Zenon DEF IInv, Alone
<1>9. Calm'  BY <1>1, <1>4, Zenon DEF IInv, Calm
<1>10. Covered'
  <2> SUFFICES ASSUME lapic, NEW e \in panicked, Began(e)', NEW d \in Cpus \ {e}
               PROVE  Stopped(d)'
    BY <1>3, <1>4, Zenon DEF Covered
  <2>1. CASE d = c  BY <1>6, <2>1, Zenon DEF Stopped
  <2>2. CASE d # c
    <3>1. Began(e)
      <4>1. CASE e = c
        <5>1. said[e] > 0  BY <1>4, <1>6, <4>1, Zenon DEF Began
        <5>2. said[e] # 0  BY <5>1
        <5>3. todo[e] # panic  BY <1>2, <4>1, <5>2, PanicSilent, Zenon
        <5>4. QED  BY <5>1, <5>3, Zenon DEF Began
      <4>2. CASE e # c
        <5>1. e \in Cpus \ {c}  BY <1>2, <4>2, Zenon DEF Types
        <5>2. QED  BY <1>4, <1>6, <5>1, Zenon DEF Began
      <4>3. QED  BY <4>1, <4>2, Zenon
    <3>2. Stopped(d)  BY <3>1, Zenon DEF IInv, Covered
    <3>3. QED  BY <1>1, <1>6, <2>2, <3>2, Zenon DEF Stopped
  <2>3. QED  BY <2>1, <2>2, Zenon
<1>11. QED  BY <1>5, <1>7, <1>8, <1>9, <1>10, Zenon DEF IInv

LEMMA AcpiSetupInv ==
  ASSUME IInv, AcpiSetup
  PROVE  IInv'
<1>1. /\ ~lapic /\ todo[Bsp] = <<>> /\ lapic' = TRUE
      /\ todo' = todo /\ holder' = holder /\ root' = root /\ nmi' = nmi
      /\ panicked' = panicked /\ said' = said /\ boot' = boot /\ early' = early
  BY Zenon DEF AcpiSetup
<1>2. panicked = {}
  <2>1. Bsp \notin panicked
    <3>1. Local(Bsp)  BY CpusAssumption, Zenon DEF IInv
    <3>2. QED  BY <1>1, <3>1, FreezeIs, PanicSuffix, Zenon DEF Local, Frozen, Panicking
  <2>2. QED  BY <1>1, <2>1, Zenon DEF IInv, Alone, Types
<1>3. Types'  BY <1>1 DEF IInv, Types
<1>4. \A d \in Cpus : Local(d)'  BY <1>1, LocalKept, Zenon DEF IInv
<1>5. Calm'  BY <1>1, Zenon DEF IInv, Calm, Frozen
<1>6. Alone'  BY <1>1, Zenon DEF Alone
<1>7. Covered'  BY <1>1, <1>2, Zenon DEF Covered
<1>8. QED  BY <1>3, <1>4, <1>5, <1>6, <1>7, Zenon DEF IInv

LEMMA EndEarlyInv ==
  ASSUME IInv, EndEarly
  PROVE  IInv'
<1>1. /\ lapic /\ early' = FALSE
      /\ todo' = todo /\ holder' = holder /\ root' = root /\ nmi' = nmi
      /\ panicked' = panicked /\ said' = said /\ boot' = boot /\ lapic' = lapic
  BY Zenon DEF EndEarly
<1>2. lapic'  BY <1>1
<1>3. Types'  BY <1>1, <1>2, Zenon DEF IInv, Types
<1>4. \A d \in Cpus : Local(d)'  BY <1>1, LocalKept, Zenon DEF IInv
<1>5. Calm' /\ Alone'  BY <1>1, <1>2, Zenon DEF IInv, Calm, Frozen, Alone
<1>6. Covered'
  BY <1>1, Zenon DEF IInv, Covered, Began, Stopped, Frozen
<1>7. QED  BY <1>3, <1>4, <1>5, <1>6, Zenon DEF IInv

LEMMA InvNext == IInv /\ [Next]_vars => IInv'
<1> SUFFICES ASSUME IInv, [Next]_vars  PROVE IInv'  OBVIOUS
<1>1. CASE AcpiSetup \/ EndEarly  BY <1>1, AcpiSetupInv, EndEarlyInv, Zenon
<1>2. ASSUME NEW c \in Cpus,
             StartCpu(c) \/ ApStart(c) \/ Begin(c) \/ Step(c) \/ Panic(c)
      PROVE  IInv'
  BY <1>2, StartCpuInv, ApStartInv, BeginInv, EnterInv, AcquireInv, ReleaseInv,
     UseRootInv, ReadyInv, StopOthersInv, SayInv, TakeNmiInv, PanicInv, Zenon DEF Step
<1>3. CASE UNCHANGED vars
  <2>1. /\ todo' = todo /\ holder' = holder /\ root' = root /\ nmi' = nmi
        /\ panicked' = panicked /\ said' = said /\ lapic' = lapic
        /\ boot' = boot /\ early' = early
    BY <1>3, Zenon DEF vars
  <2>2. (lapic' <=> lapic) /\ (early' <=> early)  BY <2>1
  <2>3. \A d \in Cpus : Local(d)'  BY <2>1, LocalKept, Zenon DEF IInv
  <2>4. Types'  BY <2>1 DEF IInv, Types
  <2>5. Alone' /\ Calm'  BY <2>1, <2>2, Zenon DEF IInv, Alone, Calm, Frozen
  <2>6. Covered'
    BY <2>1, <2>2, Zenon DEF IInv, Covered, Began, Stopped, Frozen
  <2>7. QED  BY <2>3, <2>4, <2>5, <2>6, Zenon DEF IInv
<1>4. QED  BY <1>1, <1>2, <1>3, Zenon DEF Next
-----------------------------------------------------------------------------
(* The properties.                                                         *)

\* A CPU that waits in the code waits for a lock it may take: not one it has,
\* and a shared one comes after those it has.
LEMMA Waiting ==
  ASSUME IInv, panicked = {}, NEW c \in Cpus, NEW d \in Cpus, Blocks(d, c)
  PROVE  LET l == Head(todo[c]).on IN
         /\ l \in Lock /\ holder[l] = d /\ d # c
         /\ l \in Shared \cup {ACTIVE_TABLE(c), TableRoot(root[c])}
         /\ l \in Shared => \A m \in Shared : holder[m] = c => Rank(m) < Rank(l)
<1> DEFINE s == Head(todo[c])
           l == s.on
<1>1. Next1(c, "lock") /\ holder[l] = d  BY Zenon DEF Blocks
<1>2. Local(c) /\ Types  BY Zenon DEF IInv
<1>3. PICK z \in Point(c) : Allowed(s, Now(c), z)
  BY <1>1, <1>2, Kind, Zenon
<1>4. s.do = "lock"  BY <1>1, Zenon DEF Next1
<1> HIDE DEF s
<1>5. /\ l \in Lock /\ l \notin Now(c).held
      /\ l \in Shared => Below(Now(c), Rank(l))
      /\ z = At(Now(c).held \cup {l}, Now(c).root)
  BY <1>3, <1>4 DEF Allowed, Locking, Unlocking, Using, Calling, Marking
<1> HIDE DEF l
<1>6. Now(c).held = {m \in Lock : holder[m] = c} /\ Now(c).root = root[c]
  BY <1>2, NowIs, Zenon
<1>7. d # c  BY <1>1, <1>5, <1>6, Zenon
<1>8. l \in Shared \cup {ACTIVE_TABLE(c), TableRoot(root[c])}
  <2>1. z.held = Now(c).held \cup {l} /\ z.root = root[c]  BY <1>5, <1>6 DEF At
  <2>2. QED  BY <2>1, PointIs, Zenon
<1>9. ASSUME l \in Shared, NEW m \in Shared, holder[m] = c  PROVE Rank(m) < Rank(l)
  <2>1. m \in Now(c).held  BY <1>6, <1>9, SharedRank, Zenon
  <2>2. QED  BY <1>5, <1>9, <2>1, Zenon DEF Below
<1>10. QED  BY <1>1, <1>5, <1>7, <1>8, <1>9, Zenon DEF l, s

\* What a CPU in the code holds: shared locks, and those of its own table.
LEMMA Holding ==
  ASSUME IInv, panicked = {}, NEW d \in Cpus, NEW l \in Lock, holder[l] = d
  PROVE  l \in Shared \cup {ACTIVE_TABLE(d), TableRoot(root[d])}
<1>1. Local(d) /\ ~Frozen(d) /\ Types  BY Zenon DEF IInv, Calm
<1>2. PICK r \in Cpus : Valid(d, todo[d], Now(d), At({}, r))
  BY <1>1, Zenon DEF Local, InCode
<1>3. Now(d) \in Point(d)  BY <1>2, ValidEnds, Zenon
<1>4. l \in Now(d).held /\ Now(d).root = root[d]  BY <1>1, NowIs, Zenon
<1>5. QED  BY <1>3, <1>4, PointIs, Zenon

LEMMA NoCycle == IInv => NoWaitCycle
<1> SUFFICES ASSUME IInv, panicked = {},
                    \A c, d \in Cpus : c # d => root[c] # root[d],
                    NEW S \in (SUBSET Cpus) \ {{}},
                    \A c \in S : \E d \in S : Blocks(d, c)
             PROVE  FALSE
  BY Zenon DEF NoWaitCycle
<1> DEFINE W(c) == Head(todo[c]).on
<1>1. ASSUME NEW c \in S
      PROVE  \E d \in S : W(c) \in Shared /\ holder[W(c)] = d
  <2>1. PICK d \in S : Blocks(d, c)  BY Zenon
  <2>2. c \in Cpus /\ d \in Cpus  BY Zenon
  <2>3. /\ W(c) \in Lock /\ holder[W(c)] = d /\ d # c
        /\ W(c) \in Shared \cup {ACTIVE_TABLE(c), TableRoot(root[c])}
    BY <2>1, <2>2, Waiting, Zenon
  <2> HIDE DEF W
  <2>4. W(c) \in Shared \cup {ACTIVE_TABLE(d), TableRoot(root[d])}
    BY <2>2, <2>3, Holding, Zenon
  <2>5. root[c] \in Cpus /\ root[d] \in Cpus /\ root[c] # root[d]
    BY <2>2, <2>3, Zenon DEF IInv, Types
  <2>6. W(c) \in Shared  BY <2>2, <2>3, <2>4, <2>5, TableNames, Zenon
  <2>7. QED  BY <2>3, <2>6, Zenon
<1>2. ASSUME NEW c \in S  PROVE \E d \in S : Rank(W(c)) < Rank(W(d))
  <2>1. PICK d \in S : W(c) \in Shared /\ holder[W(c)] = d  BY <1>1, Zenon
  <2>2. W(d) \in Shared  BY <1>1, Zenon
  <2>3. PICK e \in S : Blocks(e, d)  BY Zenon
  <2>4. d \in Cpus /\ e \in Cpus  BY Zenon
  <2>5. \A m \in Shared : holder[m] = d => Rank(m) < Rank(W(d))
    BY <2>2, <2>3, <2>4, Waiting, Zenon
  <2>6. QED  BY <2>1, <2>5, Zenon
<1>3. \A c \in S : Rank(W(c)) \in 1 .. 6  BY <1>1, SharedRank, Zenon
<1> HIDE DEF W
<1>4. PICK c1 \in S : TRUE  OBVIOUS
<1>5. PICK c2 \in S : Rank(W(c1)) < Rank(W(c2))  BY <1>2, Zenon
<1>6. PICK c3 \in S : Rank(W(c2)) < Rank(W(c3))  BY <1>2, Zenon
<1>7. PICK c4 \in S : Rank(W(c3)) < Rank(W(c4))  BY <1>2, Zenon
<1>8. PICK c5 \in S : Rank(W(c4)) < Rank(W(c5))  BY <1>2, Zenon
<1>9. PICK c6 \in S : Rank(W(c5)) < Rank(W(c6))  BY <1>2, Zenon
<1>10. PICK c7 \in S : Rank(W(c6)) < Rank(W(c7))  BY <1>2, Zenon
<1>11. QED  BY <1>3, <1>5, <1>6, <1>7, <1>8, <1>9, <1>10

LEMMA Halts == IInv => HaltCovers
<1> SUFFICES ASSUME IInv, NEW c \in panicked, lapic, Next1(c, "lock") \/ said[c] > 0
             PROVE  \A d \in Cpus \ {c} : d \in nmi \/ Frozen(d)
  BY Zenon DEF HaltCovers
<1>1. c \in Cpus /\ Local(c)  BY Zenon DEF IInv, Types
<1>2. CASE Next1(c, "lock")
  <2>1. todo[c] # panic
    <3>1. 1 \in 1 .. 7  OBVIOUS
    <3>2. Head(panic) = panic[1]  BY <3>1, PanicSuffix, Zenon
    <3>3. Head(panic).do = "stop"  BY <3>2, PanicIs
    <3>4. QED  BY <1>2, <3>3, Zenon DEF Next1
  <2>2. ~Frozen(c)  BY <1>2, FreezeIs, Zenon DEF Next1, Frozen
  <2>3. QED  BY <2>1, <2>2, Zenon DEF IInv, Covered, Began, Stopped
<1>3. CASE said[c] > 0
  <2>1. said[c] # 0  BY <1>3
  <2>2. todo[c] # panic  BY <1>1, <2>1, PanicSilent, Zenon
  <2>3. QED  BY <1>3, <2>2, Zenon DEF IInv, Covered, Began, Stopped
<1>4. QED  BY <1>2, <1>3, Zenon

\* The invariant holds in every state.
THEOREM Inductive == Spec => []IInv
BY InvInit, InvNext, PTL DEF Spec

\* As long as nobody has panicked and each CPU uses a root table of its own, no
\* CPUs wait for each other's spinlocks, and none for its own, through the
\* faults that happen while locks are held.
THEOREM WaitHolds == Spec => []NoWaitCycle
BY Inductive, NoCycle, PTL

\* When a panic begins to write, halt_other_core has stopped every other CPU, or
\* an NMI is on its way to it, however many CPUs panic at once.
THEOREM HaltHolds == Spec => []HaltCovers
BY Inductive, Halts, PTL
=============================================================================
