------------------------------ MODULE VmaSpace ------------------------------
(***************************************************************************)
(* What the virtual memory allocator promises its callers: a range that is *)
(* as many pages as the requested bytes need, inside the arena, and        *)
(* disjoint from every range in use, until the caller gives it back.  Vmm  *)
(* implements it.                                                          *)
(***************************************************************************)
EXTENDS Integers

CONSTANTS
  Pages,      \* pages in the arena
  PageSize,   \* bytes in a page
  Sizes       \* sizes callers ask for, in bytes

VARIABLE live   \* the ranges in use

RangeOf(start, end) == [start |-> start, end |-> end]

Disjoint(r, s) == r.end <= s.start \/ s.end <= r.start

Init == live = {}

Acquire(start, end) ==
  /\ \E size \in Sizes :
       /\ (end - start) * PageSize >= size
       /\ (end - start - 1) * PageSize < size
  /\ \A r \in live : Disjoint(RangeOf(start, end), r)
  /\ live' = live \cup {RangeOf(start, end)}

Release(r) == live' = live \ {r}

Next ==
  \/ \E start, end \in 0 .. Pages : start < end /\ Acquire(start, end)
  \/ \E r \in live : Release(r)

Spec == Init /\ [][Next]_live
=============================================================================
