---------------------------- MODULE MCFrameSetup ----------------------------
(***************************************************************************)
(* The memory maps of up to three entries over a small physical memory     *)
(* that keep the protocol.  Entries of the kernel and reserved ones start  *)
(* and end in the middle of a page, or at its beginning, and overlap.      *)
(***************************************************************************)
EXTENDS FrameSetup

CONSTANT Pages   \* pages of physical memory

Piece(a, b, typ) == [base |-> a, len |-> b - a, typ |-> typ]

\* Page boundaries, and addresses between them.
Aligned == {a * PageSize : a \in 0 .. Pages}
Between == {a * PageSize + 1 : a \in 0 .. Pages - 1}

Pieces ==
  {Piece(x[1], x[2], x[3]) : x \in
     {x \in (Aligned \X Aligned \X {"Usable", "BootloaderReclaimable"})
            \cup (Between \X Aligned \X {"KernelAndModules"})
            \cup (Aligned \X Between \X {"KernelAndModules", "Reserved"})
            \cup ({1} \X {Pages * PageSize} \X {"BadMemory"}) :
        x[1] < x[2]}}

\* A piece can come after another one in a map.
Follows(q, p) ==
  /\ p.base <= q.base
  /\ End(p) <= q.base
     \/ {p.typ, q.typ} \cap {"Usable", "BootloaderReclaimable"} = {}

MCMemoryMaps ==
  {<<p>> : p \in Pieces}
  \cup {m \in Pieces \X Pieces : Follows(m[2], m[1])}
  \cup {m \in Pieces \X Pieces \X Pieces :
          Follows(m[2], m[1]) /\ Follows(m[3], m[2]) /\ Follows(m[3], m[1])}
=============================================================================
