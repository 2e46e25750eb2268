------------------------------ MODULE PageMap ------------------------------
(***************************************************************************)
(* What the page table code promises: a partial map from addresses to      *)
(* frames, to which map adds and from which unmap removes one address at a *)
(* time.  PageTable implements it with tables allocated on the way.        *)
(***************************************************************************)
CONSTANTS
  Address,   \* the pages
  Frame,     \* what they can be mapped to
  Unmapped

VARIABLE mapped

Init == mapped = [a \in Address |-> Unmapped]

Map(a, f) ==
  /\ mapped[a] = Unmapped
  /\ mapped' = [mapped EXCEPT ![a] = f]

Unmap(a) == mapped' = [mapped EXCEPT ![a] = Unmapped]

Next ==
  \E a \in Address : Unmap(a) \/ \E f \in Frame : Map(a, f)

Spec == Init /\ [][Next]_mapped
=============================================================================
