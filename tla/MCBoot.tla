------------------------------- MODULE MCBoot -------------------------------
(***************************************************************************)
(* Platforms with ids up to MaxId.                                         *)
(***************************************************************************)
EXTENDS Boot

CONSTANT MaxId

Ids == 0 .. MaxId

\* The boot processor has processor_id 0, the others any, and any lapic_id.
AnyLapicId ==
  {i \in [Cpus -> [processor_id : Ids, lapic_id : Ids]] :
     /\ i[Bsp].processor_id = 0
     /\ \A c, d \in Cpus : c # d =>
          /\ i[c].processor_id # i[d].processor_id
          /\ i[c].lapic_id # i[d].lapic_id}
=============================================================================
