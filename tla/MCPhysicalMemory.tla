-------------------------- MODULE MCPhysicalMemory --------------------------
(***************************************************************************)
(* The maps of MCFrameSetup whose regular memory ends at page N.           *)
(***************************************************************************)
EXTENDS MCFrameSetup, PhysicalMemory

MapsOfN == {m \in MCMemoryMaps : find_last_usable_frame_index(m) = N}
=============================================================================
