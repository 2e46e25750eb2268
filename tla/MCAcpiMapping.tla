---------------------------- MODULE MCAcpiMapping ----------------------------
(***************************************************************************)
(* Regions of every alignment and of sizes below, at and above a page.     *)
(***************************************************************************)
EXTENDS AcpiMapping

CONSTANTS MaxPhys, MaxSize

TheLapic == [phys |-> 9, size |-> 1]

AllRegions == [phys : 0 .. MaxPhys, size : 1 .. MaxSize]
=============================================================================
