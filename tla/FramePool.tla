------------------------------ MODULE FramePool ------------------------------
(***************************************************************************)
(* What the frame allocator promises, without counts, flags or an array:   *)
(* a frame is granted only when nobody holds it, a holder may share a      *)
(* frame somebody holds, and what is given back by everybody can be        *)
(* granted again.  FrameAllocator implements it.                           *)
(***************************************************************************)
EXTENDS Integers

CONSTANTS Frames, Holders

VARIABLES
  pool,   \* the frames that can be granted at all
  held    \* the frames each holder has

vars == <<pool, held>>

Init ==
  /\ pool \in SUBSET Frames
  /\ held \in [Holders -> SUBSET pool]
  /\ \A h, g \in Holders : h # g => held[h] \cap held[g] = {}

\* The kernel finds its memory, and some of it in use.
Fill == pool = {} /\ Init'

\* A run of frames nobody holds (a single frame, or a range).
Grant(h, a, b) ==
  /\ a .. b \subseteq pool
  /\ \A g \in Holders : held[g] \cap a .. b = {}
  /\ held' = [held EXCEPT ![h] = @ \cup a .. b]
  /\ UNCHANGED pool

Share(h, f) ==
  /\ \E g \in Holders : f \in held[g]
  /\ held' = [held EXCEPT ![h] = @ \cup {f}]
  /\ UNCHANGED pool

GiveBack(h, S) ==
  /\ S \subseteq held[h]
  /\ held' = [held EXCEPT ![h] = @ \ S]
  /\ UNCHANGED pool

Next ==
  \/ Fill
  \/ \E h \in Holders :
       \/ \E a, b \in Frames : Grant(h, a, b)
       \/ \E f \in Frames : Share(h, f)
       \/ \E S \in SUBSET Frames : GiveBack(h, S)

Spec == Init /\ [][Next]_vars
=============================================================================
