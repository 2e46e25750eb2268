-------------------------- MODULE RootTablesProofs --------------------------
(***************************************************************************)
(* The invariants of RootTables, for any number of CPUs, kernel entries    *)
(* and frames: RootsOnce, KernelAgrees, and the action property            *)
(* InitFrozen.                                                             *)
(*                                                                         *)
(* Three parts make them inductive.  Stages says what a CPU has by the     *)
(* label it is at: no root of its own before it forces ACTIVE_TABLE, and   *)
(* the entries of the heap and of vmalloc in the boot table from the       *)
(* moment it can.  Split is RootsOnce with distinct fresh frames.  Entries *)
(* says what roots lead to: tables only, and what the boot table has for   *)
(* the early entries.                                                      *)
(* The actions change the entries in four ways only (Steady, Grow, Take    *)
(* and Copy), each with a lemma of its own.                                *)
(***************************************************************************)
EXTENDS RootTables, WellFoundedInduction, TLAPS

\* The labels before a CPU has a root of its own, and before the early
\* entries must be there.
Booting == {"mm", "smp", "parked", "table", "clone"}
Before  == {"mm", "smp", "parked"}

Stage(c) ==
  /\ fresh[c] # None <=> pc[c] \in {"clone", "new"}
  /\ pc[c] \in Booting => active[c] = None /\ cr3[c] = Boot
  /\ pc[c] \notin Booting => active[c] \in Frames
  /\ pc[c] \notin Booting \cup {"switch"} => cr3[c] = active[c]
  /\ arcs[c] # {} \/ pc[c] \in {"new", "switch"} => ~early
  /\ ~early => pc[c] \notin Booting
  /\ pc[c] \in {"mm", "smp", "setup", "wait"} => c = Bsp

Ready ==
  /\ \A c \in Cpus : pc[c] \notin Before => \A e \in Early : entries[Boot][e] # None
  /\ pc[Bsp] = "smp" => entries[Boot]["heap"] # None

Stages == (\A c \in Cpus : Stage(c)) /\ Ready

Roots    == {r \in Frames : \E c \in Cpus : active[c] = r \/ r \in arcs[c]}
Building == {fresh[c] : c \in Cpus} \ {None}

Split ==
  /\ pool \cup Roots \cup Building \cup tables = Frames
  /\ pool \cap (Roots \cup Building \cup tables) = {}
  /\ Roots \cap (Building \cup tables) = {}
  /\ Building \cap tables = {}
  /\ \A c, d \in Cpus : c # d /\ fresh[c] # None => fresh[c] # fresh[d]

Entries ==
  /\ \A r \in {Boot} \cup Roots, e \in Kernel : entries[r][e] \in tables \cup {None}
  /\ \A r \in Roots, e \in Early : entries[r][e] = entries[Boot][e]

IInv == TypeOK /\ Stages /\ Split /\ Entries

-----------------------------------------------------------------------------
(* Facts about the operators.                                              *)

\* allocate_frames gives one of the free frames.
LEMMA MinIn ==
  ASSUME NEW S \in SUBSET Nat, S # {}
  PROVE  Min(S) \in S
<1> DEFINE R == {p \in Nat \X Nat : p[1] < p[2]}
<1>1. OpToRel(<, Nat) = R  BY Zenon DEF OpToRel
<1>2. ASSUME NEW x \in Nat, NEW y \in Nat, x < y  PROVE <<x, y>> \in R
  <2>1. <<x, y>> \in Nat \X Nat  OBVIOUS
  <2>2. <<x, y>>[1] = x /\ <<x, y>>[2] = y  OBVIOUS
  <2>3. QED  BY <1>2, <2>1, <2>2, Zenon
<1> HIDE DEF R
<1>3. IsWellFoundedOn(R, Nat)  BY <1>1, NatLessThanWellFounded, Zenon
<1>4. PICK x \in S : \A y \in S : <<y, x>> \notin R  BY <1>3, WFMin, Zenon
<1>5. ASSUME NEW y \in S  PROVE x <= y
  <2>1. ~(y < x)  BY <1>2, <1>4, Zenon
  <2>2. QED  BY <2>1
<1>6. QED  BY <1>5, Zenon DEF Min

\* The names of the frames.
LEMMA Names ==
  /\ Frames \subseteq Nat /\ Boot \notin Frames /\ None \notin Frames /\ None # Boot
  /\ Live = {Boot} \cup Roots /\ Live \ {Boot} = Roots
  /\ Early \subseteq Kernel
BY FramesAssumption DEF Frames, Boot, None, Live, Roots, Kernel

\* The least free frame is a frame, and nothing else.
LEMMA PoolMin ==
  ASSUME IInv, pool # {}
  PROVE  /\ Min(pool) \in pool /\ Min(pool) \in Frames
         /\ Min(pool) \notin Roots \cup Building \cup tables
         /\ Min(pool) # None /\ Min(pool) # Boot
<1>1. pool \subseteq Frames  BY DEF IInv, TypeOK
<1>2. Min(pool) \in pool  BY <1>1, MinIn, Names
<1>3. QED  BY <1>1, <1>2, Names DEF IInv, Split

\* While an early entry is absent from the boot table there is no other root.
LEMMA NoOtherRoot ==
  ASSUME IInv, NEW e \in Early, entries[Boot][e] = None
  PROVE  Roots = {}
<1>1. \A c \in Cpus : pc[c] \in Before  BY DEF IInv, Stages, Ready
<1>2. \A c \in Cpus : active[c] = None /\ arcs[c] = {}
  BY <1>1 DEF IInv, Stages, Stage, Before, Booting
<1>3. QED  BY <1>2, Names DEF Roots

-----------------------------------------------------------------------------
(* What the actions do to the entries.                                     *)

\* Entries, read off root by root: the form in which each change is shown.
LEMMA EntriesBy ==
  ASSUME \A r \in {Boot} \cup Roots', g \in Kernel :
           entries'[r][g] \in tables' \cup {None},
         \A r \in Roots', g \in Early : entries'[r][g] = entries'[Boot][g]
  PROVE  Entries'
BY DEF Entries

\* The same facts before the step.
LEMMA EntriesAre ==
  ASSUME IInv
  PROVE  /\ entries \in [{Boot} \cup Frames -> [Kernel -> Frames \cup {None}]]
         /\ \A r \in {Boot} \cup Roots, g \in Kernel : entries[r][g] \in tables \cup {None}
         /\ \A r \in Roots, g \in Early : entries[r][g] = entries[Boot][g]
BY Names DEF IInv, TypeOK, Entries

\* No entry of a root is written, and no root is added.
LEMMA Steady ==
  ASSUME IInv, UNCHANGED tables, Roots' \subseteq Roots,
         \A r \in {Boot} \cup Roots : entries'[r] = entries[r]
  PROVE  Entries'
<1>1. \A r \in {Boot} \cup Roots', g \in Kernel : entries'[r][g] \in tables' \cup {None}
  BY EntriesAre
<1>2. \A r \in Roots', g \in Early : entries'[r][g] = entries'[Boot][g]
  BY EntriesAre
<1>3. QED  BY <1>1, <1>2, EntriesBy, Zenon

\* A free frame becomes the table of an absent entry of a root.
LEMMA Grow ==
  ASSUME IInv, NEW root \in {Boot} \cup Roots, NEW e \in Kernel, pool # {},
         entries[root][e] = None,
         entries' = [entries EXCEPT ![root] = [@ EXCEPT ![e] = Min(pool)]],
         tables' = tables \cup {Min(pool)},
         UNCHANGED <<active, arcs>>
  PROVE  /\ Entries'
         /\ \A g \in Kernel : entries[Boot][g] # None => entries'[Boot][g] # None
<1> DEFINE m == Min(pool)
<1>1. Roots' = Roots  BY DEF Roots
<1>2. m \in Frames /\ m \notin tables /\ m # None  BY PoolMin
<1> HIDE DEF m
<1>3. \A r \in {Boot} \cup Roots, g \in Kernel :
        entries'[r][g] = IF r = root /\ g = e THEN m ELSE entries[r][g]
  <2>1. {Boot} \cup Roots \subseteq {Boot} \cup Frames  BY DEF Roots
  <2>2. entries' = [entries EXCEPT ![root] = [entries[root] EXCEPT ![e] = m]]
    BY DEF m
  <2>3. QED  BY <2>1, <2>2, EntriesAre
<1>4. \A r \in {Boot} \cup Roots', g \in Kernel : entries'[r][g] \in tables' \cup {None}
  BY <1>1, <1>3, EntriesAre DEF m
<1>5. \A r \in Roots', g \in Early : entries'[r][g] = entries'[Boot][g]
  <2>1. SUFFICES ASSUME NEW r \in Roots, NEW g \in Early
                 PROVE  entries'[r][g] = entries'[Boot][g]
    BY <1>1
  <2>2. entries[r][g] = entries[Boot][g] /\ entries[Boot][g] # None
    BY EntriesAre, NoOtherRoot
  <2>3. g \in Kernel  BY Names
  <2>4. QED  BY <1>3, <2>2, <2>3
<1>6. \A g \in Kernel : entries[Boot][g] # None => entries'[Boot][g] # None
  BY <1>2, <1>3
<1>7. QED  BY <1>4, <1>5, <1>6, EntriesBy, Zenon

\* A free frame is zeroed, to become a root.
LEMMA Take ==
  ASSUME IInv, pool # {}, entries' = [entries EXCEPT ![Min(pool)] = Empty],
         UNCHANGED <<active, arcs, tables>>
  PROVE  Entries' /\ entries'[Boot] = entries[Boot]
<1>1. Roots' = Roots  BY DEF Roots
<1>2. \A r \in {Boot} \cup Roots : entries'[r] = entries[r]
  <2>1. {Boot} \cup Roots \subseteq {Boot} \cup Frames  BY DEF Roots
  <2>2. QED  BY <2>1, PoolMin, EntriesAre
<1>3. QED  BY <1>1, <1>2, Steady

\* A new root gets the entries of the boot table.
LEMMA Copy ==
  ASSUME IInv, NEW f \in Building, Roots' = Roots \cup {f},
         entries' = [entries EXCEPT ![f] = entries[Boot]],
         UNCHANGED tables
  PROVE  Entries' /\ entries'[Boot] = entries[Boot]
<1>1. f \in Frames /\ f \notin Roots /\ f # Boot
  BY Names DEF IInv, Split, TypeOK, Building
<1>2. /\ entries'[f] = entries[Boot] /\ entries'[Boot] = entries[Boot]
      /\ \A r \in Roots : entries'[r] = entries[r]
  <2>1. Roots \subseteq {Boot} \cup Frames  BY DEF Roots
  <2>2. QED  BY <1>1, <2>1, EntriesAre
<1>3. \A r \in {Boot} \cup Roots', g \in Kernel : entries'[r][g] \in tables' \cup {None}
  BY <1>2, EntriesAre
<1>4. \A r \in Roots', g \in Early : entries'[r][g] = entries'[Boot][g]
  BY <1>2, EntriesAre
<1>5. QED  BY <1>2, <1>3, <1>4, EntriesBy, Zenon

-----------------------------------------------------------------------------
(* The actions.                                                            *)

\* The boot table has the early entries before a CPU can copy it.
LEMMA ReadyBy ==
  ASSUME IInv, NEW c \in Cpus, NEW label,
         pc' = pc \/ pc' = [pc EXCEPT ![c] = label],
         \A g \in Kernel : entries[Boot][g] # None => entries'[Boot][g] # None,
         label \notin Before =>
           pc[c] \notin Before \/ \A g \in Early : entries'[Boot][g] # None,
         label = "smp" => entries'[Boot]["heap"] # None
  PROVE  Ready'
<1>1. "heap" \in Early /\ "heap" \in Kernel  BY EntriesAssumption, Names
<1>2. pc \in [Cpus -> {pc[d] : d \in Cpus}]  BY DEF IInv, TypeOK
<1>3. CASE pc' = pc
  BY <1>1, <1>3, Names DEF IInv, Stages, Ready
<1>4. CASE pc' = [pc EXCEPT ![c] = label]
  <2>1. pc'[c] = label /\ \A d \in Cpus \ {c} : pc'[d] = pc[d]  BY <1>2, <1>4
  <2>2. ASSUME NEW d \in Cpus, pc'[d] \notin Before, NEW g \in Early
        PROVE  entries'[Boot][g] # None
    BY <2>1, <2>2, Names DEF IInv, Stages, Ready
  <2>3. pc'[Bsp] = "smp" => entries'[Boot]["heap"] # None
    BY <1>1, <2>1, BspAssumption DEF IInv, Stages, Ready
  <2>4. QED  BY <2>2, <2>3 DEF Ready
<1>5. QED  BY <1>3, <1>4

\* A panic for lack of a frame changes nothing else.
LEMMA OutOfMemoryInv ==
  ASSUME IInv, OutOfMemory \/ UNCHANGED vars
  PROVE  IInv'
<1>1. UNCHANGED <<pc, cr3, active, arcs, fresh, entries, tables, pool, early>>
  BY DEF OutOfMemory, vars
<1>2. halted' \in BOOLEAN
  BY Zenon DEF OutOfMemory, vars, IInv, TypeOK
<1>3. TypeOK'
  BY <1>1, <1>2 DEF IInv, TypeOK
<1>4. Roots' = Roots /\ Building' = Building
  BY <1>1 DEF Roots, Building
<1>5. Stages' /\ Split'
  BY <1>1, <1>4 DEF IInv, Stages, Stage, Ready, Split
<1>6. Entries'
  BY <1>1, <1>4, Steady
<1>7. QED  BY <1>3, <1>5, <1>6 DEF IInv

\* A CPU whose variables stay as they are stays at its stage.
LEMMA StagesKept ==
  ASSUME IInv, NEW c \in Cpus, early' = early,
         \A d \in Cpus \ {c} :
           /\ pc'[d] = pc[d] /\ cr3'[d] = cr3[d] /\ active'[d] = active[d]
           /\ arcs'[d] = arcs[d] /\ fresh'[d] = fresh[d]
  PROVE  \A d \in Cpus \ {c} : Stage(d)'
<1> SUFFICES ASSUME NEW d \in Cpus \ {c}  PROVE Stage(d)'
  OBVIOUS
<1>1. Stage(d)  BY DEF IInv, Stages
<1>2. /\ pc'[d] = pc[d] /\ cr3'[d] = cr3[d] /\ active'[d] = active[d]
      /\ arcs'[d] = arcs[d] /\ fresh'[d] = fresh[d] /\ early' = early
  OBVIOUS
<1>3. early' <=> early  BY SMT
<1> USE <1>1, <1>2 DEF Stage
<1>4. fresh'[d] # None <=> pc'[d] \in {"clone", "new"}  BY Zenon
<1>5. pc'[d] \in Booting => active'[d] = None /\ cr3'[d] = Boot  BY Zenon
<1>6. pc'[d] \notin Booting => active'[d] \in Frames  BY Zenon
<1>7. pc'[d] \notin Booting \cup {"switch"} => cr3'[d] = active'[d]  BY Zenon
<1>8. arcs'[d] # {} \/ pc'[d] \in {"new", "switch"} => ~early'  BY <1>3, Zenon
<1>9. ~early' => pc'[d] \notin Booting  BY <1>3, Zenon
<1>10. pc'[d] \in {"mm", "smp", "setup", "wait"} => d = Bsp  BY Zenon
<1>11. QED  BY <1>4, <1>5, <1>6, <1>7, <1>8, <1>9, <1>10, Zenon

\* Every CPU moves on, with its root and its Arcs as they were.
LEMMA MoveStage ==
  ASSUME IInv, NEW c \in Cpus, NEW label,
         \/ pc[c] = "mm" /\ label = "smp"
         \/ pc[c] \in {"smp", "parked"} /\ label = "table"
         \/ pc[c] = "setup" /\ label = "wait"
         \/ pc[c] \in {"setup", "idle"} /\ label = pc[c],
         pc' = [pc EXCEPT ![c] = label],
         UNCHANGED <<cr3, active, arcs, fresh, early>>
  PROVE  \A d \in Cpus : Stage(d)'
<1>1. pc'[c] = label /\ \A d \in Cpus \ {c} : pc'[d] = pc[d]
  BY DEF IInv, TypeOK
<1>2. \A d \in Cpus \ {c} : Stage(d)'
  BY <1>1, StagesKept
<1>3. Stage(c)'
  BY <1>1 DEF IInv, Stages, Stage, Booting
<1>4. QED  BY <1>2, <1>3

\* An entry of a root is populated.
LEMMA PopulateInv ==
  ASSUME IInv, NEW c \in Cpus, NEW root \in {Boot} \cup Roots, NEW e \in Kernel, NEW label,
         Populate(c, root, e, label),
         \/ pc[c] = "mm" /\ label = "smp" /\ root = Boot /\ e = "heap"
         \/ pc[c] = "smp" /\ label = "table" /\ root = Boot /\ e = "vmalloc" /\ c = Bsp
         \/ pc[c] = "parked" /\ label = "table" /\ pc[Bsp] = "wait"
         \/ pc[c] \in {"setup", "idle"} /\ label = pc[c]
  PROVE  IInv'
<1>1. CASE OutOfMemory  BY <1>1, OutOfMemoryInv
<1>2. CASE ~OutOfMemory
  <2>1. /\ pc' = [pc EXCEPT ![c] = label]
        /\ UNCHANGED <<cr3, active, arcs, fresh, early, halted>>
    BY <1>2 DEF Populate, Goto
  <2>2. Roots' = Roots /\ Building' = Building
    BY <2>1 DEF Roots, Building
  <2>3. \/ entries[root][e] # None /\ UNCHANGED <<entries, tables, pool>>
        \/ /\ entries[root][e] = None /\ pool # {}
           /\ pool' = pool \ {Min(pool)} /\ tables' = tables \cup {Min(pool)}
           /\ entries' = [entries EXCEPT ![root] = [@ EXCEPT ![e] = Min(pool)]]
    BY <1>2 DEF Populate
  <2>4. /\ Entries'
        /\ \A g \in Kernel : entries[Boot][g] # None => entries'[Boot][g] # None
    BY <2>1, <2>2, <2>3, Steady, Grow
  <2>5. /\ entries' \in [{Boot} \cup Frames -> [Kernel -> Frames \cup {None}]]
        /\ tables' \subseteq Frames /\ pool' \subseteq Frames /\ tables \subseteq tables'
        /\ entries'[root][e] # None
    <3>1. root \in {Boot} \cup Frames  BY DEF Roots
    <3>2. CASE UNCHANGED <<entries, tables, pool>>
      BY <2>3, <3>2, PoolMin DEF IInv, TypeOK
    <3>3. CASE /\ pool # {}
               /\ pool' = pool \ {Min(pool)} /\ tables' = tables \cup {Min(pool)}
               /\ entries' = [entries EXCEPT ![root] = [@ EXCEPT ![e] = Min(pool)]]
      BY <3>1, <3>3, PoolMin DEF IInv, TypeOK
    <3>4. QED  BY <2>3, <3>2, <3>3
  <2>6. TypeOK'
    BY <2>1, <2>5 DEF IInv, TypeOK
  <2>7. \A d \in Cpus : Stage(d)'
    BY <2>1, MoveStage, Zenon
  <2>8. Ready'
    <3>1. label \notin Before =>
            pc[c] \notin Before \/ \A g \in Early : entries'[Boot][g] # None
      BY <2>4, <2>5, EntriesAssumption, BspAssumption, Names
         DEF IInv, Stages, Ready, Before
    <3>2. label = "smp" => entries'[Boot]["heap"] # None
      BY <2>5
    <3>3. QED  BY <2>1, <2>4, <3>1, <3>2, ReadyBy, Zenon
  <2>9. Split'
    <3>1. Roots' = Roots /\ Building' = Building  BY <2>1, <2>2 DEF Roots, Building
    <3>2. CASE UNCHANGED <<entries, tables, pool>>
      BY <2>1, <3>1, <3>2 DEF IInv, Split
    <3>3. CASE /\ pool # {}
               /\ pool' = pool \ {Min(pool)} /\ tables' = tables \cup {Min(pool)}
      BY <2>1, <3>1, <3>3, PoolMin DEF IInv, Split
    <3>4. QED  BY <2>3, <3>2, <3>3
  <2>10. QED  BY <2>4, <2>6, <2>7, <2>8, <2>9 DEF IInv, Stages
<1>3. QED  BY <1>1, <1>2

\* A frame is taken for a root.
LEMMA TakeInv ==
  ASSUME IInv, NEW c \in Cpus, NEW label, TakeRoot(c, label),
         \/ pc[c] = "table" /\ label = "clone"
         \/ pc[c] = "idle" /\ label = "new" /\ ~early
  PROVE  IInv'
<1>1. CASE OutOfMemory  BY <1>1, OutOfMemoryInv
<1>2. CASE ~OutOfMemory
  <2> DEFINE m == Min(pool)
  <2>1. /\ pool # {} /\ pool' = pool \ {m}
        /\ fresh' = [fresh EXCEPT ![c] = m]
        /\ entries' = [entries EXCEPT ![m] = Empty]
        /\ pc' = [pc EXCEPT ![c] = label]
        /\ UNCHANGED <<cr3, active, arcs, tables, early, halted>>
    BY <1>2 DEF TakeRoot, Goto
  <2>2. /\ m \in pool /\ m \in Frames /\ m # None /\ m # Boot
        /\ m \notin Roots \cup Building \cup tables
    BY <2>1, PoolMin
  <2>3. Entries' /\ entries'[Boot] = entries[Boot]
    BY <2>1, Take
  <2> HIDE DEF m
  <2>4. Empty \in [Kernel -> Frames \cup {None}]  BY DEF Empty
  <2>5. label \in {"clone", "new"}  OBVIOUS
  <2>6. TypeOK'
    BY <2>1, <2>2, <2>4, <2>5 DEF IInv, TypeOK
  <2>7. /\ pc'[c] = label /\ fresh'[c] = m
        /\ \A d \in Cpus \ {c} : pc'[d] = pc[d] /\ fresh'[d] = fresh[d]
    BY <2>1 DEF IInv, TypeOK
  <2>8. \A d \in Cpus \ {c} : Stage(d)'
    BY <2>1, <2>7, StagesKept
  <2>9. Stage(c)'
    BY <2>1, <2>2, <2>7 DEF IInv, Stages, Stage, Booting
  <2>10. Ready'
    BY <2>1, <2>3, ReadyBy DEF Before, IInv, Stages, Ready
  <2>11. fresh[c] = None
    BY DEF IInv, Stages, Stage
  <2>12. Roots' = Roots /\ Building' = Building \cup {m}
    BY <2>1, <2>2, <2>7, <2>11 DEF Roots, Building
  <2>13. Split'
    <3>1. ASSUME NEW a \in Cpus, NEW b \in Cpus, a # b, fresh'[a] # None
          PROVE  fresh'[a] # fresh'[b]
      <4>1. \A d \in Cpus : fresh[d] # m
        BY <2>2 DEF Building
      <4>2. QED  BY <2>7, <3>1, <4>1 DEF IInv, Split
    <3>2. QED  BY <2>1, <2>2, <2>12, <3>1 DEF IInv, Split
  <2>14. QED  BY <2>3, <2>6, <2>8, <2>9, <2>10, <2>13 DEF IInv, Stages
<1>3. QED  BY <1>1, <1>2

\* A frame that is taken for a root becomes one.
LEMMA NewRoot ==
  ASSUME IInv, NEW c \in Cpus, pc[c] \in {"clone", "new"},
         fresh' = [fresh EXCEPT ![c] = None], Roots' = Roots \cup {fresh[c]},
         entries' = [entries EXCEPT ![fresh[c]] = entries[Boot]],
         UNCHANGED <<tables, pool>>
  PROVE  /\ fresh[c] \in Building /\ fresh[c] \in Frames
         /\ Split' /\ Entries' /\ entries'[Boot] = entries[Boot]
         /\ entries' \in [{Boot} \cup Frames -> [Kernel -> Frames \cup {None}]]
<1>1. fresh[c] \in Building /\ fresh[c] \in Frames
  BY DEF IInv, Stages, Stage, TypeOK, Building
<1>2. fresh'[c] = None /\ \A d \in Cpus \ {c} : fresh'[d] = fresh[d]
  BY DEF IInv, TypeOK
<1>3. Building' = Building \ {fresh[c]}
  BY <1>1, <1>2 DEF Building, IInv, Split
<1>4. Split'
  <2>1. ASSUME NEW a \in Cpus, NEW b \in Cpus, a # b, fresh'[a] # None
        PROVE  fresh'[a] # fresh'[b]
    BY <1>2, <2>1 DEF IInv, Split
  <2>2. QED  BY <1>1, <1>3, <2>1 DEF IInv, Split
<1>5. Entries' /\ entries'[Boot] = entries[Boot]
  BY <1>1, Copy, Zenon
<1>6. entries' \in [{Boot} \cup Frames -> [Kernel -> Frames \cup {None}]]
  BY <1>1 DEF IInv, TypeOK
<1>7. QED  BY <1>1, <1>4, <1>5, <1>6

\* ACTIVE_TABLE is forced.
LEMMA CloneInv ==
  ASSUME IInv, NEW c \in Cpus, CloneInit(c)
  PROVE  IInv'
<1> DEFINE label == IF c = Bsp THEN "setup" ELSE "idle"
<1>1. /\ pc[c] = "clone" /\ pc' = [pc EXCEPT ![c] = label]
      /\ entries' = [entries EXCEPT ![fresh[c]] = entries[Boot]]
      /\ cr3' = [cr3 EXCEPT ![c] = fresh[c]]
      /\ active' = [active EXCEPT ![c] = fresh[c]]
      /\ fresh' = [fresh EXCEPT ![c] = None]
      /\ UNCHANGED <<arcs, tables, pool, early, halted>>
  BY DEF CloneInit, At, Goto
<1>2. label \in {"setup", "idle"} /\ (label = "setup" => c = Bsp)  OBVIOUS
<1> HIDE DEF label
<1>3. /\ pc'[c] = label /\ cr3'[c] = fresh[c] /\ active'[c] = fresh[c] /\ fresh'[c] = None
      /\ \A d \in Cpus \ {c} : pc'[d] = pc[d] /\ cr3'[d] = cr3[d]
                               /\ active'[d] = active[d] /\ fresh'[d] = fresh[d]
  BY <1>1 DEF IInv, TypeOK
<1>4. active[c] = None /\ fresh[c] # None /\ fresh[c] \in Frames /\ early
  BY <1>1 DEF IInv, TypeOK, Stages, Stage, Booting
<1>5. Roots' = Roots \cup {fresh[c]}
  <2>1. \A d \in Cpus : arcs'[d] = arcs[d] /\ (d # c => active'[d] = active[d])
    BY <1>1, <1>3
  <2>2. \A r \in Frames, d \in Cpus :
          active'[d] = r \/ r \in arcs'[d]
            <=> active[d] = r \/ r \in arcs[d] \/ (d = c /\ r = fresh[c])
    BY <1>3, <1>4, <2>1, Names
  <2>3. QED  BY <1>4, <2>2 DEF Roots
<1>6. /\ Split' /\ Entries' /\ entries'[Boot] = entries[Boot]
      /\ entries' \in [{Boot} \cup Frames -> [Kernel -> Frames \cup {None}]]
  BY <1>1, <1>5, NewRoot, Zenon
<1>7. TypeOK'
  BY <1>1, <1>2, <1>4, <1>6 DEF IInv, TypeOK
<1>8. \A d \in Cpus \ {c} : Stage(d)'
  BY <1>1, <1>3, StagesKept
<1>9. Stage(c)'
  BY <1>1, <1>2, <1>3, <1>4 DEF IInv, Stages, Stage, Booting
<1>10. Ready'
  BY <1>1, <1>2, <1>6, ReadyBy, Zenon DEF Before
<1>11. QED  BY <1>6, <1>7, <1>8, <1>9, <1>10 DEF IInv, Stages

\* TableRoot::new ends.
LEMMA CopyKernelInv ==
  ASSUME IInv, NEW c \in Cpus, CopyKernel(c)
  PROVE  IInv'
<1>1. /\ pc[c] = "new" /\ pc' = [pc EXCEPT ![c] = "idle"]
      /\ entries' = [entries EXCEPT ![fresh[c]] = entries[Boot]]
      /\ arcs' = [arcs EXCEPT ![c] = @ \cup {fresh[c]}]
      /\ fresh' = [fresh EXCEPT ![c] = None]
      /\ UNCHANGED <<cr3, active, tables, pool, early, halted>>
  BY DEF CopyKernel, At, Goto
<1>2. /\ pc'[c] = "idle" /\ arcs'[c] = arcs[c] \cup {fresh[c]} /\ fresh'[c] = None
      /\ \A d \in Cpus \ {c} : pc'[d] = pc[d] /\ arcs'[d] = arcs[d] /\ fresh'[d] = fresh[d]
  BY <1>1 DEF IInv, TypeOK
<1>3. fresh[c] # None /\ fresh[c] \in Frames /\ ~early
  BY <1>1 DEF IInv, TypeOK, Stages, Stage
<1>4. Roots' = Roots \cup {fresh[c]}
  BY <1>1, <1>2, <1>3 DEF Roots
<1>5. /\ Split' /\ Entries' /\ entries'[Boot] = entries[Boot]
      /\ entries' \in [{Boot} \cup Frames -> [Kernel -> Frames \cup {None}]]
  BY <1>1, <1>4, NewRoot, Zenon
<1>6. TypeOK'
  BY <1>1, <1>3, <1>5 DEF IInv, TypeOK
<1>7. \A d \in Cpus \ {c} : Stage(d)'
  BY <1>1, <1>2, StagesKept
<1>8. Stage(c)'
  BY <1>1, <1>2, <1>3 DEF IInv, Stages, Stage, Booting
<1>9. Ready'
  BY <1>1, <1>5, ReadyBy, Zenon DEF Before
<1>10. QED  BY <1>5, <1>6, <1>7, <1>8, <1>9 DEF IInv, Stages

\* setup gives an absent entry of the boot processor's root a table.
LEMMA PreallocateInv ==
  ASSUME IInv, NEW e \in Kernel, Preallocate(e)
  PROVE  IInv'
<1>1. /\ pc[Bsp] = "setup" /\ Populate(Bsp, active[Bsp], e, "setup")
  BY DEF Preallocate, At
<1>2. active[Bsp] \in Roots
  BY <1>1, BspAssumption DEF IInv, Stages, Stage, Booting, Roots
<1>3. QED  BY <1>1, <1>2, BspAssumption, PopulateInv, Zenon

\* No frame is taken or given back, no root comes or goes.
LEMMA SameRoots ==
  ASSUME IInv, Roots' = Roots, UNCHANGED <<fresh, entries, tables, pool>>
  PROVE  Split' /\ Entries'
<1>1. Building' = Building  BY DEF Building
<1>2. Split'  BY <1>1 DEF IInv, Split
<1>3. Entries'  BY Steady
<1>4. QED  BY <1>2, <1>3

\* The boot processor starts the other CPUs.
LEMMA StartCpusInv ==
  ASSUME IInv, StartCpus
  PROVE  IInv'
<1>1. /\ pc[Bsp] = "setup" /\ pc' = [pc EXCEPT ![Bsp] = "wait"]
      /\ UNCHANGED <<cr3, active, arcs, fresh, entries, tables, pool, early, halted>>
  BY DEF StartCpus, At, Goto
<1>2. TypeOK'  BY <1>1, Zenon DEF IInv, TypeOK
<1>3. \A d \in Cpus : Stage(d)'  BY <1>1, BspAssumption, MoveStage, Zenon
<1>4. Ready'  BY <1>1, BspAssumption, ReadyBy, Zenon DEF Before
<1>5. Roots' = Roots  BY <1>1 DEF Roots
<1>6. Split' /\ Entries'  BY <1>1, <1>5, SameRoots
<1>7. QED  BY <1>2, <1>3, <1>4, <1>6 DEF IInv, Stages

\* EARLY is cleared.
LEMMA EndEarlyInv ==
  ASSUME IInv, EndEarly
  PROVE  IInv'
<1>1. /\ pc[Bsp] = "wait" /\ pc' = [pc EXCEPT ![Bsp] = "idle"] /\ early' = FALSE
      /\ \A d \in Cpus \ {Bsp} : pc[d] = "idle"
      /\ UNCHANGED <<cr3, active, arcs, fresh, entries, tables, pool, halted>>
  BY DEF EndEarly, At, Goto
<1>2. TypeOK'  BY <1>1, Zenon DEF IInv, TypeOK
<1>3. \A d \in Cpus : pc'[d] = "idle"
  BY <1>1 DEF IInv, TypeOK
<1>4. \A d \in Cpus : Stage(d)'
  BY <1>1, <1>3 DEF IInv, Stages, Stage, Booting
<1>5. Ready'  BY <1>1, BspAssumption, ReadyBy, Zenon DEF Before
<1>6. Roots' = Roots  BY <1>1 DEF Roots
<1>7. Split' /\ Entries'  BY <1>1, <1>6, SameRoots
<1>8. QED  BY <1>2, <1>4, <1>5, <1>7 DEF IInv, Stages

\* An Arc is cloned.
LEMMA ShareInv ==
  ASSUME IInv, NEW c \in Cpus, NEW d \in Cpus, NEW r \in arcs[c], Share(c, d, r)
  PROVE  IInv'
<1>1. /\ arcs' = [arcs EXCEPT ![d] = @ \cup {r}]
      /\ UNCHANGED <<pc, cr3, active, fresh, entries, tables, pool, early, halted>>
  BY DEF Share
<1>2. r \in Frames /\ ~early  BY DEF IInv, TypeOK, Stages, Stage
<1>3. arcs'[d] = arcs[d] \cup {r} /\ \A b \in Cpus \ {d} : arcs'[b] = arcs[b]
  BY <1>1 DEF IInv, TypeOK
<1>4. TypeOK'  BY <1>1, <1>2 DEF IInv, TypeOK
<1>5. \A b \in Cpus : Stage(b)'  BY <1>1, <1>2 DEF IInv, Stages, Stage
<1>6. Ready'  BY <1>1 DEF IInv, Stages, Ready
<1>7. Roots' = Roots  BY <1>1, <1>3 DEF Roots
<1>8. Split' /\ Entries'  BY <1>1, <1>7, SameRoots
<1>9. QED  BY <1>4, <1>5, <1>6, <1>8 DEF IInv, Stages

\* CR3 is written.
LEMMA ChangeTableInv ==
  ASSUME IInv, NEW c \in Cpus, ChangeTable(c)
  PROVE  IInv'
<1>1. /\ pc[c] = "switch" /\ pc' = [pc EXCEPT ![c] = "idle"]
      /\ cr3' = [cr3 EXCEPT ![c] = active[c]]
      /\ UNCHANGED <<active, arcs, fresh, entries, tables, pool, early, halted>>
  BY DEF ChangeTable, At, Goto
<1>2. /\ pc'[c] = "idle" /\ cr3'[c] = active[c]
      /\ \A d \in Cpus \ {c} : pc'[d] = pc[d] /\ cr3'[d] = cr3[d]
  BY <1>1 DEF IInv, TypeOK
<1>3. active[c] \in Frames  BY <1>1 DEF IInv, Stages, Stage, Booting
<1>4. TypeOK'  BY <1>1, <1>3 DEF IInv, TypeOK
<1>5. \A d \in Cpus \ {c} : Stage(d)'  BY <1>1, <1>2, StagesKept
<1>6. Stage(c)'  BY <1>1, <1>2 DEF IInv, Stages, Stage, Booting
<1>7. Ready'  BY <1>1, ReadyBy, Zenon DEF Before
<1>8. Roots' = Roots  BY <1>1 DEF Roots
<1>9. Split' /\ Entries'  BY <1>1, <1>8, SameRoots
<1>10. QED  BY <1>4, <1>5, <1>6, <1>7, <1>9 DEF IInv, Stages

\* A root loses an Arc, and with the last one its frame goes back.
LEMMA DropInv ==
  ASSUME IInv, NEW r \in Roots, DropArc(r),
         Roots' \subseteq Roots, Roots \ {r} \subseteq Roots',
         UNCHANGED <<fresh, entries, tables>>
  PROVE  Split' /\ Entries' /\ pool' \subseteq Frames
<1>1. r \in Frames  BY DEF Roots
<1>2. \/ r \in Roots' /\ pool' = pool
      \/ r \notin Roots' /\ pool' = pool \cup {r}
  BY <1>1 DEF DropArc, Roots
<1>3. Building' = Building  BY DEF Building
<1>4. Split'
  <2>1. CASE r \in Roots' /\ pool' = pool
    <3>1. Roots' = Roots  BY <2>1
    <3>2. QED  BY <1>3, <2>1, <3>1 DEF IInv, Split
  <2>2. CASE r \notin Roots' /\ pool' = pool \cup {r}
    <3>1. Roots' = Roots \ {r}  BY <2>2
    <3>2. QED  BY <1>3, <2>2, <3>1 DEF IInv, Split
  <2>3. QED  BY <1>2, <2>1, <2>2
<1>5. Entries'  BY Steady
<1>6. QED  BY <1>1, <1>2, <1>4, <1>5 DEF IInv, TypeOK

\* The code on a CPU drops an Arc.
LEMMA DropArcInv ==
  ASSUME IInv, NEW c \in Cpus, NEW r \in arcs[c], Drop(c, r)
  PROVE  IInv'
<1>1. /\ arcs' = [arcs EXCEPT ![c] = @ \ {r}] /\ DropArc(r)
      /\ UNCHANGED <<pc, cr3, active, fresh, entries, tables, early, halted>>
  BY DEF Drop
<1>2. arcs'[c] = arcs[c] \ {r} /\ \A b \in Cpus \ {c} : arcs'[b] = arcs[b]
  BY <1>1 DEF IInv, TypeOK
<1>3. r \in Roots  BY DEF IInv, TypeOK, Roots
<1>4. Roots' \subseteq Roots /\ Roots \ {r} \subseteq Roots'
  BY <1>1, <1>2 DEF Roots
<1>5. Split' /\ Entries' /\ pool' \subseteq Frames  BY <1>1, <1>3, <1>4, DropInv
<1>6. TypeOK'  BY <1>1, <1>5 DEF IInv, TypeOK
<1>7. \A b \in Cpus : Stage(b)'  BY <1>1, <1>2 DEF IInv, Stages, Stage
<1>8. Ready'  BY <1>1 DEF IInv, Stages, Ready
<1>9. QED  BY <1>5, <1>6, <1>7, <1>8 DEF IInv, Stages

\* An Arc is moved into ACTIVE_TABLE.
LEMMA SetCurrentInv ==
  ASSUME IInv, NEW c \in Cpus, NEW r \in arcs[c], SetCurrent(c, r)
  PROVE  IInv'
<1>1. /\ ~early /\ pc[c] = "idle" /\ pc' = [pc EXCEPT ![c] = "switch"]
      /\ arcs' = [arcs EXCEPT ![c] = @ \ {r}]
      /\ active' = [active EXCEPT ![c] = r]
      /\ DropArc(active[c])
      /\ UNCHANGED <<cr3, fresh, entries, tables, early, halted>>
  BY DEF SetCurrent, At, Goto
<1>2. /\ pc'[c] = "switch" /\ arcs'[c] = arcs[c] \ {r} /\ active'[c] = r
      /\ \A d \in Cpus \ {c} : pc'[d] = pc[d] /\ arcs'[d] = arcs[d] /\ active'[d] = active[d]
  BY <1>1 DEF IInv, TypeOK
<1>3. r \in Frames  BY DEF IInv, TypeOK
<1>4. active[c] \in Roots
  BY <1>1 DEF IInv, Stages, Stage, Booting, Roots
<1>5. Roots' \subseteq Roots /\ Roots \ {active[c]} \subseteq Roots'
  BY <1>2 DEF Roots
<1>6. Split' /\ Entries' /\ pool' \subseteq Frames  BY <1>1, <1>4, <1>5, DropInv
<1>7. TypeOK'  BY <1>1, <1>3, <1>6 DEF IInv, TypeOK
<1>8. \A d \in Cpus \ {c} : Stage(d)'  BY <1>1, <1>2, StagesKept
<1>9. Stage(c)'  BY <1>1, <1>2, <1>3 DEF IInv, Stages, Stage, Booting
<1>10. Ready'  BY <1>1, ReadyBy, Zenon DEF Before
<1>11. QED  BY <1>6, <1>7, <1>8, <1>9, <1>10 DEF IInv, Stages

-----------------------------------------------------------------------------
(* The theorems.                                                           *)

\* The kernel starts on the table of the bootloader, with all frames free.
LEMMA InitInv == Init => IInv
<1> SUFFICES ASSUME Init  PROVE IInv
  OBVIOUS
<1>1. TypeOK
  BY Zenon DEF Init, TypeOK, Empty
<1>2. Roots = {} /\ Building = {}
  BY Names DEF Init, Roots, Building
<1>3. Stages
  BY BspAssumption DEF Init, Stages, Stage, Ready, Booting, Before
<1>4. Split
  BY <1>2 DEF Init, Split
<1>5. \A e \in Kernel : entries[Boot][e] = None
  BY DEF Init, Empty
<1>6. Entries
  BY <1>2, <1>5 DEF Init, Entries
<1>7. QED  BY <1>1, <1>3, <1>4, <1>6 DEF IInv

\* A fault, in the boot and later, is handled in a root that is alive.
LEMMA FaultRootIs ==
  ASSUME IInv, NEW c \in Cpus
  PROVE  /\ pc[c] \in Before => FaultRoot(c) = Boot
         /\ pc[c] = "idle" => FaultRoot(c) \in Roots
<1>1. pc[c] \in Before => early /\ cr3[c] = Boot
  BY DEF IInv, TypeOK, Stages, Stage, Before, Booting
<1>2. pc[c] = "idle" => active[c] \in Roots /\ cr3[c] = active[c]
  BY DEF IInv, Stages, Stage, Booting, Roots
<1>3. QED  BY <1>1, <1>2 DEF FaultRoot

\* Every step keeps the invariant.
LEMMA StepInv == IInv /\ [Next]_vars => IInv'
<1> SUFFICES ASSUME IInv, [Next]_vars  PROVE IInv'
  OBVIOUS
<1> USE BspAssumption
<1>1. CASE Halted \/ UNCHANGED vars
  BY <1>1, OutOfMemoryInv DEF Halted
<1>2. CASE MmSetup
  <2>1. "heap" \in Kernel  BY EntriesAssumption DEF Kernel
  <2>2. pc[Bsp] = "mm" /\ FaultRoot(Bsp) = Boot
    BY <1>2, FaultRootIs DEF MmSetup, At, Before
  <2>3. QED  BY <1>2, <2>1, <2>2, PopulateInv DEF MmSetup
<1>3. CASE BspSetup
  <2>1. "vmalloc" \in Kernel  BY EntriesAssumption DEF Kernel
  <2>2. pc[Bsp] = "smp" /\ FaultRoot(Bsp) = Boot
    BY <1>3, FaultRootIs DEF BspSetup, At, Before
  <2>3. QED  BY <1>3, <2>1, <2>2, PopulateInv DEF BspSetup
<1>4. ASSUME NEW c \in Cpus, ApStart(c)  PROVE IInv'
  <2>1. "vmalloc" \in Kernel  BY EntriesAssumption DEF Kernel
  <2>2. pc[c] = "parked" /\ FaultRoot(c) = Boot /\ pc[Bsp] = "wait"
    BY <1>4, FaultRootIs DEF ApStart, At, Before
  <2>3. QED  BY <1>4, <2>1, <2>2, PopulateInv DEF ApStart
<1>5. ASSUME NEW c \in Cpus, NEW e \in Kernel, Touch(c, e)  PROVE IInv'
  <2>1. pc[c] = "idle" /\ FaultRoot(c) \in Roots
    BY <1>5, FaultRootIs DEF Touch, At
  <2>2. QED  BY <1>5, <2>1, PopulateInv DEF Touch
<1>6. ASSUME NEW c \in Cpus, ForceActive(c) \/ New(c)  PROVE IInv'
  BY <1>6, TakeInv DEF ForceActive, New, At
<1>7. ASSUME NEW c \in Cpus, CloneInit(c) \/ CopyKernel(c) \/ ChangeTable(c)  PROVE IInv'
  BY <1>7, CloneInv, CopyKernelInv, ChangeTableInv
<1>8. ASSUME NEW c \in Cpus, NEW r \in arcs[c], Drop(c, r) \/ SetCurrent(c, r)  PROVE IInv'
  BY <1>8, DropArcInv, SetCurrentInv
<1>9. ASSUME NEW c \in Cpus, NEW r \in arcs[c], NEW d \in Cpus, Share(c, d, r)  PROVE IInv'
  BY <1>9, ShareInv
<1>10. CASE StartCpus \/ EndEarly \/ \E e \in Kernel : Preallocate(e)
  BY <1>10, StartCpusInv, EndEarlyInv, PreallocateInv
<1>11. QED
  BY <1>1, <1>2, <1>3, <1>4, <1>5, <1>6, <1>7, <1>8, <1>9, <1>10 DEF Next

\* The invariant holds in every state.
LEMMA Invariant == Spec => []IInv
BY InitInv, StepInv, PTL DEF Spec

\* No root leaks or is freed twice, and no frame has two uses, whoever shares,
\* drops and replaces roots.
THEOREM RootsHold == Spec => []RootsOnce
<1>1. IInv => RootsOnce
  BY Names DEF IInv, Split, RootsOnce, Building
<1>2. QED  BY Invariant, <1>1, PTL

\* All roots lead to the same tables for the heap and the vmalloc area.
THEOREM KernelHolds == Spec => []KernelAgrees
<1>1. IInv => KernelAgrees
  <2> SUFFICES ASSUME IInv, NEW e \in Early, NEW r \in Live, NEW s \in Live
               PROVE  entries[r][e] = entries[s][e]
    BY DEF KernelAgrees
  <2>1. \A x \in Live : entries[x][e] = entries[Boot][e]
    BY Names, EntriesAre
  <2>2. QED  BY <2>1
<1>2. QED  BY Invariant, <1>1, PTL

\* A write to another root leaves the boot table alone.
LEMMA BootKept ==
  ASSUME IInv, NEW root, root # Boot, NEW v, entries' = [entries EXCEPT ![root] = v]
  PROVE  entries'[Boot] = entries[Boot]
<1>1. Boot \in DOMAIN entries  BY EntriesAre
<1>2. QED  BY <1>1

\* After the boot the entries of INIT_TABLE do not change.
THEOREM FrozenHolds == Spec => InitFrozen
<1>1. ASSUME IInv, [Next]_vars, ~early  PROVE entries'[Boot] = entries[Boot]
  <2>1. \A c \in Cpus : pc[c] \notin Booting /\ active[c] \in Frames
    BY <1>1 DEF IInv, Stages, Stage
  <2>2. \A c \in Cpus, e \in Kernel :
          Touch(c, e) => entries'[Boot] = entries[Boot]
    <3> SUFFICES ASSUME NEW c \in Cpus, NEW e \in Kernel, Touch(c, e)
                 PROVE  entries'[Boot] = entries[Boot]
      OBVIOUS
    <3>1. FaultRoot(c) # Boot  BY <1>1, <2>1, Names DEF FaultRoot
    <3>2. entries' = entries \/ \E v : entries' = [entries EXCEPT ![FaultRoot(c)] = v]
      BY Zenon DEF Touch, Populate, OutOfMemory
    <3>3. QED  BY <1>1, <3>1, <3>2, BootKept
  <2>3. \A e \in Kernel : Preallocate(e) => entries'[Boot] = entries[Boot]
    <3> SUFFICES ASSUME NEW e \in Kernel, Preallocate(e)
                 PROVE  entries'[Boot] = entries[Boot]
      OBVIOUS
    <3>1. active[Bsp] # Boot  BY <2>1, BspAssumption, Names
    <3>2. entries' = entries \/ \E v : entries' = [entries EXCEPT ![active[Bsp]] = v]
      BY Zenon DEF Preallocate, Populate, OutOfMemory
    <3>3. QED  BY <1>1, <3>1, <3>2, BootKept
  <2>4. \A c \in Cpus : New(c) \/ ForceActive(c) => entries'[Boot] = entries[Boot]
    BY <1>1, PoolMin DEF New, ForceActive, TakeRoot, OutOfMemory, IInv, TypeOK
  <2>5. \A c \in Cpus : CopyKernel(c) => entries'[Boot] = entries[Boot]
    BY <1>1, Names DEF CopyKernel, IInv, TypeOK
  <2>6. \A c \in Cpus : ~ApStart(c) /\ ~CloneInit(c)
    BY <2>1 DEF ApStart, CloneInit, At, Booting
  <2>7. ~MmSetup /\ ~BspSetup
    BY <2>1, BspAssumption DEF MmSetup, BspSetup, At, Booting
  <2>8. QED
    BY <1>1, <2>2, <2>3, <2>4, <2>5, <2>6, <2>7
       DEF Next, vars, StartCpus, EndEarly, Halted, ChangeTable, Drop, SetCurrent, Share
<1>2. IInv /\ [Next]_vars => [~early => entries'[Boot] = entries[Boot]]_vars
  BY <1>1
<1>3. QED  BY Invariant, <1>2, PTL DEF Spec, InitFrozen
=============================================================================
