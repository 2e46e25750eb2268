-------------------------- MODULE PageTableProofs --------------------------
(***************************************************************************)
(* Proofs about PageTable for CPUs that keep out of each other's subtrees  *)
(* (Apart), for any number of CPUs, levels, entries and frames: FramesOnce *)
(* holds, and the tables implement PageMap.                                *)
(*                                                                         *)
(* No state of the code says which frames are tables, of which level and   *)
(* for which addresses, and the tables are being built while others walk   *)
(* them.  The invariant gives the frames labels: a level, 0 for what is    *)
(* not a table, and an address whose walk leads there (Labels).  By        *)
(* EntryOk a present entry leads to a table one level down on the way to   *)
(* the same addresses, by Unique there is one table for a level and a way: *)
(* the tables are a tree.  Held says where each frame is, Separate that    *)
(* two CPUs in the middle of a walk are not in one subtree, TaskOk what a  *)
(* CPU knows of the table it has reached.  A new table is labelled when it *)
(* is taken, before an entry leads to it; until then it is in the hands of *)
(* its CPU.                                                                *)
(*                                                                         *)
(* For the refinement, translate is characterised by the labels instead of *)
(* its recursion (TranslateOk): it finds the entry of the one table of the *)
(* last level on the way.  Then only the write that marks a page present   *)
(* and the one that clears it change what is translated.                   *)
(***************************************************************************)
EXTENDS PageTable, TLAPS

-----------------------------------------------------------------------------
(* The invariant.                                                          *)

Memory == Frames \cup {Root}
Entry  == [present : BOOLEAN, addr : Frames \cup {Null, Device}]

Pcs ==
  {"fetch", "frame", "walk", "table", "add_flags", "set_address", "check", "address",
   "flags", "clear", "drop"}
Tasks ==
  [op    : {"fault", "map", "unmap"}, pc : Pcs,
   at    : Address, level : 1 .. Depth, table : Memory,
   frame : Frames \cup {Null, Device}, new : Frames \cup {Null}]

Types ==
  /\ mem \in [Memory -> [Index -> Entry]]
  /\ pool \subseteq Frames
  /\ task \in [Cpus -> Tasks \cup {Idle}]

\* An entry and a CPU that have a frame, and the entry a CPU has reached.
Has(t, i, f) == mem[t][i].present /\ mem[t][i].addr = f
Keeps(c, f)  == task[c] # Idle /\ (task[c].frame = f \/ task[c].new = f)
Here(c, t, i) ==
  task[c] # Idle /\ t = task[c].table /\ i = task[c].at[task[c].level]

\* The labels: the level of each table, 0 for what is none, and an address
\* whose walk goes through it.
Labels(lvl, pre) ==
  /\ lvl \in [Memory -> 0 .. Depth] /\ pre = [t \in Memory |-> pre[t]]
  /\ lvl[Root] = 1 /\ (\A f \in Frames : lvl[f] # 1)
  /\ \A f \in pool : lvl[f] = 0

\* Table t is on the way to address a.
OnPath(lvl, pre, t, a) == \A j \in 1 .. lvl[t] - 1 : pre[t][j] = a[j]

Child(lvl, pre, t, i, f) ==
  /\ lvl[f] = lvl[t] + 1 /\ pre[f][lvl[t]] = i
  /\ \A j \in 1 .. lvl[t] - 1 : pre[f][j] = pre[t][j]

EntryOk(lvl, pre, t, i) ==
  /\ lvl[t] = 0 => mem[t][i].addr = Null
  /\ lvl[t] = Depth /\ mem[t][i].present =>
       mem[t][i].addr # Null /\ (mem[t][i].addr \in Frames => lvl[mem[t][i].addr] = 0)
  /\ lvl[t] \in 1 .. Depth - 1 =>
       \/ /\ mem[t][i].addr = Null
          /\ mem[t][i].present =>
               \E c \in Cpus : Here(c, t, i) /\ task[c].pc = "set_address"
       \/ /\ mem[t][i].present /\ mem[t][i].addr \in Frames
          /\ Child(lvl, pre, t, i, mem[t][i].addr)

\* No two tables are at the same place.
Unique(lvl, pre) ==
  \A t, u \in Memory :
    lvl[t] = lvl[u] /\ lvl[t] # 0 /\ OnPath(lvl, pre, t, pre[u]) => t = u

Held ==
  /\ \A t, u \in Memory, i, j \in Index, f \in Frames :
       Has(t, i, f) /\ Has(u, j, f) => t = u /\ i = j
  /\ \A t \in Memory, i \in Index, f \in Frames :
       Has(t, i, f) => f \notin pool /\ \A c \in Cpus : ~Keeps(c, f)
  /\ \A c \in Cpus, f \in Frames : Keeps(c, f) => f \notin pool
  /\ \A c, d \in Cpus, f \in Frames : Keeps(c, f) /\ Keeps(d, f) => c = d
  /\ \A f \in Frames : \/ f \in pool \/ (\E c \in Cpus : Keeps(c, f))
                       \/ \E t \in Memory, i \in Index : Has(t, i, f)

Unmapped(lvl, pre, a) ==
  \A t \in Memory : lvl[t] = Depth /\ OnPath(lvl, pre, t, a) => ~mem[t][a[Depth]].present

\* What CPU c knows of the place it has reached and of what it has.
TaskOk(lvl, pre, c) ==
  LET t == task[c] IN
  task[c] # Idle =>
    /\ lvl[t.table] = t.level /\ OnPath(lvl, pre, t.table, t.at)
    /\ t.frame \in Frames => lvl[t.frame] = 0
    /\ t.pc \in {"add_flags", "set_address"} =>
         /\ t.new \in Frames /\ lvl[t.new] = t.level + 1 /\ mem[t.new] = Zeroed
         /\ OnPath(lvl, pre, t.new, t.at)
    /\ t.pc \notin {"add_flags", "set_address"} => t.new = Null
    /\ t.pc \in {"table", "add_flags"} => t.level # Depth /\ EntryOf(c) = Clear
    /\ t.pc = "set_address" =>
         t.level # Depth /\ EntryOf(c) = [present |-> TRUE, addr |-> Null]
    /\ t.pc \in {"check", "address", "flags", "clear"} => t.level = Depth
    /\ t.pc \in {"address", "flags"} => t.frame # Null /\ ~EntryOf(c).present
    /\ t.pc = "flags" => EntryOf(c).addr = t.frame
    /\ t.pc = "clear" => EntryOf(c).present
    /\ t.pc \in {"fetch", "frame", "clear"} => t.frame = Null
    /\ t.pc = "drop" => t.frame \in Frames
    /\ t.pc = "frame" => t.op = "fault"
    /\ t.pc \in {"walk", "table", "add_flags", "set_address", "check"} =>
         t.op = "fault" \/ t.frame \notin Frames
    /\ t.op = "fault" /\ t.pc # "fetch" => Unmapped(lvl, pre, t.at)

Separate ==
  \A c, d \in Cpus : c # d /\ task[c] # Idle /\ task[d] # Idle =>
    task[c].at[1] # task[d].at[1]

Inv(lvl, pre) ==
  /\ Types /\ Labels(lvl, pre) /\ Unique(lvl, pre) /\ Held /\ Separate
  /\ \A t \in Memory, i \in Index : EntryOk(lvl, pre, t, i)
  /\ \A c \in Cpus : TaskOk(lvl, pre, c)

Core == \E lvl, pre : Inv(lvl, pre)

IInv == Core /\ halted \in {"no", "out of memory"}
-----------------------------------------------------------------------------
(* Facts about constants and operators.                                    *)

LEMMA Consts ==
  /\ Depth \in Nat \ {0} /\ NFrames \in Nat /\ 1 \in 1 .. Depth /\ Depth \in 1 .. Depth
  /\ Frames \subseteq Nat
  /\ Null \notin Frames /\ Root \notin Frames /\ Device \notin Frames
  /\ Null # Root /\ Null # Device /\ Root # Device /\ Null \notin Memory
BY DepthAssumption DEF Frames, Null, Root, Device, Memory

\* The naturals are well ordered: proved at the end (LeastHolds), and assumed by
\* name until then, so that the library it comes from is not in scope before.
Least == \A S \in SUBSET Nat : S # {} => \E x \in S : \A y \in S : x <= y

\* The frame allocator hands out a free frame.
LEMMA MinIn ==
  ASSUME Least, NEW S \in SUBSET Frames, S # {}
  PROVE  Min(S) \in S
<1>1. S \in SUBSET Nat  BY Consts, Zenon
<1>2. \E x \in S : \A y \in S : x <= y  BY <1>1, Zenon DEF Least
<1>3. QED  BY <1>2, Zenon DEF Min

LEMMA TaskFields ==
  ASSUME NEW t \in Tasks
  PROVE  /\ t.op \in {"fault", "map", "unmap"}
         /\ t.pc \in Pcs
         /\ t.at \in Address /\ t.at \in [1 .. Depth -> Index] /\ t.level \in 1 .. Depth
         /\ t.table \in Memory
         /\ t.frame \in Frames \cup {Null, Device} /\ t.new \in Frames \cup {Null}
         /\ t.at[t.level] \in Index /\ t.at[1] \in Index /\ t.at[Depth] \in Index
         /\ t # Idle
<1>1. /\ t.op \in {"fault", "map", "unmap"}
      /\ t.pc \in Pcs
      /\ t.at \in Address /\ t.level \in 1 .. Depth /\ t.table \in Memory
      /\ t.frame \in Frames \cup {Null, Device} /\ t.new \in Frames \cup {Null}
  BY DEF Tasks
<1>2. t.at \in [1 .. Depth -> Index]  BY <1>1, AddressAssumption, Zenon
<1>3. t.at[t.level] \in Index /\ t.at[1] \in Index /\ t.at[Depth] \in Index
  BY <1>1, <1>2, Consts, Zenon
<1>4. t # Idle
  <2>1. Idle.pc = "idle" /\ t.pc # "idle"  BY <1>1 DEF Idle, Pcs
  <2>2. QED  BY <2>1, Zenon
<1>5. QED  BY <1>1, <1>2, <1>3, <1>4, Zenon

LEMMA Busy ==
  ASSUME Types, NEW c \in Cpus, NEW label, label # "idle", At(c, label)
  PROVE  /\ halted = "no" /\ task[c].pc = label /\ task[c] # Idle /\ task[c] \in Tasks
         /\ EntryOf(c) \in Entry /\ Here(c, task[c].table, task[c].at[task[c].level])
<1>1. halted = "no" /\ task[c].pc = label  BY Zenon DEF At
<1>2. Idle.pc = "idle"  BY DEF Idle
<1>3. task[c] # Idle  BY <1>1, <1>2, Zenon
<1>4. task[c] \in Tasks  BY <1>3, Zenon DEF Types
<1>5. EntryOf(c) \in Entry  BY <1>4, TaskFields, Zenon DEF EntryOf, Types
<1>6. QED  BY <1>1, <1>3, <1>4, <1>5, Zenon DEF Here

\* A write to an entry.
LEMMA Write ==
  ASSUME Types, NEW t \in Memory, NEW i \in Index, NEW e \in Entry,
         mem' = [mem EXCEPT ![t][i] = e]
  PROVE  /\ mem' \in [Memory -> [Index -> Entry]] /\ mem'[t][i] = e
         /\ \A u \in Memory : u # t => mem'[u] = mem[u]
         /\ \A u \in Memory, j \in Index : u # t \/ j # i => mem'[u][j] = mem[u][j]
BY DEF Types

-----------------------------------------------------------------------------
(* CPUs in different subtrees do not meet.                                 *)

LEMMA Alone ==
  ASSUME NEW lvl, NEW pre, Inv(lvl, pre), NEW c \in Cpus, NEW d \in Cpus, c # d,
         task[c] # Idle, task[d] # Idle,
         NEW t \in Memory, lvl[t] # 0, OnPath(lvl, pre, t, task[c].at)
  PROVE  /\ ~Here(d, t, task[c].at[lvl[t]])
         /\ lvl[t] # 1 => task[d].table # t
<1>1. task[c] \in Tasks /\ task[d] \in Tasks  BY Zenon DEF Inv, Types
<1>2. task[c].at[1] # task[d].at[1]  BY Zenon DEF Inv, Separate
<1>3. lvl[t] \in 0 .. Depth  BY Zenon DEF Inv, Labels
<1>4. CASE task[d].table = t
  <2>1. lvl[t] = task[d].level /\ OnPath(lvl, pre, t, task[d].at)
    BY <1>4, Zenon DEF Inv, TaskOk
  <2>2. lvl[t] = 1
    <3>1. SUFFICES ASSUME lvl[t] # 1  PROVE FALSE  BY Zenon
    <3>2. 1 \in 1 .. lvl[t] - 1  BY <1>3, <3>1, Consts
    <3>3. pre[t][1] = task[c].at[1] /\ pre[t][1] = task[d].at[1]
      BY <2>1, <3>2, Zenon DEF OnPath
    <3>4. QED  BY <1>2, <3>3, Zenon
  <2>3. QED  BY <1>2, <2>1, <2>2, Zenon DEF Here
<1>5. CASE task[d].table # t  BY <1>5, Zenon DEF Here
<1>6. QED  BY <1>4, <1>5, Zenon

\* A step of c changes mem only at the entry it has reached.
Local(c) ==
  /\ \A t \in Memory, i \in Index : ~Here(c, t, i) => mem'[t][i] = mem[t][i]
  /\ \A t \in Memory : mem'[t] = mem[t] \/ (task[c] # Idle /\ t = task[c].table)

LEMMA UnmappedSame ==
  ASSUME NEW lvl, NEW pre, NEW d, task'[d] = task[d],
         \A t \in Memory : lvl[t] = Depth /\ OnPath(lvl, pre, t, task[d].at) =>
           mem'[t][task[d].at[Depth]] = mem[t][task[d].at[Depth]]
  PROVE  Unmapped(lvl, pre, task[d].at) => Unmapped(lvl, pre, task[d].at)'
<1>1. ASSUME NEW a
      PROVE  Unmapped(lvl, pre, a)' <=>
               \A t \in Memory : lvl[t] = Depth /\ OnPath(lvl, pre, t, a) =>
                 ~mem'[t][a[Depth]].present
  BY Zenon DEF Unmapped, OnPath
<1>2. Unmapped(lvl, pre, task[d].at) => \A t \in Memory :
        lvl[t] = Depth /\ OnPath(lvl, pre, t, task[d].at) =>
          ~mem'[t][task[d].at[Depth]].present
  BY Zenon DEF Unmapped
<1>3. QED  BY <1>1, <1>2

LEMMA OtherTask ==
  ASSUME NEW lvl, NEW pre, Inv(lvl, pre), NEW c \in Cpus, NEW d \in Cpus, c # d,
         task'[d] = task[d], Local(c)
  PROVE  TaskOk(lvl, pre, d)'
<1>1. CASE task[d] = Idle  BY <1>1, Zenon DEF TaskOk
<1>2. CASE task[d] # Idle
  <2>1. TaskOk(lvl, pre, d) /\ task[d] \in Tasks  BY <1>2, Zenon DEF Inv, Types
  <2>2. /\ lvl[task[d].table] = task[d].level
        /\ OnPath(lvl, pre, task[d].table, task[d].at)
    BY <1>2, <2>1, Zenon DEF TaskOk
  <2>3. task[d].level # 0 /\ task[d].level # 1 - 1  BY <2>1, TaskFields
  <2>4. EntryOf(d)' = EntryOf(d)
    <3>1. ~Here(c, task[d].table, task[d].at[task[d].level])
      <4>1. CASE task[c] = Idle  BY <4>1, Zenon DEF Here
      <4>2. CASE task[c] # Idle
        <5>1. ~Here(c, task[d].table, task[d].at[lvl[task[d].table]])
          BY <1>2, <2>1, <2>2, <2>3, <4>2, Alone, TaskFields, Zenon
        <5>2. QED  BY <2>2, <5>1, Zenon
      <4>3. QED  BY <4>1, <4>2, Zenon
    <3>2. mem'[task[d].table][task[d].at[task[d].level]]
            = mem[task[d].table][task[d].at[task[d].level]]
      BY <2>1, <3>1, TaskFields, Zenon DEF Local
    <3>3. QED  BY <3>2, Zenon DEF EntryOf
  <2>5. ASSUME task[d].pc \in {"add_flags", "set_address"}
        PROVE  mem'[task[d].new] = mem[task[d].new]
    <3>1. /\ task[d].new \in Frames /\ lvl[task[d].new] = task[d].level + 1
          /\ OnPath(lvl, pre, task[d].new, task[d].at)
      BY <1>2, <2>1, <2>5, Zenon DEF TaskOk
    <3>2. lvl[task[d].new] # 0 /\ lvl[task[d].new] # 1  BY <2>1, <3>1, TaskFields
    <3>3. task[d].new \in Memory  BY <3>1, Zenon DEF Memory
    <3>4. task[c] # Idle => task[c].table # task[d].new
      BY <1>2, <3>1, <3>2, <3>3, Alone, Zenon
    <3>5. QED  BY <3>3, <3>4, Zenon DEF Local
  <2>6. Unmapped(lvl, pre, task[d].at) => Unmapped(lvl, pre, task[d].at)'
    <3>1. ASSUME NEW t \in Memory, lvl[t] = Depth, OnPath(lvl, pre, t, task[d].at)
          PROVE  mem'[t][task[d].at[Depth]] = mem[t][task[d].at[Depth]]
      <4>1. ~Here(c, t, task[d].at[Depth])
        <5>1. CASE task[c] = Idle  BY <5>1, Zenon DEF Here
        <5>2. CASE task[c] # Idle
          <6>0. lvl[t] # 0  BY <3>1, Consts
          <6>1. ~Here(c, t, task[d].at[lvl[t]])  BY <1>2, <3>1, <5>2, <6>0, Alone, Zenon
          <6>2. QED  BY <3>1, <6>1, Zenon
        <5>3. QED  BY <5>1, <5>2, Zenon
      <4>2. QED  BY <2>1, <4>1, TaskFields, Zenon DEF Local
    <3>2. QED  BY <3>1, UnmappedSame, Zenon
  <2>7. QED  BY <1>2, <2>1, <2>4, <2>5, <2>6, Zenon DEF TaskOk, OnPath
<1>3. QED  BY <1>1, <1>2, Zenon
-----------------------------------------------------------------------------
(* What a step has to show.                                                *)

LEMMA OtherEntry ==
  ASSUME NEW lvl, NEW pre, Inv(lvl, pre), NEW c \in Cpus,
         \A d \in Cpus : d # c => task'[d] = task[d],
         NEW t \in Memory, NEW i \in Index, mem'[t][i] = mem[t][i],
         ~Here(c, t, i) \/ task[c].pc # "set_address"
  PROVE  EntryOk(lvl, pre, t, i)'
<1>1. EntryOk(lvl, pre, t, i)  BY Zenon DEF Inv
<1>2. ASSUME NEW d \in Cpus, Here(d, t, i), task[d].pc = "set_address"
      PROVE  Here(d, t, i)' /\ task'[d].pc = "set_address"
  <2>1. d # c  BY <1>2, Zenon
  <2>2. QED  BY <1>2, <2>1, Zenon DEF Here
<1>3. lvl[t] = 0 => mem'[t][i].addr = Null  BY <1>1, Zenon DEF EntryOk
<1>4. lvl[t] = Depth /\ mem'[t][i].present =>
       mem'[t][i].addr # Null /\ (mem'[t][i].addr \in Frames => lvl[mem'[t][i].addr] = 0)
  BY <1>1, Zenon DEF EntryOk
<1>5. lvl[t] \in 1 .. Depth - 1 =>
       \/ /\ mem'[t][i].addr = Null
          /\ mem'[t][i].present =>
               \E d \in Cpus : Here(d, t, i)' /\ task'[d].pc = "set_address"
       \/ /\ mem'[t][i].present /\ mem'[t][i].addr \in Frames
          /\ Child(lvl, pre, t, i, mem'[t][i].addr)
  BY <1>1, <1>2, Zenon DEF EntryOk
<1>6. QED  BY <1>3, <1>4, <1>5, Zenon DEF EntryOk, Child

LEMMA StepInv ==
  ASSUME NEW lvl, NEW pre, Inv(lvl, pre), NEW c \in Cpus, NEW u \in Tasks \cup {Idle},
         task' = [task EXCEPT ![c] = u], mem' \in [Memory -> [Index -> Entry]],
         pool' \subseteq Frames, \A f \in pool' : lvl[f] = 0,
         Local(c), Separate', TaskOk(lvl, pre, c)', Held',
         \A t \in Memory, i \in Index : Here(c, t, i) => EntryOk(lvl, pre, t, i)'
  PROVE  Inv(lvl, pre)'
<1>1. /\ task' \in [Cpus -> Tasks \cup {Idle}]
      /\ \A d \in Cpus : d # c => task'[d] = task[d]
  BY Zenon DEF Inv, Types
<1>2. Types'  BY <1>1, Zenon DEF Types
<1>3. Labels(lvl, pre)'  BY Zenon DEF Inv, Labels
<1>4. Unique(lvl, pre)'  BY Zenon DEF Inv, Unique, OnPath
<1>5. \A d \in Cpus : TaskOk(lvl, pre, d)'  BY <1>1, OtherTask, Zenon
<1>6. ASSUME NEW t \in Memory, NEW i \in Index, ~Here(c, t, i)
      PROVE  EntryOk(lvl, pre, t, i)'
  BY <1>1, <1>6, OtherEntry, Zenon DEF Local
<1>7. QED  BY <1>2, <1>3, <1>4, <1>5, <1>6, Zenon DEF Inv

LEMMA SeparateKept ==
  ASSUME Separate, Types, NEW c \in Cpus, NEW u \in Tasks \cup {Idle},
         task' = [task EXCEPT ![c] = u],
         u = Idle \/ (task[c] # Idle /\ u.at = task[c].at)
  PROVE  Separate'
<1>1. task'[c] = u /\ \A d \in Cpus : d # c => task'[d] = task[d]  BY Zenon DEF Types
<1>2. \A d \in Cpus : task'[d] # Idle => task[d] # Idle /\ task'[d].at = task[d].at
  BY <1>1, Zenon
<1>3. QED  BY <1>2 DEF Separate

-----------------------------------------------------------------------------
(* Frames change hands.                                                    *)

LEMMA HeldSame ==
  ASSUME Held, pool' = pool,
         \A t \in Memory, i \in Index, f \in Frames : Has(t, i, f)' <=> Has(t, i, f),
         \A d \in Cpus, f \in Frames : Keeps(d, f)' <=> Keeps(d, f)
  PROVE  Held'
BY DEF Held

\* A step puts frame f in entry k of s, takes what was there, and CPU c lets go
\* of f or takes it.
Stores(s, k, f) ==
  \A t \in Memory, i \in Index, g \in Frames :
    Has(t, i, g)' <=> Has(t, i, g) \/ (t = s /\ i = k /\ g = f)
Fetches(s, k) ==
  \A t \in Memory, i \in Index, g \in Frames :
    Has(t, i, g)' <=> Has(t, i, g) /\ ~(t = s /\ i = k)
Releases(c, f) ==
  \A d \in Cpus, g \in Frames : Keeps(d, g)' <=> Keeps(d, g) /\ ~(d = c /\ g = f)
Takes(c, f) ==
  \A d \in Cpus, g \in Frames : Keeps(d, g)' <=> Keeps(d, g) \/ (d = c /\ g = f)

LEMMA HeldTake ==
  ASSUME Held, NEW c \in Cpus, NEW f \in pool, f \in Frames, pool' = pool \ {f},
         \A t \in Memory, i \in Index, g \in Frames : Has(t, i, g)' <=> Has(t, i, g),
         \A d \in Cpus, g \in Frames : Keeps(d, g)' <=> Keeps(d, g) \/ (d = c /\ g = f)
  PROVE  Held'
<1>1. \A t \in Memory, i \in Index : ~Has(t, i, f)  BY Zenon DEF Held
<1>2. \A d \in Cpus : ~Keeps(d, f)  BY Zenon DEF Held
<1>3. ASSUME NEW t \in Memory, NEW i \in Index, NEW g \in Frames, Has(t, i, g)'
      PROVE  g \notin pool' /\ \A d \in Cpus : ~Keeps(d, g)'
  <2>1. Has(t, i, g) /\ g # f  BY <1>1, <1>3, Zenon
  <2>2. QED  BY <2>1, Zenon DEF Held
<1>4. ASSUME NEW d \in Cpus, NEW g \in Frames, Keeps(d, g)'
      PROVE  g \notin pool' /\ \A e \in Cpus : Keeps(e, g)' => d = e
  <2>1. CASE g = f  BY <1>2, <1>4, <2>1, Zenon
  <2>2. CASE g # f  BY <1>4, <2>2, Zenon DEF Held
  <2>3. QED  BY <2>1, <2>2, Zenon
<1>5. ASSUME NEW g \in Frames
      PROVE  \/ g \in pool' \/ (\E d \in Cpus : Keeps(d, g)')
             \/ \E t \in Memory, i \in Index : Has(t, i, g)'
  BY Zenon DEF Held
<1>6. \A t, u \in Memory, i, j \in Index, g \in Frames :
       Has(t, i, g)' /\ Has(u, j, g)' => t = u /\ i = j
  BY DEF Held
<1>7. QED  BY <1>3, <1>4, <1>5, <1>6, Zenon DEF Held

LEMMA HeldGive ==
  ASSUME Held, NEW c \in Cpus, NEW f \in Frames, Keeps(c, f), pool' = pool \cup {f},
         \A t \in Memory, i \in Index, g \in Frames : Has(t, i, g)' <=> Has(t, i, g),
         Releases(c, f)
  PROVE  Held'
<1> USE DEF Releases
<1>1. \A t \in Memory, i \in Index : ~Has(t, i, f)  BY Zenon DEF Held
<1>2. \A d \in Cpus : ~Keeps(d, f)'  BY Zenon DEF Held
<1>3. ASSUME NEW t \in Memory, NEW i \in Index, NEW g \in Frames, Has(t, i, g)'
      PROVE  g \notin pool' /\ \A d \in Cpus : ~Keeps(d, g)'
  <2>1. Has(t, i, g) /\ g # f  BY <1>1, <1>3, Zenon
  <2>2. QED  BY <2>1, Zenon DEF Held
<1>4. ASSUME NEW d \in Cpus, NEW g \in Frames, Keeps(d, g)'
      PROVE  g \notin pool' /\ \A e \in Cpus : Keeps(e, g)' => d = e
  <2>1. g # f /\ Keeps(d, g)  BY <1>2, <1>4, Zenon
  <2>2. QED  BY <2>1, Zenon DEF Held
<1>5. ASSUME NEW g \in Frames
      PROVE  \/ g \in pool' \/ (\E d \in Cpus : Keeps(d, g)')
             \/ \E t \in Memory, i \in Index : Has(t, i, g)'
  BY Zenon DEF Held
<1>6. \A t, u \in Memory, i, j \in Index, g \in Frames :
       Has(t, i, g)' /\ Has(u, j, g)' => t = u /\ i = j
  BY DEF Held
<1>7. QED  BY <1>3, <1>4, <1>5, <1>6, Zenon DEF Held

LEMMA HeldStore ==
  ASSUME Held, NEW c \in Cpus, NEW f \in Frames, Keeps(c, f), pool' = pool,
         NEW s \in Memory, NEW k \in Index, Stores(s, k, f), Releases(c, f)
  PROVE  Held'
<1> USE DEF Stores, Releases
<1>1. f \notin pool /\ \A t \in Memory, i \in Index : ~Has(t, i, f)  BY Zenon DEF Held
<1>2. \A d \in Cpus : ~Keeps(d, f)'  BY Zenon DEF Held
<1>3. ASSUME NEW t \in Memory, NEW i \in Index, NEW g \in Frames, Has(t, i, g)'
      PROVE  g \notin pool' /\ \A d \in Cpus : ~Keeps(d, g)'
  <2>1. CASE g = f  BY <1>1, <1>2, <2>1, Zenon
  <2>2. CASE g # f
    <3>1. Has(t, i, g)  BY <1>3, <2>2, Zenon
    <3>2. QED  BY <3>1, Zenon DEF Held
  <2>3. QED  BY <2>1, <2>2, Zenon
<1>4. ASSUME NEW d \in Cpus, NEW g \in Frames, Keeps(d, g)'
      PROVE  g \notin pool' /\ \A e \in Cpus : Keeps(e, g)' => d = e
  <2>1. g # f /\ Keeps(d, g)  BY <1>2, <1>4, Zenon
  <2>2. QED  BY <2>1, Zenon DEF Held
<1>5. ASSUME NEW g \in Frames
      PROVE  \/ g \in pool' \/ (\E d \in Cpus : Keeps(d, g)')
             \/ \E t \in Memory, i \in Index : Has(t, i, g)'
  <2>1. CASE g = f  BY <2>1, Zenon
  <2>2. CASE g # f  BY <2>2, Zenon DEF Held
  <2>3. QED  BY <2>1, <2>2, Zenon
<1>6. ASSUME NEW t \in Memory, NEW u \in Memory, NEW i \in Index, NEW j \in Index,
             NEW g \in Frames, Has(t, i, g)', Has(u, j, g)'
      PROVE  t = u /\ i = j
  <2>1. CASE g = f
    <3>1. (t = s /\ i = k) /\ (u = s /\ j = k)  BY <1>1, <1>6, <2>1, Zenon
    <3>2. QED  BY <3>1, Zenon
  <2>2. CASE g # f
    <3>1. Has(t, i, g) /\ Has(u, j, g)  BY <1>6, <2>2, Zenon
    <3>2. QED  BY <3>1, Zenon DEF Held
  <2>3. QED  BY <2>1, <2>2, Zenon
<1>7. QED  BY <1>3, <1>4, <1>5, <1>6 DEF Held

LEMMA HeldFetch ==
  ASSUME Held, NEW c \in Cpus, NEW f \in Frames, pool' = pool,
         NEW s \in Memory, NEW k \in Index, Has(s, k, f), Fetches(s, k), Takes(c, f)
  PROVE  Held'
<1> USE DEF Fetches, Takes
<1>1. f \notin pool /\ \A d \in Cpus : ~Keeps(d, f)  BY Zenon DEF Held
<1>2. \A t \in Memory, i \in Index : Has(t, i, f) => t = s /\ i = k  BY Zenon DEF Held
<1>3. ASSUME NEW t \in Memory, NEW i \in Index, NEW g \in Frames, Has(t, i, g)'
      PROVE  g \notin pool' /\ \A d \in Cpus : ~Keeps(d, g)'
  <2>1. Has(t, i, g) /\ g # f  BY <1>2, <1>3, Zenon
  <2>2. QED  BY <2>1, Zenon DEF Held
<1>4. ASSUME NEW d \in Cpus, NEW g \in Frames, Keeps(d, g)'
      PROVE  g \notin pool' /\ \A e \in Cpus : Keeps(e, g)' => d = e
  <2>1. CASE g = f  BY <1>1, <1>4, <2>1, Zenon
  <2>2. CASE g # f  BY <1>4, <2>2, Zenon DEF Held
  <2>3. QED  BY <2>1, <2>2, Zenon
<1>5. ASSUME NEW g \in Frames
      PROVE  \/ g \in pool' \/ (\E d \in Cpus : Keeps(d, g)')
             \/ \E t \in Memory, i \in Index : Has(t, i, g)'
  <2>1. CASE g = f  BY <2>1, Zenon
  <2>2. CASE g # f
    <3>1. ~Has(s, k, g)
      <4>1. mem[s][k].addr = f  BY Zenon DEF Has
      <4>2. QED  BY <2>2, <4>1, Zenon DEF Has
    <3>2. QED  BY <2>2, <3>1 DEF Held
  <2>3. QED  BY <2>1, <2>2, Zenon
<1>6. \A t, u \in Memory, i, j \in Index, g \in Frames :
       Has(t, i, g)' /\ Has(u, j, g)' => t = u /\ i = j
  BY DEF Held
<1>7. QED  BY <1>3, <1>4, <1>5, <1>6, Zenon DEF Held
-----------------------------------------------------------------------------
(* The steps that leave the tables alone.                                  *)

LEMMA PanicStep ==
  ASSUME NEW lvl, NEW pre, Inv(lvl, pre), UNCHANGED <<mem, pool, task>>
  PROVE  Inv(lvl, pre)'
<1>1. mem' = mem /\ pool' = pool /\ task' = task  OBVIOUS
<1>2. Types' /\ Separate'  BY <1>1, Zenon DEF Inv, Types, Separate
<1>3. Labels(lvl, pre)'  BY <1>1, Zenon DEF Inv, Labels
<1>4. Unique(lvl, pre)'  BY Zenon DEF Inv, Unique, OnPath
<1>5. Held'
  <2>1. Held  BY Zenon DEF Inv
  <2>2. \A t \in Memory, i \in Index, f \in Frames : Has(t, i, f)' <=> Has(t, i, f)
    BY <1>1, Zenon DEF Has
  <2>3. \A d \in Cpus, f \in Frames : Keeps(d, f)' <=> Keeps(d, f)  BY <1>1, Zenon DEF Keeps
  <2>4. QED  BY <1>1, <2>1, <2>2, <2>3, HeldSame, Zenon
<1>6. ASSUME NEW t \in Memory, NEW i \in Index  PROVE EntryOk(lvl, pre, t, i)'
  <2>1. EntryOk(lvl, pre, t, i)  BY Zenon DEF Inv
  <2>2. \A d \in Cpus : Here(d, t, i) => Here(d, t, i)'  BY <1>1, Zenon DEF Here
  <2>3. QED  BY <1>1, <2>1, <2>2, Zenon DEF EntryOk, Child
<1>7. ASSUME NEW d \in Cpus  PROVE TaskOk(lvl, pre, d)'
  <2>1. TaskOk(lvl, pre, d) /\ EntryOf(d)' = EntryOf(d) /\ task'[d] = task[d]
    BY <1>1, Zenon DEF Inv, EntryOf
  <2>2. Unmapped(lvl, pre, task[d].at)' <=> Unmapped(lvl, pre, task[d].at)
    BY <1>1, Zenon DEF Unmapped, OnPath
  <2>3. QED  BY <1>1, <2>1, <2>2, Zenon DEF TaskOk, OnPath
<1>8. QED  BY <1>2, <1>3, <1>4, <1>5, <1>6, <1>7, Zenon DEF Inv

LEMMA MoveStep ==
  ASSUME NEW lvl, NEW pre, Inv(lvl, pre), NEW c \in Cpus, NEW u \in Tasks \cup {Idle},
         task' = [task EXCEPT ![c] = u], mem' = mem, pool' = pool,
         task[c].pc # "set_address", Separate', TaskOk(lvl, pre, c)',
         \A f \in Frames : Keeps(c, f)' <=> Keeps(c, f)
  PROVE  Inv(lvl, pre)'
<1>1. \A d \in Cpus : d # c => task'[d] = task[d]  BY Zenon DEF Inv, Types
<1>2. Held'
  <2>1. Held  BY Zenon DEF Inv
  <2>2. \A t \in Memory, i \in Index, f \in Frames : Has(t, i, f)' <=> Has(t, i, f)
    BY Zenon DEF Has
  <2>3. \A d \in Cpus, f \in Frames : Keeps(d, f)' <=> Keeps(d, f)
    <3>1. \A d \in Cpus, f \in Frames : d # c => (Keeps(d, f)' <=> Keeps(d, f))
      BY <1>1, Zenon DEF Keeps
    <3>2. QED  BY <3>1, Zenon
  <2>4. QED  BY <2>1, <2>2, <2>3, HeldSame, Zenon
<1>3. \A t \in Memory, i \in Index : EntryOk(lvl, pre, t, i)'  BY <1>1, OtherEntry, Zenon
<1>4. Local(c)  BY Zenon DEF Local
<1>5. /\ mem' \in [Memory -> [Index -> Entry]] /\ pool' \subseteq Frames
      /\ \A f \in pool' : lvl[f] = 0
  BY Zenon DEF Inv, Types, Labels
<1>6. QED  BY <1>2, <1>3, <1>4, <1>5, StepInv, Zenon

LEMMA TakeStep ==
  ASSUME NEW lvl, NEW pre, Inv(lvl, pre), NEW c \in Cpus, NEW u \in Tasks \cup {Idle},
         task' = [task EXCEPT ![c] = u], mem' = mem, NEW f \in pool, pool' = pool \ {f},
         task[c].pc # "set_address", Separate', TaskOk(lvl, pre, c)',
         \A g \in Frames : Keeps(c, g)' <=> Keeps(c, g) \/ g = f
  PROVE  Inv(lvl, pre)'
<1>1. \A d \in Cpus : d # c => task'[d] = task[d]  BY Zenon DEF Inv, Types
<1>2. Held'
  <2>1. Held /\ f \in Frames  BY Zenon DEF Inv, Types
  <2>2. \A t \in Memory, i \in Index, g \in Frames : Has(t, i, g)' <=> Has(t, i, g)
    BY Zenon DEF Has
  <2>3. \A d \in Cpus, g \in Frames : Keeps(d, g)' <=> Keeps(d, g) \/ (d = c /\ g = f)
    <3>1. \A d \in Cpus, g \in Frames : d # c => (Keeps(d, g)' <=> Keeps(d, g))
      BY <1>1, Zenon DEF Keeps
    <3>2. QED  BY <3>1, Zenon
  <2>4. QED  BY <2>1, <2>2, <2>3, HeldTake, Zenon
<1>3. \A t \in Memory, i \in Index : EntryOk(lvl, pre, t, i)'  BY <1>1, OtherEntry, Zenon
<1>4. Local(c)  BY Zenon DEF Local
<1>5. /\ mem' \in [Memory -> [Index -> Entry]] /\ pool' \subseteq Frames
      /\ \A g \in pool' : lvl[g] = 0
  BY Zenon DEF Inv, Types, Labels
<1>6. QED  BY <1>2, <1>3, <1>4, <1>5, StepInv, Zenon

\* Through a present entry above the pages is the table on the way to the page.
LEMMA DownOk ==
  ASSUME NEW lvl, NEW pre, Inv(lvl, pre), NEW c \in Cpus, task[c] # Idle,
         task[c].level < Depth, EntryOf(c).present, task[c].pc # "set_address"
  PROVE  LET f == EntryOf(c).addr IN
         /\ f \in Frames /\ lvl[f] = task[c].level + 1 /\ OnPath(lvl, pre, f, task[c].at)
<1> DEFINE t == task[c].table
           l == task[c].level
           a == task[c].at
           i == a[l]
           f == EntryOf(c).addr
<1>1. /\ task[c] \in Tasks /\ t \in Memory /\ i \in Index /\ l \in 1 .. Depth
  BY TaskFields, Zenon DEF Inv, Types
<1>2. lvl[t] = l /\ OnPath(lvl, pre, t, a)  BY Zenon DEF Inv, TaskOk
<1>3. l \in 1 .. Depth - 1 /\ l # 0  BY <1>1, Consts
<1>4. EntryOk(lvl, pre, t, i)  BY <1>1, Zenon DEF Inv
<1>5. ~\E d \in Cpus : Here(d, t, i) /\ task[d].pc = "set_address"
  <2>1. SUFFICES ASSUME NEW d \in Cpus, Here(d, t, i), task[d].pc = "set_address"
                 PROVE  FALSE
    BY Zenon
  <2>2. d # c  BY <2>1, Zenon
  <2>3. task[d] # Idle  BY <2>1, Zenon DEF Here
  <2>4. ~Here(d, t, a[lvl[t]])  BY <1>1, <1>2, <1>3, <2>2, <2>3, Alone, Zenon
  <2>5. QED  BY <1>2, <2>1, <2>4, Zenon
<1>6. f \in Frames /\ Child(lvl, pre, t, i, f)
  BY <1>2, <1>3, <1>4, <1>5, Zenon DEF EntryOk, EntryOf
<1>7. lvl[f] = l + 1 /\ pre[f][l] = i /\ \A j \in 1 .. l - 1 : pre[f][j] = pre[t][j]
  BY <1>2, <1>6, Zenon DEF Child
<1>8. OnPath(lvl, pre, f, a)
  <2>1. \A j \in 1 .. l - 1 : pre[t][j] = a[j]  BY <1>2, Zenon DEF OnPath
  <2> HIDE DEF f, t, i
  <2>2. SUFFICES ASSUME NEW j \in 1 .. lvl[f] - 1  PROVE pre[f][j] = a[j]
    BY Zenon DEF OnPath
  <2>3. j = l \/ j \in 1 .. l - 1  BY <1>1, <1>7
  <2>4. QED  BY <1>7, <2>1, <2>3, Zenon DEF i
<1>9. QED  BY <1>6, <1>7, <1>8, Zenon

\* A frame that is a table is below the entry of another, or in the hands of
\* the CPU that made it.
LEMMA Parent ==
  ASSUME NEW lvl, NEW pre, Inv(lvl, pre), NEW f \in Frames, lvl[f] # 0
  PROVE  \/ \E t \in Memory, i \in Index :
              Has(t, i, f) /\ lvl[t] \in 1 .. Depth - 1 /\ Child(lvl, pre, t, i, f)
         \/ \E c \in Cpus :
              /\ task[c] # Idle /\ task[c].new = f
              /\ task[c].pc \in {"add_flags", "set_address"}
<1>1. f \notin pool  BY Zenon DEF Inv, Labels
<1>2. CASE \E c \in Cpus : Keeps(c, f)
  <2>1. PICK c \in Cpus : Keeps(c, f)  BY <1>2, Zenon
  <2>2. task[c] # Idle /\ task[c].frame # f  BY <2>1, Zenon DEF Keeps, Inv, TaskOk
  <2>3. task[c].new = f /\ task[c].new # Null  BY <2>1, <2>2, Consts, Zenon DEF Keeps
  <2>4. task[c].pc \in {"add_flags", "set_address"}  BY <2>2, <2>3, Zenon DEF Inv, TaskOk
  <2>5. QED  BY <2>2, <2>3, <2>4, Zenon
<1>3. ASSUME NEW t \in Memory, NEW i \in Index, Has(t, i, f)
      PROVE  lvl[t] \in 1 .. Depth - 1 /\ Child(lvl, pre, t, i, f)
  <2>1. EntryOk(lvl, pre, t, i) /\ lvl[t] \in 0 .. Depth  BY Zenon DEF Inv, Labels
  <2>2. mem[t][i].present /\ mem[t][i].addr = f /\ f # Null  BY <1>3, Consts, Zenon DEF Has
  <2>3. lvl[t] # 0 /\ lvl[t] # Depth  BY <2>1, <2>2, Zenon DEF EntryOk
  <2>4. lvl[t] \in 1 .. Depth - 1  BY <2>1, <2>3, Consts
  <2>5. Child(lvl, pre, t, i, f)  BY <2>1, <2>2, <2>4, Zenon DEF EntryOk
  <2>6. QED  BY <2>4, <2>5, Zenon
<1>4. QED  BY <1>1, <1>2, <1>3, Zenon DEF Inv, Held
\* Tables that are on the way to one address at one level are the same.
LEMMA SameTable ==
  ASSUME NEW lvl, NEW pre, Inv(lvl, pre), NEW t \in Memory, NEW u \in Memory, NEW a,
         lvl[t] = lvl[u], lvl[t] # 0, OnPath(lvl, pre, t, a), OnPath(lvl, pre, u, a)
  PROVE  t = u
<1>1. OnPath(lvl, pre, t, pre[u])  BY Zenon DEF OnPath
<1>2. QED  BY <1>1, Zenon DEF Inv, Unique

\* A child on the way to an address is below the right entry of a table that
\* is on the way too.
LEMMA ChildPath ==
  ASSUME NEW lvl, NEW pre, NEW t, NEW i, NEW f, NEW a, lvl[t] \in 1 .. Depth - 1,
         Child(lvl, pre, t, i, f), OnPath(lvl, pre, f, a)
  PROVE  OnPath(lvl, pre, t, a) /\ i = a[lvl[t]] /\ lvl[f] = lvl[t] + 1
<1>1. /\ lvl[f] = lvl[t] + 1 /\ pre[f][lvl[t]] = i
      /\ \A j \in 1 .. lvl[t] - 1 : pre[f][j] = pre[t][j]
  BY Zenon DEF Child
<1>2. lvl[t] \in 1 .. lvl[f] - 1 /\ \A j \in 1 .. lvl[t] - 1 : j \in 1 .. lvl[f] - 1
  BY <1>1, Consts
<1>3. QED  BY <1>1, <1>2, Zenon DEF OnPath

\* An absent entry on the way to a page: the page is not mapped, whichever
\* level the entry is at.
LEMMA NoPage ==
  ASSUME Least, NEW lvl, NEW pre, Inv(lvl, pre), NEW c \in Cpus, task[c] # Idle,
         task[c].pc = "fetch", ~EntryOf(c).present
  PROVE  Unmapped(lvl, pre, task[c].at)
<1> DEFINE t == task[c].table
           k == task[c].level
           a == task[c].at
           S == {m \in Nat : m > k /\ \E f \in Memory : lvl[f] = m /\ OnPath(lvl, pre, f, a)}
<1>1. task[c] \in Tasks /\ t \in Memory /\ k \in 1 .. Depth /\ task[c].new = Null
  BY TaskFields, Zenon DEF Inv, Types, TaskOk
<1>2. lvl[t] = k /\ OnPath(lvl, pre, t, a) /\ ~mem[t][a[k]].present
  BY Zenon DEF Inv, TaskOk, EntryOf
<1>3. S = {}
  <2>1. SUFFICES ASSUME S # {}  PROVE FALSE  BY Zenon
  <2>2. S \in SUBSET Nat  BY Zenon
  <2>3. PICK m \in S : \A y \in S : m <= y
    <3> HIDE DEF S
    <3>1. QED  BY <2>1, <2>2, Zenon DEF Least
  <2>4. m \in Nat /\ m > k  BY <2>3, Zenon
  <2>5. PICK f \in Memory : lvl[f] = m /\ OnPath(lvl, pre, f, a)  BY <2>3, Zenon
  <2>6. m # 1 /\ m # 0  BY <1>1, <2>4
  <2>7. f \in Frames  BY <2>5, <2>6, Zenon DEF Memory, Inv, Labels
  <2>8. ASSUME NEW u \in Memory, NEW i \in Index, Has(u, i, f), lvl[u] \in 1 .. Depth - 1,
               Child(lvl, pre, u, i, f)
        PROVE  FALSE
    <3>0. OnPath(lvl, pre, u, a) /\ i = a[lvl[u]] /\ lvl[f] = lvl[u] + 1
      <4> HIDE DEF a
      <4>1. QED  BY <2>5, <2>8, ChildPath
    <3>1. OnPath(lvl, pre, u, a) /\ i = a[lvl[u]] /\ m = lvl[u] + 1
      BY <2>5, <3>0, Zenon
    <3>2. lvl[u] \in Nat /\ lvl[u] # 0 /\ ~(m <= lvl[u])  BY <2>8, <3>1, Consts
    <3>3. ~(lvl[u] > k)
      <4>1. SUFFICES ASSUME lvl[u] > k  PROVE FALSE  BY Zenon
      <4>2. lvl[u] \in S  BY <3>1, <3>2, <4>1, Zenon
      <4>3. QED  BY <2>3, <3>2, <4>2, Zenon
    <3>4. lvl[u] = k
      <4> HIDE DEF k
      <4>1. QED  BY <1>1, <2>4, <3>1, <3>2, <3>3
    <3>5. u = t  BY <1>1, <1>2, <3>1, <3>2, <3>4, SameTable, Zenon
    <3>6. QED  BY <1>2, <2>8, <3>1, <3>4, <3>5, Zenon DEF Has
  <2>9. ASSUME NEW d \in Cpus, task[d] # Idle, task[d].new = f,
               task[d].pc \in {"add_flags", "set_address"}
        PROVE  FALSE
    <3>1. OnPath(lvl, pre, f, task[d].at)  BY <2>9, Zenon DEF Inv, TaskOk
    <3>2. 1 \in 1 .. lvl[f] - 1
      <4>0. lvl[f] = m /\ m \in Nat /\ m # 0 /\ m # 1  BY <2>4, <2>5, <2>6, Zenon
      <4> HIDE DEF S, k, a
      <4>1. QED  BY <4>0
    <3>3. a[1] = task[d].at[1]  BY <2>5, <3>1, <3>2, Zenon DEF OnPath
    <3>4. d = c  BY <2>9, <3>3, Zenon DEF Inv, Separate
    <3>5. QED  BY <2>9, <3>4, Zenon
  <2>10. QED  BY <2>5, <2>6, <2>7, <2>8, <2>9, Parent, Zenon
<1>4. ASSUME NEW u \in Memory, lvl[u] = Depth, OnPath(lvl, pre, u, a)
      PROVE  ~mem[u][a[Depth]].present
  <2>1. ~(Depth > k)
    <3>1. Depth \in Nat  BY Consts
    <3>2. QED  BY <1>3, <1>4, <3>1, Zenon
  <2>2. Depth = k /\ Depth # 0
    <3> HIDE DEF k
    <3>1. QED  BY <1>1, <2>1, Consts
  <2>3. u = t  BY <1>1, <1>2, <1>4, <2>2, SameTable, Zenon
  <2>4. QED  BY <1>2, <2>2, <2>3, Zenon
<1>5. QED  BY <1>4, Zenon DEF Unmapped

-----------------------------------------------------------------------------
LEMMA SetPc ==
  ASSUME NEW t \in Tasks, NEW p \in Pcs
  PROVE  LET u == [t EXCEPT !.pc = p] IN
         /\ u \in Tasks /\ u.pc = p /\ u.op = t.op /\ u.at = t.at /\ u.level = t.level
         /\ u.table = t.table /\ u.frame = t.frame /\ u.new = t.new /\ u # Idle
<1> DEFINE u == [t EXCEPT !.pc = p]
<1>1. /\ u \in Tasks /\ u.pc = p /\ u.op = t.op /\ u.at = t.at /\ u.level = t.level
      /\ u.table = t.table /\ u.frame = t.frame /\ u.new = t.new
  BY DEF Tasks
<1> HIDE DEF u
<1>2. u # Idle  BY <1>1, TaskFields, Zenon
<1>3. QED  BY <1>1, <1>2, Zenon DEF u

LEMMA SetDown ==
  ASSUME NEW t \in Tasks, NEW e, e.addr \in Memory, t.level < Depth
  PROVE  LET u == Down(t, e) IN
         /\ u \in Tasks /\ u.pc = t.pc /\ u.op = t.op /\ u.at = t.at
         /\ u.level = t.level + 1 /\ u.table = e.addr /\ u.frame = t.frame
         /\ u.new = t.new /\ u # Idle
<1> DEFINE u == Down(t, e)
<1>0. t.level \in 1 .. Depth /\ Depth \in Nat  BY TaskFields, Consts
<1>1. t.level + 1 \in 1 .. Depth  BY <1>0
<1>2. /\ u \in Tasks /\ u.pc = t.pc /\ u.op = t.op /\ u.at = t.at
      /\ u.level = t.level + 1 /\ u.table = e.addr /\ u.frame = t.frame /\ u.new = t.new
  BY <1>1, Zenon DEF Tasks, Down
<1> HIDE DEF u
<1>3. u # Idle  BY <1>2, TaskFields, Zenon
<1>4. QED  BY <1>2, <1>3, Zenon DEF u
\* A CPU goes on with what it has, or leaves with nothing.
LEMMA GoOn ==
  ASSUME NEW lvl, NEW pre, Inv(lvl, pre), NEW c \in Cpus, task[c] # Idle, NEW u \in Tasks,
         task' = [task EXCEPT ![c] = u], mem' = mem, pool' = pool,
         task[c].pc # "set_address", TaskOk(lvl, pre, c)', u # Idle,
         u.at = task[c].at, u.frame = task[c].frame, u.new = task[c].new
  PROVE  Inv(lvl, pre)'
<1>1. task'[c] = u  BY Zenon DEF Inv, Types
<1>2. \A f \in Frames : Keeps(c, f)' <=> Keeps(c, f)  BY <1>1, Zenon DEF Keeps
<1>3. Separate'  BY SeparateKept, Zenon DEF Inv
<1>4. QED  BY <1>2, <1>3, MoveStep, Zenon

LEMMA Leave ==
  ASSUME NEW lvl, NEW pre, Inv(lvl, pre), NEW c \in Cpus, task[c] # Idle,
         task' = [task EXCEPT ![c] = Idle], mem' = mem, pool' = pool,
         task[c].pc # "set_address", task[c].frame \notin Frames, task[c].new \notin Frames
  PROVE  Inv(lvl, pre)'
<1>1. task'[c] = Idle  BY Zenon DEF Inv, Types
<1>2. \A f \in Frames : Keeps(c, f)' <=> Keeps(c, f)  BY <1>1, Zenon DEF Keeps
<1>3. Separate'  BY SeparateKept, Zenon DEF Inv
<1>4. TaskOk(lvl, pre, c)'  BY <1>1, Zenon DEF TaskOk
<1>5. QED  BY <1>2, <1>3, <1>4, MoveStep, Zenon

LEMMA UnmappedKept ==
  ASSUME NEW lvl, NEW pre, NEW c \in Cpus, mem' = mem, task'[c].at = task[c].at,
         Unmapped(lvl, pre, task[c].at)
  PROVE  Unmapped(lvl, pre, task[c].at)'
BY Zenon DEF Unmapped, OnPath

LEMMA BeginStep ==
  ASSUME Apart, NEW lvl, NEW pre, Inv(lvl, pre), NEW c \in Cpus, NEW a \in Address,
         NEW op \in {"fault", "map", "unmap"}, NEW frame \in {Null, Device},
         op # "map" => frame = Null, Begin(c, op, a, frame)
  PROVE  Inv(lvl, pre)' /\ halted' = halted
<1> DEFINE p == IF op = "map" THEN "walk" ELSE "fetch"
           u == [op |-> op, pc |-> p, at |-> a, level |-> 1, table |-> Root,
                 frame |-> frame, new |-> Null]
<1>1. /\ task[c] = Idle /\ task' = [task EXCEPT ![c] = u]
      /\ mem' = mem /\ pool' = pool /\ halted' = halted
      /\ \A d \in Cpus : task[d] # Idle => task[d].at[1] # a[1]
  BY Zenon DEF Begin, Goto
<1>2. p \in {"fetch", "walk"} /\ (op # "map" => p = "fetch") /\ (op = "map" => p = "walk")
  BY Zenon
<1> HIDE DEF p
<1>3. /\ u.op = op /\ u.pc = p /\ u.at = a /\ u.level = 1 /\ u.table = Root
      /\ u.frame = frame /\ u.new = Null
  OBVIOUS
<1>4. u \in Tasks
  BY <1>2, Consts DEF Tasks, Memory, Pcs
<1> HIDE DEF u
<1>5. task'[c] = u /\ (\A d \in Cpus : d # c => task'[d] = task[d]) /\ u # Idle
  BY <1>1, <1>4, TaskFields, Zenon DEF Inv, Types
<1>6. Separate'
  <2>1. SUFFICES ASSUME NEW d \in Cpus, NEW e \in Cpus, d # e, task'[d] # Idle, task'[e] # Idle
                 PROVE  task'[d].at[1] # task'[e].at[1]
    BY Zenon DEF Separate
  <2>2. CASE d = c  BY <1>1, <1>3, <1>5, <2>1, <2>2, Zenon
  <2>3. CASE e = c  BY <1>1, <1>3, <1>5, <2>1, <2>3, Zenon
  <2>4. CASE d # c /\ e # c  BY <1>5, <2>1, <2>4, Zenon DEF Inv, Separate
  <2>5. QED  BY <2>2, <2>3, <2>4, Zenon
<1>7. frame \notin Frames /\ Null \notin Frames  BY Consts, Zenon
<1>8. \A f \in Frames : Keeps(c, f)' <=> Keeps(c, f)
  BY <1>1, <1>3, <1>5, <1>7, Zenon DEF Keeps
<1>9. TaskOk(lvl, pre, c)'
  <2>1. lvl[Root] = 1 /\ 1 .. lvl[Root] - 1 = {}
    <3>1. lvl[Root] = 1  BY Zenon DEF Inv, Labels
    <3>2. QED  BY <3>1
  <2>2. OnPath(lvl, pre, u.table, u.at)  BY <1>3, <2>1, Zenon DEF OnPath
  <2>3. QED  BY <1>2, <1>3, <1>5, <1>7, <2>1, <2>2, Zenon DEF TaskOk, OnPath
<1>10. task[c].pc # "set_address"  BY <1>1 DEF Idle
<1>11. QED  BY <1>1, <1>4, <1>6, <1>8, <1>9, <1>10, MoveStep, Zenon

LEMMA FetchStep ==
  ASSUME Least, NEW lvl, NEW pre, Inv(lvl, pre), NEW c \in Cpus, Fetch(c)
  PROVE  Inv(lvl, pre)' /\ halted' = halted
<1> DEFINE t == task[c]
           e == EntryOf(c)
           u == IF e.present /\ t.level < Depth THEN Down(t, e)
                ELSE IF t.op = "unmap" /\ e.present THEN [t EXCEPT !.pc = "clear"]
                ELSE IF t.op = "fault" /\ ~e.present THEN [t EXCEPT !.pc = "frame"]
                ELSE Idle
<1>1. /\ t.pc = "fetch" /\ t # Idle /\ t \in Tasks /\ Types /\ TaskOk(lvl, pre, c)
  BY Busy, Zenon DEF Inv, Fetch
<1>2. /\ lvl[t.table] = t.level /\ OnPath(lvl, pre, t.table, t.at)
      /\ t.new = Null /\ t.frame = Null
  BY <1>1, Zenon DEF TaskOk
<1>3. ~Astray(c)  BY <1>1, TaskFields, Consts, Zenon DEF Astray
<1>4. task' = [task EXCEPT ![c] = u] /\ mem' = mem /\ pool' = pool /\ halted' = halted
  BY <1>3, Zenon DEF Fetch, Goto
<1>5. task'[c] = u  BY <1>1, <1>4, Zenon DEF Types
<1>6. t.pc # "set_address" /\ Null \notin Frames  BY <1>1, Consts, Zenon
<1>7. CASE e.present /\ t.level < Depth
  <2>1. e.addr \in Frames /\ lvl[e.addr] = t.level + 1 /\ OnPath(lvl, pre, e.addr, t.at)
    BY <1>1, <1>6, <1>7, DownOk, Zenon
  <2>2. u = Down(t, e) /\ e.addr \in Memory  BY <1>7, <2>1, Zenon DEF Memory
  <2> HIDE DEF u, e
  <2>3. /\ u \in Tasks /\ u.pc = t.pc /\ u.op = t.op /\ u.at = t.at
        /\ u.level = t.level + 1 /\ u.table = e.addr /\ u.frame = t.frame
        /\ u.new = t.new /\ u # Idle
    BY <1>1, <1>7, <2>2, SetDown, Zenon
  <2>4. TaskOk(lvl, pre, c)'
    BY <1>1, <1>2, <1>5, <1>6, <2>1, <2>3, Zenon DEF TaskOk, OnPath
  <2>5. QED  BY <1>1, <1>4, <1>6, <2>3, <2>4, GoOn, Zenon
<1>8. CASE ~(e.present /\ t.level < Depth) /\ t.op = "unmap" /\ e.present
  <2>1. u = [t EXCEPT !.pc = "clear"]  BY <1>8, Zenon
  <2>2. t.level = Depth
    <3>1. t.level \in 1 .. Depth  BY <1>1, TaskFields, Zenon
    <3> HIDE DEF t
    <3>2. ~(t.level < Depth)  BY <1>8, Zenon
    <3>3. QED  BY <3>1, <3>2, Consts
  <2> HIDE DEF u
  <2>3. /\ u \in Tasks /\ u.pc = "clear" /\ u.op = t.op /\ u.at = t.at /\ u.level = t.level
        /\ u.table = t.table /\ u.frame = t.frame /\ u.new = t.new /\ u # Idle
    <3>1. "clear" \in Pcs  BY Zenon DEF Pcs
    <3>2. QED  BY <1>1, <2>1, <3>1, SetPc, Zenon
  <2>4. EntryOf(c)' = EntryOf(c)  BY <1>4, <1>5, <2>3, Zenon DEF EntryOf
  <2>5. TaskOk(lvl, pre, c)'
    BY <1>1, <1>2, <1>5, <1>6, <1>8, <2>2, <2>3, <2>4, Zenon DEF TaskOk, OnPath
  <2>6. QED  BY <1>1, <1>4, <1>6, <2>3, <2>5, GoOn, Zenon
<1>9. CASE t.op = "fault" /\ ~e.present
  <2>1. u = [t EXCEPT !.pc = "frame"]  BY <1>9, Zenon
  <2> HIDE DEF u
  <2>2. Unmapped(lvl, pre, t.at)  BY <1>1, <1>9, NoPage, Zenon
  <2>3. /\ u \in Tasks /\ u.pc = "frame" /\ u.op = t.op /\ u.at = t.at /\ u.level = t.level
        /\ u.table = t.table /\ u.frame = t.frame /\ u.new = t.new /\ u # Idle
    <3>1. "frame" \in Pcs  BY Zenon DEF Pcs
    <3>2. QED  BY <1>1, <2>1, <3>1, SetPc, Zenon
  <2>6. Unmapped(lvl, pre, task[c].at)'
    BY <1>4, <1>5, <2>2, <2>3, UnmappedKept, Zenon
  <2>4. TaskOk(lvl, pre, c)'
    BY <1>1, <1>2, <1>5, <1>6, <1>9, <2>3, <2>6, Zenon DEF TaskOk, OnPath
  <2>5. QED  BY <1>1, <1>4, <1>6, <2>3, <2>4, GoOn, Zenon
<1>10. CASE u = Idle
  BY <1>1, <1>2, <1>4, <1>6, <1>10, Leave, Zenon
<1>11. QED  BY <1>7, <1>8, <1>9, <1>10, Zenon
LEMMA FaultFrameStep ==
  ASSUME Least, NEW lvl, NEW pre, Inv(lvl, pre), NEW c \in Cpus, FaultFrame(c)
  PROVE  Inv(lvl, pre)' /\ halted' \in {halted, "out of memory"}
<1> DEFINE t == task[c]
           f == Min(pool)
           u == [t EXCEPT !.pc = "walk", !.level = 1, !.table = Root, !.frame = f]
<1>1. /\ t.pc = "frame" /\ t # Idle /\ t \in Tasks /\ Types /\ TaskOk(lvl, pre, c)
  BY Busy, Zenon DEF Inv, FaultFrame
<1>2. /\ t.new = Null /\ t.frame = Null /\ t.op = "fault" /\ Unmapped(lvl, pre, t.at)
  BY <1>1, Zenon DEF TaskOk
<1>3. CASE pool = {}
  <2>1. Panic("out of memory")  BY <1>3, Zenon DEF FaultFrame
  <2>2. QED  BY <2>1, PanicStep, Zenon DEF Panic
<1>4. CASE pool # {}
  <2>1. pool' = pool \ {f} /\ task' = [task EXCEPT ![c] = u] /\ mem' = mem /\ halted' = halted
    BY <1>4, Zenon DEF FaultFrame, Goto
  <2>2. f \in pool /\ f \in Frames /\ lvl[f] = 0
    BY <1>1, <1>4, MinIn, Zenon DEF Types, Inv, Labels
  <2> HIDE DEF f
  <2>3. /\ u \in Tasks /\ u.pc = "walk" /\ u.op = t.op /\ u.at = t.at /\ u.level = 1
        /\ u.table = Root /\ u.frame = f /\ u.new = t.new
    <3> HIDE DEF t
    <3>1. Root \in Memory /\ 1 \in 1 .. Depth /\ "walk" \in Pcs  BY Consts, Zenon DEF Memory, Pcs
    <3>2. QED  BY <1>1, <2>2, <3>1, Zenon DEF Tasks
  <2> HIDE DEF u
  <2>4. u # Idle /\ task'[c] = u  BY <1>1, <2>1, <2>3, TaskFields, Zenon DEF Types
  <2>5. Separate'  BY <1>1, <2>1, <2>3, SeparateKept, Zenon DEF Inv
  <2>6. \A g \in Frames : Keeps(c, g)' <=> Keeps(c, g) \/ g = f
    BY <1>1, <1>2, <2>3, <2>4, Consts, Zenon DEF Keeps
  <2>7. lvl[Root] = 1 /\ 1 .. lvl[Root] - 1 = {}
    <3>1. lvl[Root] = 1  BY Zenon DEF Inv, Labels
    <3>2. QED  BY <3>1
  <2>8. OnPath(lvl, pre, u.table, u.at)  BY <2>3, <2>7, Zenon DEF OnPath
  <2>9. Unmapped(lvl, pre, task[c].at)'  BY <1>2, <2>1, <2>3, <2>4, UnmappedKept, Zenon
  <2>10. TaskOk(lvl, pre, c)'
    BY <1>2, <2>2, <2>3, <2>4, <2>7, <2>8, <2>9, Zenon DEF TaskOk, OnPath
  <2>11. t.pc # "set_address"  BY <1>1, Zenon
  <2>12. QED  BY <2>1, <2>2, <2>3, <2>5, <2>6, <2>10, <2>11, TakeStep, Zenon
<1>5. QED  BY <1>3, <1>4, Zenon

LEMMA WalkStep ==
  ASSUME NEW lvl, NEW pre, Inv(lvl, pre), NEW c \in Cpus, Walk(c)
  PROVE  Inv(lvl, pre)' /\ halted' = halted
<1> DEFINE t == task[c]
           e == EntryOf(c)
           u == IF t.level = Depth THEN [t EXCEPT !.pc = "check"]
                ELSE IF e.present THEN Down(t, e) ELSE [t EXCEPT !.pc = "table"]
<1>1. /\ t.pc = "walk" /\ t # Idle /\ t \in Tasks /\ Types /\ TaskOk(lvl, pre, c)
      /\ e \in Entry
  BY Busy, Zenon DEF Inv, Walk
<1>2. /\ lvl[t.table] = t.level /\ OnPath(lvl, pre, t.table, t.at) /\ t.new = Null
      /\ t.frame \in Frames => lvl[t.frame] = 0
      /\ t.op = "fault" \/ t.frame \notin Frames
      /\ t.op = "fault" => Unmapped(lvl, pre, t.at)
  BY <1>1, Zenon DEF TaskOk
<1>3. ~Astray(c)  BY <1>1, TaskFields, Consts, Zenon DEF Astray
<1>4. task' = [task EXCEPT ![c] = u] /\ mem' = mem /\ pool' = pool /\ halted' = halted
  BY <1>3, Zenon DEF Walk, Goto
<1>5. task'[c] = u  BY <1>1, <1>4, Zenon DEF Types
<1>6. t.pc # "set_address" /\ Null \notin Frames  BY <1>1, Consts, Zenon
<1>7. t.level \in 1 .. Depth /\ t.table \in Memory /\ t.at[t.level] \in Index
  BY <1>1, TaskFields, Zenon
<1>8. CASE t.level = Depth
  <2>1. u = [t EXCEPT !.pc = "check"] /\ "check" \in Pcs  BY <1>8, Zenon DEF Pcs
  <2> HIDE DEF u
  <2>2. /\ u \in Tasks /\ u.pc = "check" /\ u.op = t.op /\ u.at = t.at /\ u.level = t.level
        /\ u.table = t.table /\ u.frame = t.frame /\ u.new = t.new /\ u # Idle
    BY <1>1, <2>1, SetPc, Zenon
  <2>3. t.op = "fault" => Unmapped(lvl, pre, task[c].at)'
    BY <1>2, <1>4, <1>5, <2>2, UnmappedKept, Zenon
  <2>4. TaskOk(lvl, pre, c)'
    BY <1>2, <1>5, <1>6, <1>8, <2>2, <2>3, Zenon DEF TaskOk, OnPath
  <2>5. QED  BY <1>1, <1>4, <1>6, <2>2, <2>4, GoOn, Zenon
<1>9. CASE t.level # Depth /\ e.present
  <2>0. t.level < Depth
    <3> HIDE DEF t
    <3>1. QED  BY <1>7, <1>9, Consts
  <2>1. e.addr \in Frames /\ lvl[e.addr] = t.level + 1 /\ OnPath(lvl, pre, e.addr, t.at)
    BY <1>1, <1>6, <1>9, <2>0, DownOk, Zenon
  <2>2. u = Down(t, e) /\ e.addr \in Memory  BY <1>9, <2>1, Zenon DEF Memory
  <2> HIDE DEF u, e
  <2>3. /\ u \in Tasks /\ u.pc = t.pc /\ u.op = t.op /\ u.at = t.at
        /\ u.level = t.level + 1 /\ u.table = e.addr /\ u.frame = t.frame
        /\ u.new = t.new /\ u # Idle
    BY <1>1, <2>0, <2>2, SetDown, Zenon
  <2>4. t.op = "fault" => Unmapped(lvl, pre, task[c].at)'
    BY <1>2, <1>4, <1>5, <2>3, UnmappedKept, Zenon
  <2>5. TaskOk(lvl, pre, c)'
    BY <1>1, <1>2, <1>5, <1>6, <2>1, <2>3, <2>4, Zenon DEF TaskOk, OnPath
  <2>6. QED  BY <1>1, <1>4, <1>6, <2>3, <2>5, GoOn, Zenon
<1>10. CASE t.level # Depth /\ ~e.present
  <2>1. u = [t EXCEPT !.pc = "table"] /\ "table" \in Pcs  BY <1>10, Zenon DEF Pcs
  <2>2. EntryOf(c) = Clear
    <3>1. EntryOk(lvl, pre, t.table, t.at[t.level])  BY <1>7, Zenon DEF Inv
    <3>2. t.level \in 1 .. Depth - 1
      <4> HIDE DEF t
      <4>1. QED  BY <1>7, <1>10, Consts
    <3>3. e.addr = Null  BY <1>2, <1>10, <3>1, <3>2, Zenon DEF EntryOk, EntryOf
    <3> HIDE DEF e
    <3>4. e = [present |-> FALSE, addr |-> Null]
      BY <1>1, <1>10, <3>3 DEF Entry
    <3>5. QED  BY <3>4, Zenon DEF e, Clear
  <2> HIDE DEF u
  <2>3. /\ u \in Tasks /\ u.pc = "table" /\ u.op = t.op /\ u.at = t.at /\ u.level = t.level
        /\ u.table = t.table /\ u.frame = t.frame /\ u.new = t.new /\ u # Idle
    BY <1>1, <2>1, SetPc, Zenon
  <2>4. t.op = "fault" => Unmapped(lvl, pre, task[c].at)'
    BY <1>2, <1>4, <1>5, <2>3, UnmappedKept, Zenon
  <2>5. EntryOf(c)' = Clear  BY <1>4, <1>5, <2>2, <2>3, Zenon DEF EntryOf, Clear
  <2>6. TaskOk(lvl, pre, c)'
    BY <1>2, <1>5, <1>6, <1>10, <2>3, <2>4, <2>5, Zenon DEF TaskOk, OnPath
  <2>7. QED  BY <1>1, <1>4, <1>6, <2>3, <2>6, GoOn, Zenon
<1>11. QED  BY <1>8, <1>9, <1>10, Zenon

LEMMA OutOfMemoryStep ==
  ASSUME NEW lvl, NEW pre, Inv(lvl, pre), NEW c \in Cpus, task[c] # Idle,
         task[c].pc \in {"table", "check"}, OutOfMemory(c)
  PROVE  Inv(lvl, pre)' /\ halted' \in {halted, "out of memory"}
<1>1. CASE task[c].op = "fault"
  <2>1. Panic("out of memory")  BY <1>1, Zenon DEF OutOfMemory
  <2>2. QED  BY <2>1, PanicStep, Zenon DEF Panic
<1>2. CASE task[c].op # "fault"
  <2>1. task' = [task EXCEPT ![c] = Idle] /\ mem' = mem /\ pool' = pool /\ halted' = halted
    BY <1>2, Zenon DEF OutOfMemory, Goto
  <2>2. task[c].frame \notin Frames /\ task[c].new = Null  BY <1>2, Zenon DEF Inv, TaskOk
  <2>3. task[c].pc # "set_address" /\ task[c].new \notin Frames  BY <2>2, Consts, Zenon
  <2>4. QED  BY <2>1, <2>2, <2>3, Leave, Zenon
<1>3. QED  BY <1>1, <1>2, Zenon

LEMMA CheckStep ==
  ASSUME Least, NEW lvl, NEW pre, Inv(lvl, pre), NEW c \in Cpus, Check(c)
  PROVE  Inv(lvl, pre)' /\ halted' \in {halted, "out of memory"}
<1> DEFINE t == task[c]
           f == Min(pool)
           u == [t EXCEPT !.pc = "address"]
           v == [t EXCEPT !.pc = "address", !.frame = f]
<1>1. /\ t.pc = "check" /\ t # Idle /\ t \in Tasks /\ Types /\ TaskOk(lvl, pre, c)
  BY Busy, Zenon DEF Inv, Check
<1>2. /\ lvl[t.table] = t.level /\ OnPath(lvl, pre, t.table, t.at) /\ t.new = Null
      /\ t.frame \in Frames => lvl[t.frame] = 0
      /\ t.op = "fault" \/ t.frame \notin Frames
      /\ t.op = "fault" => Unmapped(lvl, pre, t.at)
      /\ t.level = Depth
  BY <1>1, Zenon DEF TaskOk
<1>3. t.pc # "set_address" /\ Null \notin Frames /\ t.table \in Memory
  BY <1>1, TaskFields, Consts, Zenon
<1>4. t.op = "fault" => ~EntryOf(c).present
  BY <1>2, <1>3, Zenon DEF Unmapped, EntryOf
<1>5. CASE EntryOf(c).present
  <2>1. task' = [task EXCEPT ![c] = Idle] /\ mem' = mem /\ pool' = pool /\ halted' = halted
    BY <1>4, <1>5, Zenon DEF Check, Goto
  <2>2. t.frame \notin Frames /\ t.new \notin Frames  BY <1>2, <1>3, <1>4, <1>5, Zenon
  <2>3. QED  BY <1>1, <1>3, <2>1, <2>2, Leave, Zenon
<1>6. CASE ~EntryOf(c).present /\ t.frame # Null
  <2>1. task' = [task EXCEPT ![c] = u] /\ mem' = mem /\ pool' = pool /\ halted' = halted
    BY <1>6, Zenon DEF Check, Goto
  <2>2. "address" \in Pcs  BY Zenon DEF Pcs
  <2>3. /\ u \in Tasks /\ u.pc = "address" /\ u.op = t.op /\ u.at = t.at
        /\ u.level = t.level /\ u.table = t.table /\ u.frame = t.frame /\ u.new = t.new
        /\ u # Idle
    BY <1>1, <2>2, SetPc, Zenon
  <2> HIDE DEF u
  <2>4. task'[c] = u  BY <1>1, <2>1, Zenon DEF Types
  <2>5. t.op = "fault" => Unmapped(lvl, pre, task[c].at)'
    BY <1>2, <2>1, <2>3, <2>4, UnmappedKept, Zenon
  <2>6. EntryOf(c)' = EntryOf(c)  BY <1>2, <2>1, <2>3, <2>4, Zenon DEF EntryOf
  <2>7. TaskOk(lvl, pre, c)'
    BY <1>2, <1>3, <1>6, <2>3, <2>4, <2>5, <2>6, Zenon DEF TaskOk, OnPath
  <2>8. QED  BY <1>1, <1>3, <2>1, <2>3, <2>7, GoOn, Zenon
<1>7. CASE ~EntryOf(c).present /\ t.frame = Null /\ pool = {}
  <2>1. OutOfMemory(c)  BY <1>7, Zenon DEF Check
  <2>2. QED  BY <1>1, <2>1, OutOfMemoryStep, Zenon
<1>8. CASE ~EntryOf(c).present /\ t.frame = Null /\ pool # {}
  <2>1. pool' = pool \ {f} /\ task' = [task EXCEPT ![c] = v] /\ mem' = mem /\ halted' = halted
    BY <1>8, Zenon DEF Check, Goto
  <2>2. f \in pool /\ f \in Frames /\ lvl[f] = 0
    BY <1>1, <1>8, MinIn, Zenon DEF Types, Inv, Labels
  <2> HIDE DEF f
  <2>3. /\ v \in Tasks /\ v.pc = "address" /\ v.op = t.op /\ v.at = t.at
        /\ v.level = t.level /\ v.table = t.table /\ v.frame = f /\ v.new = t.new
    <3> HIDE DEF t
    <3>1. "address" \in Pcs  BY Zenon DEF Pcs
    <3>2. QED  BY <1>1, <2>2, <3>1, Zenon DEF Tasks
  <2> HIDE DEF v
  <2>4. v # Idle /\ task'[c] = v  BY <1>1, <2>1, <2>3, TaskFields, Zenon DEF Types
  <2>5. Separate'  BY <1>1, <2>1, <2>3, SeparateKept, Zenon DEF Inv
  <2>6. \A g \in Frames : Keeps(c, g)' <=> Keeps(c, g) \/ g = f
    BY <1>1, <1>2, <1>8, <2>3, <2>4, Consts, Zenon DEF Keeps
  <2>7. t.op = "fault" => Unmapped(lvl, pre, task[c].at)'
    BY <1>2, <2>1, <2>3, <2>4, UnmappedKept, Zenon
  <2>8. EntryOf(c)' = EntryOf(c)  BY <1>2, <2>1, <2>3, <2>4, Zenon DEF EntryOf
  <2>9. f # Null  BY <2>2, Consts, Zenon
  <2>10. TaskOk(lvl, pre, c)'
    BY <1>2, <1>3, <1>8, <2>2, <2>3, <2>4, <2>7, <2>8, <2>9, Zenon DEF TaskOk, OnPath
  <2>11. QED  BY <1>3, <2>1, <2>2, <2>3, <2>5, <2>6, <2>10, TakeStep, Zenon
<1>9. QED  BY <1>5, <1>6, <1>7, <1>8, Zenon
-----------------------------------------------------------------------------
(* The steps that write an entry.                                          *)

LEMMA UnmappedWrite ==
  ASSUME NEW lvl, NEW pre, NEW c \in Cpus, task'[c].at = task[c].at,
         task[c].at[Depth] \in Index, Unmapped(lvl, pre, task[c].at),
         \A t \in Memory, i \in Index :
           lvl[t] = Depth /\ mem'[t][i].present => mem[t][i].present
  PROVE  Unmapped(lvl, pre, task[c].at)'
<1>1. SUFFICES ASSUME NEW t \in Memory, lvl[t] = Depth, OnPath(lvl, pre, t, task'[c].at)
               PROVE  ~mem'[t][task'[c].at[Depth]].present
  BY Zenon DEF Unmapped, OnPath
<1>2. ~mem[t][task[c].at[Depth]].present  BY <1>1, Zenon DEF Unmapped
<1>3. QED  BY <1>1, <1>2, Zenon

LEMMA WriteStep ==
  ASSUME NEW lvl, NEW pre, Inv(lvl, pre), NEW c \in Cpus, task[c] # Idle,
         NEW s \in Memory, s = task[c].table, NEW k \in Index, k = task[c].at[task[c].level],
         NEW e \in Entry, mem' = [mem EXCEPT ![s][k] = e],
         NEW u \in Tasks \cup {Idle}, task' = [task EXCEPT ![c] = u], pool' = pool,
         u = Idle \/ u.at = task[c].at,
         TaskOk(lvl, pre, c)', Held', EntryOk(lvl, pre, s, k)'
  PROVE  Inv(lvl, pre)'
<1>1. Types  BY Zenon DEF Inv
<1>2. /\ mem' \in [Memory -> [Index -> Entry]]
      /\ \A t \in Memory : t # s => mem'[t] = mem[t]
      /\ \A t \in Memory, i \in Index : t # s \/ i # k => mem'[t][i] = mem[t][i]
  BY <1>1 DEF Types
<1>3. Local(c)  BY <1>2, Zenon DEF Local, Here
<1>4. \A t \in Memory, i \in Index : Here(c, t, i) => EntryOk(lvl, pre, t, i)'
  BY Zenon DEF Here
<1>5. Separate'  BY SeparateKept, Zenon DEF Inv
<1>6. pool' \subseteq Frames /\ \A f \in pool' : lvl[f] = 0
  BY Zenon DEF Inv, Types, Labels
<1>7. QED  BY <1>2, <1>3, <1>4, <1>5, <1>6, StepInv, Zenon

LEMMA ClearEntry == Clear \in Entry /\ ~Clear.present /\ Clear.addr = Null
BY DEF Clear, Entry

LEMMA SetPresent ==
  ASSUME NEW x \in Entry
  PROVE  [x EXCEPT !.present = TRUE] = [present |-> TRUE, addr |-> x.addr]
<1> DEFINE y == [x EXCEPT !.present = TRUE]
<1>1. y \in Entry  BY Zenon DEF Entry
<1>2. y.present = TRUE  BY Zenon DEF Entry
<1>3. y.addr = x.addr  BY DEF Entry
<1> HIDE DEF y
<1>4. y = [present |-> y.present, addr |-> y.addr]  BY <1>1 DEF Entry
<1>5. QED  BY <1>2, <1>3, <1>4, Zenon DEF y

LEMMA SetAddr ==
  ASSUME NEW x \in Entry, NEW f
  PROVE  [x EXCEPT !.addr = f] = [present |-> x.present, addr |-> f]
BY DEF Entry

LEMMA AddFlagsStep ==
  ASSUME NEW lvl, NEW pre, Inv(lvl, pre), NEW c \in Cpus, AddFlags(c)
  PROVE  Inv(lvl, pre)' /\ halted' = halted
<1> DEFINE t == task[c]
           e == [present |-> TRUE, addr |-> Null]
           u == [t EXCEPT !.pc = "set_address"]
<1>1. /\ t.pc = "add_flags" /\ t # Idle /\ t \in Tasks /\ Types /\ TaskOk(lvl, pre, c)
  BY Busy, Zenon DEF Inv, AddFlags
<1>2. /\ lvl[t.table] = t.level /\ OnPath(lvl, pre, t.table, t.at)
      /\ t.frame \in Frames => lvl[t.frame] = 0
      /\ t.op = "fault" \/ t.frame \notin Frames
      /\ t.op = "fault" => Unmapped(lvl, pre, t.at)
      /\ t.new \in Frames /\ lvl[t.new] = t.level + 1 /\ mem[t.new] = Zeroed
      /\ OnPath(lvl, pre, t.new, t.at) /\ t.level # Depth /\ EntryOf(c) = Clear
  BY <1>1, Zenon DEF TaskOk
<1>3. PICK s \in Memory : s = t.table  BY <1>1, TaskFields, Zenon
<1>4. PICK k \in Index : k = t.at[t.level]  BY <1>1, TaskFields, Zenon
<1>5. /\ t.level \in 1 .. Depth - 1 /\ t.level # 0 /\ t.level # t.level + 1
      /\ t.at[Depth] \in Index
  <2>1. t.level \in 1 .. Depth /\ t.at[Depth] \in Index  BY <1>1, TaskFields, Zenon
  <2> HIDE DEF t
  <2>2. QED  BY <1>2, <2>1, Consts
<1>6. /\ mem' = [mem EXCEPT ![s][k] = e] /\ task' = [task EXCEPT ![c] = u]
      /\ pool' = pool /\ halted' = halted
  <2>1. [Clear EXCEPT !.present = TRUE] = e  BY SetPresent, ClearEntry, Zenon
  <2>2. SetEntry(c, e)  BY <1>2, <2>1, Zenon DEF AddFlags
  <2>3. QED  BY <1>3, <1>4, <2>2, Zenon DEF AddFlags, SetEntry, Goto
<1>7. "set_address" \in Pcs  BY Zenon DEF Pcs
<1>8. /\ u \in Tasks /\ u.pc = "set_address" /\ u.op = t.op /\ u.at = t.at
      /\ u.level = t.level /\ u.table = t.table /\ u.frame = t.frame /\ u.new = t.new
      /\ u # Idle
  BY <1>1, <1>7, SetPc, Zenon
<1>9. e \in Entry /\ e.present /\ e.addr = Null  BY DEF Entry
<1> HIDE DEF u
<1>10. task'[c] = u /\ \A d \in Cpus : d # c => task'[d] = task[d]
  BY <1>1, <1>6, Zenon DEF Types
<1>11. /\ mem'[s][k] = e /\ mem[s][k] = Clear
       /\ \A x \in Memory : x # s => mem'[x] = mem[x]
       /\ \A x \in Memory, i \in Index : x # s \/ i # k => mem'[x][i] = mem[x][i]
  <2>1. /\ mem'[s][k] = e
        /\ \A x \in Memory : x # s => mem'[x] = mem[x]
        /\ \A x \in Memory, i \in Index : x # s \/ i # k => mem'[x][i] = mem[x][i]
    <3> HIDE DEF e
    <3>1. QED  BY <1>1, <1>6, <1>9 DEF Types
  <2>2. QED  BY <1>2, <1>3, <1>4, <2>1, Zenon DEF EntryOf
<1>12. ~Clear.present /\ Null \notin Frames  BY Consts DEF Clear
<1>13. Held'
  <2>1. \A x \in Memory, i \in Index, f \in Frames : Has(x, i, f)' <=> Has(x, i, f)
    <3>1. \A f \in Frames : ~Has(s, k, f)' /\ ~Has(s, k, f)
      BY <1>9, <1>11, <1>12, Zenon DEF Has
    <3>2. \A x \in Memory, i \in Index, f \in Frames :
            x # s \/ i # k => (Has(x, i, f)' <=> Has(x, i, f))
      BY <1>11, Zenon DEF Has
    <3>3. QED  BY <3>1, <3>2, Zenon
  <2>2. \A d \in Cpus, f \in Frames : Keeps(d, f)' <=> Keeps(d, f)
    <3>1. \A f \in Frames : Keeps(c, f)' <=> Keeps(c, f)
      BY <1>1, <1>8, <1>10, Zenon DEF Keeps
    <3>2. \A d \in Cpus, f \in Frames : d # c => (Keeps(d, f)' <=> Keeps(d, f))
      BY <1>10, Zenon DEF Keeps
    <3>3. QED  BY <3>1, <3>2, Zenon
  <2>3. QED  BY <1>6, <2>1, <2>2, HeldSame, Zenon DEF Inv
<1>14. EntryOk(lvl, pre, s, k)'
  <2>1. Here(c, s, k)' /\ task'[c].pc = "set_address"
    BY <1>3, <1>4, <1>8, <1>10, Zenon DEF Here
  <2>2. lvl[s] \in 1 .. Depth - 1 /\ lvl[s] # 0 /\ lvl[s] # Depth
    BY <1>2, <1>3, <1>5, Zenon
  <2>3. QED  BY <1>9, <1>11, <2>1, <2>2, Zenon DEF EntryOk
<1>15. TaskOk(lvl, pre, c)'
  <2>1. EntryOf(c)' = e  BY <1>3, <1>4, <1>8, <1>10, <1>11, Zenon DEF EntryOf
  <2>2. t.new # s /\ t.new \in Memory  BY <1>2, <1>3, <1>5, Zenon DEF Memory
  <2>3. mem'[t.new] = Zeroed  BY <1>2, <1>11, <2>2, Zenon
  <2>4. \A x \in Memory, i \in Index : lvl[x] = Depth => mem'[x][i] = mem[x][i]
    BY <1>2, <1>3, <1>11, Zenon
  <2>5. t.op = "fault" => Unmapped(lvl, pre, task[c].at)'
    BY <1>2, <1>5, <1>8, <1>10, <2>4, UnmappedWrite, Zenon
  <2>6. QED
    BY <1>2, <1>8, <1>10, <2>1, <2>3, <2>5, Zenon DEF TaskOk, OnPath, Zeroed, Clear
<1> HIDE DEF e
<1>16. QED
  BY <1>1, <1>3, <1>4, <1>6, <1>8, <1>9, <1>13, <1>14, <1>15, WriteStep, Zenon
LEMMA SetAddressStep ==
  ASSUME NEW lvl, NEW pre, Inv(lvl, pre), NEW c \in Cpus, SetAddress(c)
  PROVE  Inv(lvl, pre)' /\ halted' = halted
<1> DEFINE t == task[c]
           e == [present |-> TRUE, addr |-> t.new]
           u == [t EXCEPT !.pc = "walk", !.new = Null]
<1>1. /\ t.pc = "set_address" /\ t # Idle /\ t \in Tasks /\ Types /\ TaskOk(lvl, pre, c)
      /\ EntryOf(c) \in Entry
  BY Busy, Zenon DEF Inv, SetAddress
<1>2. /\ lvl[t.table] = t.level /\ OnPath(lvl, pre, t.table, t.at)
      /\ t.frame \in Frames => lvl[t.frame] = 0
      /\ t.op = "fault" \/ t.frame \notin Frames
      /\ t.op = "fault" => Unmapped(lvl, pre, t.at)
      /\ t.new \in Frames /\ lvl[t.new] = t.level + 1
      /\ OnPath(lvl, pre, t.new, t.at) /\ t.level # Depth
      /\ EntryOf(c) = [present |-> TRUE, addr |-> Null]
  BY <1>1, Zenon DEF TaskOk
<1>3. PICK s \in Memory : s = t.table  BY <1>1, TaskFields, Zenon
<1>4. PICK k \in Index : k = t.at[t.level]  BY <1>1, TaskFields, Zenon
<1>5. /\ t.level \in 1 .. Depth - 1 /\ t.level + 1 # 0 /\ t.level # 0 /\ t.at[Depth] \in Index
  <2>1. t.level \in 1 .. Depth /\ t.at[Depth] \in Index  BY <1>1, TaskFields, Zenon
  <2> HIDE DEF t
  <2>2. QED  BY <1>2, <2>1, Consts
<1>6. /\ mem' = [mem EXCEPT ![s][k] = e] /\ task' = [task EXCEPT ![c] = u]
      /\ pool' = pool /\ halted' = halted
  <2>1. EntryOf(c).present = TRUE  BY <1>2
  <2>2. [EntryOf(c) EXCEPT !.addr = t.new] = e  BY <1>1, <2>1, SetAddr, Zenon
  <2>3. SetEntry(c, e)  BY <2>2, Zenon DEF SetAddress
  <2>4. QED  BY <1>3, <1>4, <2>3, Zenon DEF SetAddress, SetEntry, Goto
<1>7. /\ u \in Tasks /\ u.pc = "walk" /\ u.op = t.op /\ u.at = t.at
      /\ u.level = t.level /\ u.table = t.table /\ u.frame = t.frame /\ u.new = Null
  BY <1>1, Zenon DEF Tasks, Pcs
<1>8. e \in Entry /\ e.present /\ e.addr = t.new  BY <1>2 DEF Entry
<1> HIDE DEF u
<1>9. u # Idle  BY <1>7, TaskFields, Zenon
<1>10. task'[c] = u /\ \A d \in Cpus : d # c => task'[d] = task[d]
  BY <1>1, <1>6, Zenon DEF Types
<1>11. /\ mem'[s][k] = e /\ mem[s][k].addr = Null /\ mem[s][k].present
       /\ \A x \in Memory, i \in Index : x # s \/ i # k => mem'[x][i] = mem[x][i]
  <2>1. /\ mem'[s][k] = e
        /\ \A x \in Memory, i \in Index : x # s \/ i # k => mem'[x][i] = mem[x][i]
    <3> HIDE DEF e
    <3>1. QED  BY <1>1, <1>6, <1>8 DEF Types
  <2>2. EntryOf(c).present /\ EntryOf(c).addr = Null  BY <1>2
  <2>3. QED  BY <1>3, <1>4, <2>1, <2>2, Zenon DEF EntryOf
<1> HIDE DEF e
<1>12. t.frame # t.new
  <2>1. t.frame \in Frames => lvl[t.frame] # lvl[t.new]  BY <1>2, <1>5, Zenon
  <2>2. QED  BY <1>2, <2>1, Zenon
<1>13. Held'
  <2>0. PICK f \in Frames : f = t.new  BY <1>2, Zenon
  <2>1. Null \notin Frames  BY Consts, Zenon
  <2>2. Stores(s, k, f)
    <3>1. \A g \in Frames : (Has(s, k, g)' <=> g = f) /\ ~Has(s, k, g)
      BY <1>8, <1>11, <2>0, <2>1, Zenon DEF Has
    <3>2. \A x \in Memory, i \in Index, g \in Frames :
            x # s \/ i # k => (Has(x, i, g)' <=> Has(x, i, g))
      BY <1>11, Zenon DEF Has
    <3>3. QED  BY <3>1, <3>2, Zenon DEF Stores
  <2>3. Releases(c, f)
    <3>1. \A g \in Frames : Keeps(c, g)' <=> Keeps(c, g) /\ g # f
      BY <1>1, <1>7, <1>9, <1>10, <1>12, <2>0, <2>1, Zenon DEF Keeps
    <3>2. \A d \in Cpus, g \in Frames : d # c => (Keeps(d, g)' <=> Keeps(d, g))
      BY <1>10, Zenon DEF Keeps
    <3>3. QED  BY <3>1, <3>2, Zenon DEF Releases
  <2>4. Held /\ Keeps(c, f)  BY <1>1, <2>0, Zenon DEF Inv, Keeps
  <2>5. QED  BY <1>6, <2>2, <2>3, <2>4, HeldStore, Zenon
<1>14. EntryOk(lvl, pre, s, k)'
  <2>1. Child(lvl, pre, s, k, t.new)
    <3>1. pre[t.new][lvl[s]] = k
      <4>1. lvl[s] \in 1 .. lvl[t.new] - 1  BY <1>2, <1>3, <1>5
      <4>2. QED  BY <1>2, <1>3, <1>4, <4>1, Zenon DEF OnPath
    <3>2. ASSUME NEW j \in 1 .. lvl[s] - 1  PROVE pre[t.new][j] = pre[s][j]
      <4>1. j \in 1 .. lvl[t.new] - 1  BY <1>2, <1>3, <1>5
      <4>2. QED  BY <1>2, <1>3, <4>1, Zenon DEF OnPath
    <3>3. QED  BY <1>2, <1>3, <3>1, <3>2, Zenon DEF Child
  <2>2. lvl[s] \in 1 .. Depth - 1 /\ lvl[s] # 0 /\ lvl[s] # Depth
    BY <1>2, <1>3, <1>5, Zenon
  <2>3. Child(lvl, pre, s, k, mem[s][k].addr)'
    BY <1>8, <1>11, <2>1, Zenon DEF Child
  <2>4. QED  BY <1>2, <1>8, <1>11, <2>2, <2>3, Zenon DEF EntryOk
<1>15. TaskOk(lvl, pre, c)'
  <2>1. \A x \in Memory, i \in Index : lvl[x] = Depth => mem'[x][i] = mem[x][i]
    BY <1>2, <1>3, <1>11, Zenon
  <2>2. t.op = "fault" => Unmapped(lvl, pre, task[c].at)'
    BY <1>2, <1>5, <1>7, <1>10, <2>1, UnmappedWrite, Zenon
  <2>3. QED
    BY <1>2, <1>7, <1>10, <2>2, Zenon DEF TaskOk, OnPath
<1>16. QED
  BY <1>1, <1>3, <1>4, <1>6, <1>7, <1>8, <1>13, <1>14, <1>15, WriteStep, Zenon

LEMMA PageAddressStep ==
  ASSUME NEW lvl, NEW pre, Inv(lvl, pre), NEW c \in Cpus, PageAddress(c)
  PROVE  Inv(lvl, pre)' /\ halted' = halted
<1> DEFINE t == task[c]
           e == [present |-> FALSE, addr |-> t.frame]
           u == [t EXCEPT !.pc = "flags"]
<1>1. /\ t.pc = "address" /\ t # Idle /\ t \in Tasks /\ Types /\ TaskOk(lvl, pre, c)
      /\ EntryOf(c) \in Entry
  BY Busy, Zenon DEF Inv, PageAddress
<1>2. /\ lvl[t.table] = t.level /\ OnPath(lvl, pre, t.table, t.at)
      /\ t.frame \in Frames => lvl[t.frame] = 0
      /\ t.op = "fault" => Unmapped(lvl, pre, t.at)
      /\ t.new = Null /\ t.level = Depth /\ t.frame # Null /\ ~EntryOf(c).present
  BY <1>1, Zenon DEF TaskOk
<1>3. PICK s \in Memory : s = t.table  BY <1>1, TaskFields, Zenon
<1>4. PICK k \in Index : k = t.at[t.level]  BY <1>1, TaskFields, Zenon
<1>5. t.at[Depth] \in Index /\ t.frame \in Frames \cup {Null, Device}
  BY <1>1, TaskFields, Zenon
<1>6. /\ mem' = [mem EXCEPT ![s][k] = e] /\ task' = [task EXCEPT ![c] = u]
      /\ pool' = pool /\ halted' = halted
  <2>1. EntryOf(c).present = FALSE  BY <1>1, <1>2 DEF Entry
  <2>2. [EntryOf(c) EXCEPT !.addr = t.frame] = e  BY <1>1, <2>1, SetAddr, Zenon
  <2>3. SetEntry(c, e)  BY <2>2, Zenon DEF PageAddress
  <2>4. QED  BY <1>3, <1>4, <2>3, Zenon DEF PageAddress, SetEntry, Goto
<1>7. "flags" \in Pcs  BY Zenon DEF Pcs
<1>8. /\ u \in Tasks /\ u.pc = "flags" /\ u.op = t.op /\ u.at = t.at
      /\ u.level = t.level /\ u.table = t.table /\ u.frame = t.frame /\ u.new = t.new
      /\ u # Idle
  BY <1>1, <1>7, SetPc, Zenon
<1>9. e \in Entry /\ ~e.present /\ e.addr = t.frame  BY <1>5 DEF Entry
<1> HIDE DEF u
<1>10. task'[c] = u /\ \A d \in Cpus : d # c => task'[d] = task[d]
  BY <1>1, <1>6, Zenon DEF Types
<1> HIDE DEF e
<1>11. /\ mem'[s][k] = e /\ ~mem[s][k].present
       /\ \A x \in Memory, i \in Index : x # s \/ i # k => mem'[x][i] = mem[x][i]
  <2>1. /\ mem'[s][k] = e
        /\ \A x \in Memory, i \in Index : x # s \/ i # k => mem'[x][i] = mem[x][i]
    BY <1>1, <1>6, <1>9 DEF Types
  <2>2. QED  BY <1>2, <1>3, <1>4, <2>1, Zenon DEF EntryOf
<1>12. Held'
  <2>1. \A x \in Memory, i \in Index, f \in Frames : Has(x, i, f)' <=> Has(x, i, f)
    <3>1. \A f \in Frames : ~Has(s, k, f)' /\ ~Has(s, k, f)
      BY <1>9, <1>11, Zenon DEF Has
    <3>2. \A x \in Memory, i \in Index, f \in Frames :
            x # s \/ i # k => (Has(x, i, f)' <=> Has(x, i, f))
      BY <1>11, Zenon DEF Has
    <3>3. QED  BY <3>1, <3>2, Zenon
  <2>2. \A d \in Cpus, f \in Frames : Keeps(d, f)' <=> Keeps(d, f)
    <3>1. \A f \in Frames : Keeps(c, f)' <=> Keeps(c, f)
      BY <1>1, <1>8, <1>10, Zenon DEF Keeps
    <3>2. \A d \in Cpus, f \in Frames : d # c => (Keeps(d, f)' <=> Keeps(d, f))
      BY <1>10, Zenon DEF Keeps
    <3>3. QED  BY <3>1, <3>2, Zenon
  <2>3. QED  BY <1>6, <2>1, <2>2, HeldSame, Zenon DEF Inv
<1>13. EntryOk(lvl, pre, s, k)'
  <2>1. lvl[s] # 0 /\ lvl[s] \notin 1 .. Depth - 1  BY <1>2, <1>3, Consts
  <2>2. QED  BY <1>9, <1>11, <2>1, Zenon DEF EntryOk
<1>14. TaskOk(lvl, pre, c)'
  <2>1. EntryOf(c)' = e  BY <1>3, <1>4, <1>8, <1>10, <1>11, Zenon DEF EntryOf
  <2>2. \A x \in Memory, i \in Index :
          lvl[x] = Depth /\ mem'[x][i].present => mem[x][i].present
    BY <1>9, <1>11, Zenon
  <2>3. t.op = "fault" => Unmapped(lvl, pre, task[c].at)'
    BY <1>2, <1>5, <1>8, <1>10, <2>2, UnmappedWrite, Zenon
  <2>4. QED
    BY <1>2, <1>8, <1>9, <1>10, <2>1, <2>3, Zenon DEF TaskOk, OnPath
<1>15. QED
  BY <1>1, <1>3, <1>4, <1>6, <1>8, <1>9, <1>12, <1>13, <1>14, WriteStep, Zenon
LEMMA PageFlagsStep ==
  ASSUME NEW lvl, NEW pre, Inv(lvl, pre), NEW c \in Cpus, PageFlags(c)
  PROVE  Inv(lvl, pre)' /\ halted' = halted
<1> DEFINE t == task[c]
           e == [present |-> TRUE, addr |-> t.frame]
<1>1. /\ t.pc = "flags" /\ t # Idle /\ t \in Tasks /\ Types /\ TaskOk(lvl, pre, c)
      /\ EntryOf(c) \in Entry
  BY Busy, Zenon DEF Inv, PageFlags
<1>2. /\ lvl[t.table] = t.level
      /\ t.frame \in Frames => lvl[t.frame] = 0
      /\ t.new = Null /\ t.level = Depth /\ t.frame # Null /\ ~EntryOf(c).present
      /\ EntryOf(c).addr = t.frame
  BY <1>1, Zenon DEF TaskOk
<1>3. PICK s \in Memory : s = t.table  BY <1>1, TaskFields, Zenon
<1>4. PICK k \in Index : k = t.at[t.level]  BY <1>1, TaskFields, Zenon
<1>5. t.frame \in Frames \cup {Null, Device}  BY <1>1, TaskFields, Zenon
<1>6. /\ mem' = [mem EXCEPT ![s][k] = e] /\ task' = [task EXCEPT ![c] = Idle]
      /\ pool' = pool /\ halted' = halted
  <2>1. [EntryOf(c) EXCEPT !.present = TRUE] = e  BY <1>1, <1>2, SetPresent, Zenon
  <2>2. SetEntry(c, e)  BY <2>1, Zenon DEF PageFlags
  <2>3. QED  BY <1>3, <1>4, <2>2, Zenon DEF PageFlags, SetEntry, Goto
<1>7. e \in Entry /\ e.present /\ e.addr = t.frame  BY <1>5 DEF Entry
<1> HIDE DEF e
<1>8. task'[c] = Idle /\ \A d \in Cpus : d # c => task'[d] = task[d]
  BY <1>1, <1>6, Zenon DEF Types
<1>9. /\ mem'[s][k] = e /\ ~mem[s][k].present
      /\ \A x \in Memory, i \in Index : x # s \/ i # k => mem'[x][i] = mem[x][i]
  <2>1. /\ mem'[s][k] = e
        /\ \A x \in Memory, i \in Index : x # s \/ i # k => mem'[x][i] = mem[x][i]
    BY <1>1, <1>6, <1>7 DEF Types
  <2>2. QED  BY <1>2, <1>3, <1>4, <2>1, Zenon DEF EntryOf
<1>10. /\ Held /\ Null \notin Frames
       /\ \A x \in Memory, i \in Index, g \in Frames :
            x # s \/ i # k => (Has(x, i, g)' <=> Has(x, i, g))
       /\ \A d \in Cpus, g \in Frames : d # c => (Keeps(d, g)' <=> Keeps(d, g))
       /\ \A g \in Frames : ~Keeps(c, g)'
  <2>1. Held /\ Null \notin Frames  BY Consts, Zenon DEF Inv
  <2>2. QED  BY <1>8, <1>9, <2>1, Zenon DEF Has, Keeps
<1>11. Held'
  <2>1. CASE t.frame \in Frames
    <3>1. PICK f \in Frames : f = t.frame  BY <2>1, Zenon
    <3>2. Stores(s, k, f)
      <4>1. \A g \in Frames : (Has(s, k, g)' <=> g = f) /\ ~Has(s, k, g)
        BY <1>7, <1>9, <3>1, Zenon DEF Has
      <4>2. QED  BY <1>10, <4>1, Zenon DEF Stores
    <3>3. \A g \in Frames : Keeps(c, g) <=> g = f
      BY <1>1, <1>2, <1>10, <3>1, Zenon DEF Keeps
    <3>4. Releases(c, f)  BY <1>10, <3>3, Zenon DEF Releases
    <3>5. Keeps(c, f)  BY <3>3, Zenon
    <3>6. QED  BY <1>6, <1>10, <3>2, <3>4, <3>5, HeldStore, Zenon
  <2>2. CASE t.frame \notin Frames
    <3>1. \A g \in Frames : ~Has(s, k, g)' /\ ~Has(s, k, g)
      BY <1>7, <1>9, <2>2, Zenon DEF Has
    <3>2. \A g \in Frames : ~Keeps(c, g)  BY <1>2, <1>10, <2>2, Zenon DEF Keeps
    <3>3. \A x \in Memory, i \in Index, g \in Frames : Has(x, i, g)' <=> Has(x, i, g)
      BY <1>10, <3>1, Zenon
    <3>4. \A d \in Cpus, g \in Frames : Keeps(d, g)' <=> Keeps(d, g)
      BY <1>10, <3>2, Zenon
    <3>5. QED  BY <1>6, <1>10, <3>3, <3>4, HeldSame, Zenon
  <2>3. QED  BY <2>1, <2>2, Zenon
<1>12. EntryOk(lvl, pre, s, k)'
  <2>1. lvl[s] # 0 /\ lvl[s] \notin 1 .. Depth - 1  BY <1>2, <1>3, Consts
  <2>2. QED  BY <1>2, <1>7, <1>9, <2>1, Zenon DEF EntryOk
<1>13. TaskOk(lvl, pre, c)'  BY <1>8, Zenon DEF TaskOk
<1>14. QED
  BY <1>1, <1>3, <1>4, <1>6, <1>7, <1>11, <1>12, <1>13, WriteStep, Zenon

LEMMA DropFrameStep ==
  ASSUME NEW lvl, NEW pre, Inv(lvl, pre), NEW c \in Cpus, DropFrame(c)
  PROVE  Inv(lvl, pre)' /\ halted' = halted
<1> DEFINE t == task[c]
<1>1. /\ t.pc = "drop" /\ t # Idle /\ t \in Tasks /\ Types /\ TaskOk(lvl, pre, c)
  BY Busy, Zenon DEF Inv, DropFrame
<1>2. t.new = Null /\ t.frame \in Frames /\ lvl[t.frame] = 0
  BY <1>1, Zenon DEF TaskOk
<1>3. PICK f \in Frames : f = t.frame  BY <1>2, Zenon
<1>4. /\ mem' = mem /\ task' = [task EXCEPT ![c] = Idle]
      /\ pool' = pool \cup {f} /\ halted' = halted
  BY <1>3 DEF DropFrame, Goto
<1>5. task'[c] = Idle /\ \A d \in Cpus : d # c => task'[d] = task[d]
  BY <1>1, <1>4, Zenon DEF Types
<1>6. Held'
  <2>1. Held /\ Null \notin Frames  BY Consts, Zenon DEF Inv
  <2>2. \A x \in Memory, i \in Index, g \in Frames : Has(x, i, g)' <=> Has(x, i, g)
    BY <1>4, Zenon DEF Has
  <2>3. \A g \in Frames : (Keeps(c, g) <=> g = f) /\ ~Keeps(c, g)'
    BY <1>1, <1>2, <1>3, <1>5, <2>1, Zenon DEF Keeps
  <2>4. \A d \in Cpus, g \in Frames : d # c => (Keeps(d, g)' <=> Keeps(d, g))
    BY <1>5, Zenon DEF Keeps
  <2>5. Releases(c, f)  BY <2>3, <2>4, Zenon DEF Releases
  <2>6. Keeps(c, f)  BY <2>3, Zenon
  <2>7. QED  BY <1>4, <2>1, <2>2, <2>5, <2>6, HeldGive, Zenon
<1>7. TaskOk(lvl, pre, c)'  BY <1>5, Zenon DEF TaskOk
<1>8. Separate'  BY <1>1, <1>4, SeparateKept, Zenon DEF Inv
<1>9. Local(c)  BY <1>4, Zenon DEF Local
<1>10. \A x \in Memory, i \in Index : EntryOk(lvl, pre, x, i)'
  BY <1>1, <1>4, <1>5, OtherEntry, Zenon
<1>11. pool' \subseteq Frames /\ \A g \in pool' : lvl[g] = 0
  BY <1>2, <1>3, <1>4, Zenon DEF Inv, Types, Labels
<1>12. mem' \in [Memory -> [Index -> Entry]]  BY <1>1, <1>4, Zenon DEF Types
<1>13. QED
  BY <1>4, <1>6, <1>7, <1>8, <1>9, <1>10, <1>11, <1>12, StepInv, Zenon
LEMMA ClearPageStep ==
  ASSUME NEW lvl, NEW pre, Inv(lvl, pre), NEW c \in Cpus, ClearPage(c)
  PROVE  Inv(lvl, pre)' /\ halted' = halted
<1> DEFINE t == task[c]
<1>1. /\ t.pc = "clear" /\ t # Idle /\ t \in Tasks /\ Types /\ TaskOk(lvl, pre, c)
      /\ EntryOf(c) \in Entry
  BY Busy, Zenon DEF Inv, ClearPage
<1>2. /\ lvl[t.table] = t.level /\ OnPath(lvl, pre, t.table, t.at)
      /\ t.op = "fault" => Unmapped(lvl, pre, t.at)
      /\ t.new = Null /\ t.level = Depth /\ t.frame = Null /\ EntryOf(c).present
  BY <1>1, Zenon DEF TaskOk
<1>3. PICK s \in Memory : s = t.table  BY <1>1, TaskFields, Zenon
<1>4. PICK k \in Index : k = t.at[t.level]  BY <1>1, TaskFields, Zenon
<1>5. PICK f \in Frames \cup {Null, Device} : f = EntryOf(c).addr  BY <1>1 DEF Entry
<1>6. mem[s][k].present /\ mem[s][k].addr = f
  BY <1>2, <1>3, <1>4, <1>5, Zenon DEF EntryOf
<1>7. f \in Frames => lvl[f] = 0
  BY <1>2, <1>3, <1>6, Zenon DEF Inv, EntryOk
<1>8. PICK u \in Tasks \cup {Idle} :
        /\ mem' = [mem EXCEPT ![s][k] = Clear] /\ task' = [task EXCEPT ![c] = u]
        /\ pool' = pool /\ halted' = halted
        /\ f \notin Frames => u = Idle
        /\ f \in Frames => /\ u # Idle /\ u.pc = "drop" /\ u.op = t.op /\ u.at = t.at
                           /\ u.level = t.level /\ u.table = t.table /\ u.frame = f
                           /\ u.new = t.new
  <2> DEFINE v == [t EXCEPT !.pc = "drop", !.frame = f]
  <2>1. f \in Frames => /\ v \in Tasks /\ v.pc = "drop" /\ v.op = t.op /\ v.at = t.at
                        /\ v.level = t.level /\ v.table = t.table /\ v.frame = f
                        /\ v.new = t.new
    BY <1>1, Zenon DEF Tasks, Pcs
  <2>2. /\ mem' = [mem EXCEPT ![s][k] = Clear] /\ pool' = pool /\ halted' = halted
        /\ task' = [task EXCEPT ![c] = IF f \in Frames THEN v ELSE Idle]
    BY <1>3, <1>4, <1>5, Zenon DEF ClearPage, SetEntry, Goto
  <2> HIDE DEF v
  <2>3. f \in Frames => v # Idle  BY <2>1, TaskFields, Zenon
  <2>4. CASE f \in Frames
    <3>1. task' = [task EXCEPT ![c] = v]  BY <2>2, <2>4, Zenon
    <3>2. QED  BY <2>1, <2>2, <2>3, <2>4, <3>1, Zenon
  <2>5. CASE f \notin Frames
    <3>1. task' = [task EXCEPT ![c] = Idle]  BY <2>2, <2>5, Zenon
    <3>2. QED  BY <2>2, <2>5, <3>1, Zenon
  <2>6. QED  BY <2>4, <2>5, Zenon
<1>9. task'[c] = u /\ \A d \in Cpus : d # c => task'[d] = task[d]
  BY <1>1, <1>8, Zenon DEF Types
<1>10. /\ mem'[s][k] = Clear
       /\ \A x \in Memory, i \in Index : x # s \/ i # k => mem'[x][i] = mem[x][i]
  BY <1>1, <1>8, ClearEntry DEF Types
<1>11. /\ Held /\ Null \notin Frames
       /\ \A x \in Memory, i \in Index, g \in Frames :
            x # s \/ i # k => (Has(x, i, g)' <=> Has(x, i, g))
       /\ \A g \in Frames : ~Has(s, k, g)'
       /\ \A d \in Cpus, g \in Frames : d # c => (Keeps(d, g)' <=> Keeps(d, g))
       /\ \A g \in Frames : ~Keeps(c, g)
  <2>1. Held /\ Null \notin Frames  BY Consts, Zenon DEF Inv
  <2>2. QED  BY <1>2, <1>9, <1>10, <2>1, ClearEntry, Zenon DEF Has, Keeps
<1>12. Held'
  <2>1. CASE f \in Frames
    <3>1. Has(s, k, f)  BY <1>6, Zenon DEF Has
    <3>2. Fetches(s, k)  BY <1>11, Zenon DEF Fetches
    <3>3. \A g \in Frames : Keeps(c, g)' <=> g = f
      <4>1. task'[c] # Idle /\ task'[c].frame = f /\ task'[c].new = Null
        BY <1>2, <1>8, <1>9, <2>1, Zenon
      <4>2. QED  BY <1>11, <4>1, Zenon DEF Keeps
    <3>4. Takes(c, f)  BY <1>11, <3>3, Zenon DEF Takes
    <3>5. QED  BY <1>8, <1>11, <2>1, <3>1, <3>2, <3>4, HeldFetch, Zenon
  <2>2. CASE f \notin Frames
    <3>1. \A g \in Frames : ~Has(s, k, g)  BY <1>6, <2>2, Zenon DEF Has
    <3>2. \A g \in Frames : ~Keeps(c, g)'  BY <1>8, <1>9, <2>2, Zenon DEF Keeps
    <3>3. \A x \in Memory, i \in Index, g \in Frames : Has(x, i, g)' <=> Has(x, i, g)
      BY <1>11, <3>1, Zenon
    <3>4. \A d \in Cpus, g \in Frames : Keeps(d, g)' <=> Keeps(d, g)
      BY <1>11, <3>2, Zenon
    <3>5. QED  BY <1>8, <1>11, <3>3, <3>4, HeldSame, Zenon
  <2>3. QED  BY <2>1, <2>2, Zenon
<1>13. EntryOk(lvl, pre, s, k)'
  <2>1. lvl[s] \notin 1 .. Depth - 1  BY <1>2, <1>3, Consts
  <2>2. QED  BY <1>10, <2>1, ClearEntry, Zenon DEF EntryOk
<1>14. TaskOk(lvl, pre, c)'
  <2>1. CASE f \in Frames
    <3>1. \A x \in Memory, i \in Index :
            lvl[x] = Depth /\ mem'[x][i].present => mem[x][i].present
      BY <1>10, ClearEntry, Zenon
    <3>2. t.at[Depth] \in Index  BY <1>1, TaskFields, Zenon
    <3>3. t.op = "fault" => Unmapped(lvl, pre, task[c].at)'
      BY <1>2, <1>8, <1>9, <2>1, <3>1, <3>2, UnmappedWrite, Zenon
    <3>4. /\ task'[c].pc = "drop" /\ task'[c].op = t.op /\ task'[c].at = t.at
          /\ task'[c].level = Depth /\ task'[c].table = t.table /\ task'[c].frame = f
          /\ task'[c].new = Null
      BY <1>2, <1>8, <1>9, <2>1, Zenon
    <3>5. QED
      BY <1>2, <1>7, <2>1, <3>3, <3>4, Zenon DEF TaskOk, OnPath
  <2>2. CASE f \notin Frames  BY <1>8, <1>9, <2>2, Zenon DEF TaskOk
  <2>3. QED  BY <2>1, <2>2, Zenon
<1>15. u = Idle \/ u.at = t.at  BY <1>8, Zenon
<1>16. QED
  BY <1>1, <1>3, <1>4, <1>8, <1>12, <1>13, <1>14, <1>15, ClearEntry, WriteStep, Zenon
-----------------------------------------------------------------------------
(* A new table: the labels of its frame change with it.                    *)

\* There is no table yet where a walk creates one.
LEMMA NoTable ==
  ASSUME NEW lvl, NEW pre, Inv(lvl, pre), NEW c \in Cpus, task[c] # Idle,
         task[c].pc = "table", NEW y \in Memory, lvl[y] = task[c].level + 1,
         OnPath(lvl, pre, y, task[c].at)
  PROVE  FALSE
<1> DEFINE t == task[c]
<1>1. t \in Tasks /\ t.level \in 1 .. Depth  BY TaskFields, Zenon DEF Inv, Types
<1>2. /\ lvl[t.table] = t.level /\ OnPath(lvl, pre, t.table, t.at) /\ t.table \in Memory
      /\ EntryOf(c) = Clear
  BY <1>1, TaskFields, Zenon DEF Inv, TaskOk
<1>3. t.level + 1 # 1 /\ t.level + 1 # 0 /\ t.level # 0 /\ lvl[y] # 0
  <2> HIDE DEF t
  <2>1. QED  BY <1>1, Consts DEF t
<1>4. y \in Frames  BY <1>3, Zenon DEF Inv, Labels, Memory
<1>5. ASSUME NEW x \in Memory, NEW i \in Index, Has(x, i, y),
             lvl[x] \in 1 .. Depth - 1, Child(lvl, pre, x, i, y)
      PROVE  FALSE
  <2>1. OnPath(lvl, pre, x, t.at) /\ i = t.at[lvl[x]] /\ lvl[y] = lvl[x] + 1
    BY <1>5, ChildPath
  <2>2. lvl[x] = t.level  BY <1>1, <1>5, <2>1, Consts
  <2>3. x = t.table  BY <1>2, <1>3, <2>1, <2>2, SameTable, Zenon
  <2>4. EntryOf(c).present  BY <1>5, <2>1, <2>2, <2>3, Zenon DEF Has, EntryOf
  <2>5. QED  BY <1>2, <2>4, ClearEntry, Zenon
<1>6. ASSUME NEW d \in Cpus, task[d] # Idle, task[d].new = y,
             task[d].pc \in {"add_flags", "set_address"}
      PROVE  FALSE
  <2>1. c # d  BY <1>6, Zenon
  <2>2. OnPath(lvl, pre, y, task[d].at)  BY <1>6, Zenon DEF Inv, TaskOk
  <2>3. 1 \in 1 .. lvl[y] - 1  BY <1>1
  <2>4. task[c].at[1] = task[d].at[1]  BY <2>2, <2>3, Zenon DEF OnPath
  <2>5. QED  BY <1>6, <2>1, <2>4, Zenon DEF Inv, Separate
<1>7. QED  BY <1>3, <1>4, <1>5, <1>6, Parent, Zenon

\* The labels differ for f only.
Agree(lvl, pre, lvl2, pre2, f) ==
  \A x \in Memory : x # f => lvl2[x] = lvl[x] /\ pre2[x] = pre[x]

LEMMA AgreePath ==
  ASSUME NEW lvl, NEW pre, NEW lvl2, NEW pre2, NEW f, Agree(lvl, pre, lvl2, pre2, f),
         NEW x \in Memory, x # f, NEW a
  PROVE  OnPath(lvl2, pre2, x, a) <=> OnPath(lvl, pre, x, a)
BY Zenon DEF Agree, OnPath

LEMMA NewUnique ==
  ASSUME NEW lvl, NEW pre, Inv(lvl, pre), NEW c \in Cpus, task[c] # Idle,
         task[c].pc = "table", NEW f \in Memory, NEW lvl2, NEW pre2,
         Agree(lvl, pre, lvl2, pre2, f),
         lvl2[f] = task[c].level + 1, pre2[f] = task[c].at
  PROVE  Unique(lvl2, pre2)
<1>1. ASSUME NEW x \in Memory, NEW y \in Memory, lvl2[x] = lvl2[y], lvl2[x] # 0,
             OnPath(lvl2, pre2, x, pre2[y])
      PROVE  x = y
  <2>1. CASE x # f /\ y # f
    <3>1. lvl[x] = lvl[y] /\ lvl[x] # 0 /\ OnPath(lvl, pre, x, pre[y])
      BY <1>1, <2>1, Zenon DEF Agree, OnPath
    <3>2. QED  BY <3>1, Zenon DEF Inv, Unique
  <2>2. CASE x # f /\ y = f
    <3>1. lvl[x] = task[c].level + 1 /\ OnPath(lvl, pre, x, task[c].at)
      BY <1>1, <2>2, Zenon DEF Agree, OnPath
    <3>2. QED  BY <3>1, NoTable, Zenon
  <2>3. CASE x = f /\ y # f
    <3>1. lvl[y] = task[c].level + 1 /\ OnPath(lvl, pre, y, task[c].at)
      BY <1>1, <2>3, Zenon DEF Agree, OnPath
    <3>2. QED  BY <3>1, NoTable, Zenon
  <2>4. QED  BY <2>1, <2>2, <2>3, Zenon
<1>2. QED  BY <1>1, Zenon DEF Unique

LEMMA NewEntryOk ==
  ASSUME NEW lvl, NEW pre, Inv(lvl, pre), NEW c \in Cpus, task[c].pc = "table",
         \A d \in Cpus : d # c => task'[d] = task[d],
         NEW f \in Frames, f \in pool, NEW lvl2, NEW pre2, Agree(lvl, pre, lvl2, pre2, f),
         lvl2[f] # 0, mem'[f] = Zeroed, \A x \in Memory : x # f => mem'[x] = mem[x],
         NEW x \in Memory, NEW i \in Index
  PROVE  EntryOk(lvl2, pre2, x, i)'
<1>1. CASE x = f
  <2>1. mem'[x][i] = Clear  BY <1>1, Zenon DEF Zeroed
  <2>2. QED  BY <1>1, <2>1, ClearEntry, Zenon DEF EntryOk
<1>2. CASE x # f
  <2>1. EntryOk(lvl, pre, x, i) /\ mem'[x][i] = mem[x][i] /\ lvl2[x] = lvl[x]
        /\ pre2[x] = pre[x] /\ Types
    BY <1>2, Zenon DEF Inv, Agree
  <2>2. mem[x][i].present => mem[x][i].addr # f  BY Zenon DEF Inv, Held, Has
  <2>3. /\ lvl2[x] = 0 => mem'[x][i].addr = Null
    BY <2>1, Zenon DEF EntryOk
  <2>4. \A g \in Frames : g # f => lvl2[g] = lvl[g] /\ pre2[g] = pre[g]
    BY Zenon DEF Agree, Memory
  <2>5. lvl2[x] = Depth /\ mem'[x][i].present =>
          /\ mem'[x][i].addr # Null
          /\ mem'[x][i].addr \in Frames => lvl2[mem'[x][i].addr] = 0
    BY <2>1, <2>2, <2>4, Zenon DEF EntryOk
  <2>6. \A d \in Cpus : Here(d, x, i) /\ task[d].pc = "set_address" =>
          Here(d, x, i)' /\ task'[d].pc = "set_address"
    BY Zenon DEF Here
  <2>7. lvl2[x] \in 1 .. Depth - 1 =>
          \/ /\ mem'[x][i].addr = Null
             /\ mem'[x][i].present =>
                  \E d \in Cpus : Here(d, x, i)' /\ task'[d].pc = "set_address"
          \/ /\ mem'[x][i].present /\ mem'[x][i].addr \in Frames
             /\ Child(lvl2, pre2, x, i, mem'[x][i].addr)
    <3>1. ASSUME mem[x][i].present, mem[x][i].addr \in Frames,
                 Child(lvl, pre, x, i, mem[x][i].addr)
          PROVE  Child(lvl2, pre2, x, i, mem'[x][i].addr)
      <4>1. PICK g \in Frames : g = mem[x][i].addr  BY <3>1, Zenon
      <4>2. mem'[x][i].addr = g /\ Child(lvl, pre, x, i, g)  BY <2>1, <3>1, <4>1, Zenon
      <4>3. lvl2[g] = lvl[g] /\ pre2[g] = pre[g]  BY <2>2, <2>4, <3>1, <4>1, Zenon
      <4>4. Child(lvl2, pre2, x, i, g)  BY <2>1, <4>2, <4>3, Zenon DEF Child
      <4>5. QED  BY <4>2, <4>4, Zenon
    <3>2. QED  BY <2>1, <2>6, <3>1, Zenon DEF EntryOk
  <2>8. QED  BY <2>3, <2>5, <2>7, Zenon DEF EntryOk, Child
<1>3. QED  BY <1>1, <1>2, Zenon
LEMMA NewUnmapped ==
  ASSUME NEW lvl, NEW pre, NEW lvl2, NEW pre2, NEW f \in Frames,
         Agree(lvl, pre, lvl2, pre2, f), mem'[f] = Zeroed,
         \A x \in Memory : x # f => mem'[x] = mem[x],
         NEW d \in Cpus, task'[d].at = task[d].at, task[d].at[Depth] \in Index,
         Unmapped(lvl, pre, task[d].at)
  PROVE  Unmapped(lvl2, pre2, task[d].at)'
<1>1. SUFFICES ASSUME NEW x \in Memory, lvl2[x] = Depth,
                      OnPath(lvl2, pre2, x, task'[d].at)
               PROVE  ~mem'[x][task'[d].at[Depth]].present
  BY Zenon DEF Unmapped, OnPath
<1>2. CASE x = f
  <2>1. mem'[x][task'[d].at[Depth]] = Clear  BY <1>2, Zenon DEF Zeroed
  <2>2. QED  BY <2>1, ClearEntry, Zenon
<1>3. CASE x # f
  <2>1. lvl[x] = Depth /\ OnPath(lvl, pre, x, task[d].at)
    BY <1>1, <1>3, Zenon DEF Agree, OnPath
  <2>2. QED  BY <1>3, <2>1, Zenon DEF Unmapped
<1>4. QED  BY <1>2, <1>3, Zenon

LEMMA NewOtherTask ==
  ASSUME NEW lvl, NEW pre, Inv(lvl, pre), NEW d \in Cpus, task'[d] = task[d],
         NEW f \in Frames, f \in pool, NEW lvl2, NEW pre2, Agree(lvl, pre, lvl2, pre2, f),
         mem'[f] = Zeroed, \A x \in Memory : x # f => mem'[x] = mem[x]
  PROVE  TaskOk(lvl2, pre2, d)'
<1>1. CASE task[d] = Idle  BY <1>1, Zenon DEF TaskOk
<1>2. CASE task[d] # Idle
  <2>1. /\ TaskOk(lvl, pre, d) /\ task[d] \in Tasks /\ task[d].table \in Memory
        /\ task[d].level \in 1 .. Depth /\ task[d].at[Depth] \in Index
    BY <1>2, TaskFields, Zenon DEF Inv, Types
  <2>2. task[d].level # 0  BY <2>1
  <2>3. task[d].table # f /\ task[d].frame # f /\ task[d].new # f
    BY <1>2, <2>1, <2>2, Zenon DEF Inv, Labels, TaskOk, Held, Keeps
  <2>4. /\ lvl2[task[d].table] = lvl[task[d].table]
        /\ \A a : OnPath(lvl2, pre2, task[d].table, a) <=> OnPath(lvl, pre, task[d].table, a)
        /\ EntryOf(d)' = EntryOf(d)
    BY <2>1, <2>3, Zenon DEF Agree, OnPath, EntryOf
  <2>5. task[d].frame \in Frames => lvl2[task[d].frame] = lvl[task[d].frame]
    BY <2>3, Zenon DEF Agree, Memory
  <2>6. task[d].new \in Frames =>
          /\ lvl2[task[d].new] = lvl[task[d].new] /\ mem'[task[d].new] = mem[task[d].new]
          /\ \A a : OnPath(lvl2, pre2, task[d].new, a) <=> OnPath(lvl, pre, task[d].new, a)
    BY <2>3, Zenon DEF Agree, Memory, OnPath
  <2>7. Unmapped(lvl, pre, task[d].at) => Unmapped(lvl2, pre2, task[d].at)'
    BY <2>1, NewUnmapped, Zenon
  <2>8. \A x, a : OnPath(lvl2, pre2, x, a)' <=> OnPath(lvl2, pre2, x, a)
    BY Zenon DEF OnPath
  <2>9. QED  BY <1>2, <2>1, <2>4, <2>5, <2>6, <2>7, <2>8, Zenon DEF TaskOk
<1>3. QED  BY <1>1, <1>2, Zenon
LEMMA NewTableStep ==
  ASSUME Least, NEW lvl, NEW pre, Inv(lvl, pre), NEW c \in Cpus, NewTable(c), pool # {}
  PROVE  /\ \E lvl2, pre2 :
              /\ Inv(lvl2, pre2)'
              /\ \E f \in Frames : /\ f \in pool /\ Agree(lvl, pre, lvl2, pre2, f)
                                   /\ mem'[f] = Zeroed
                                   /\ \A x \in Memory : x # f => mem'[x] = mem[x]
         /\ halted' = halted
<1> DEFINE t == task[c]
<1>1. /\ t.pc = "table" /\ t # Idle /\ t \in Tasks /\ Types /\ TaskOk(lvl, pre, c)
  BY Busy, Zenon DEF Inv, NewTable
<1>2. /\ lvl[t.table] = t.level /\ OnPath(lvl, pre, t.table, t.at)
      /\ t.frame \in Frames => lvl[t.frame] = 0
      /\ t.op = "fault" \/ t.frame \notin Frames
      /\ t.op = "fault" => Unmapped(lvl, pre, t.at)
      /\ t.new = Null /\ t.level # Depth /\ EntryOf(c) = Clear
  BY <1>1, Zenon DEF TaskOk
<1>3. /\ t.level \in 1 .. Depth /\ t.at[Depth] \in Index /\ t.table \in Memory
  BY <1>1, TaskFields, Zenon
<1>4. t.level + 1 \in 0 .. Depth /\ t.level + 1 # 0 /\ t.level + 1 # 1 /\ t.level # 0
  BY <1>2, <1>3, Consts
<1>5. PICK f \in Frames : f = Min(pool) /\ f \in pool
  BY <1>1, MinIn, Zenon DEF Types
<1> DEFINE u == [t EXCEPT !.pc = "add_flags", !.new = f]
<1>6. /\ mem' = [mem EXCEPT ![f] = Zeroed] /\ task' = [task EXCEPT ![c] = u]
      /\ pool' = pool \ {f} /\ halted' = halted
  BY <1>5, Zenon DEF NewTable, Goto
<1>7. /\ u \in Tasks /\ u.pc = "add_flags" /\ u.op = t.op /\ u.at = t.at
      /\ u.level = t.level /\ u.table = t.table /\ u.frame = t.frame /\ u.new = f
  BY <1>1, Zenon DEF Tasks, Pcs
<1> HIDE DEF u
<1>8. u # Idle  BY <1>7, TaskFields, Zenon
<1>9. /\ task'[c] = u /\ \A d \in Cpus : d # c => task'[d] = task[d]
      /\ task' \in [Cpus -> Tasks \cup {Idle}]
  BY <1>1, <1>6, <1>7, Zenon DEF Types
<1>10. /\ mem'[f] = Zeroed /\ mem' \in [Memory -> [Index -> Entry]]
       /\ \A x \in Memory : x # f => mem'[x] = mem[x]
  <2>1. Zeroed \in [Index -> Entry] /\ f \in Memory
    BY ClearEntry, Zenon DEF Zeroed, Memory
  <2>2. QED  BY <1>1, <1>6, <2>1, Zenon DEF Types
<1>11. PICK lvl2 : lvl2 = [lvl EXCEPT ![f] = t.level + 1]  BY Zenon
<1>12. PICK pre2 : pre2 = [pre EXCEPT ![f] = t.at]  BY Zenon
<1>13. /\ Agree(lvl, pre, lvl2, pre2, f) /\ lvl2[f] = t.level + 1 /\ pre2[f] = t.at
       /\ lvl2 \in [Memory -> 0 .. Depth] /\ pre2 = [x \in Memory |-> pre2[x]]
       /\ f \in Memory
  <2>1. lvl \in [Memory -> 0 .. Depth] /\ pre = [x \in Memory |-> pre[x]] /\ f \in Memory
    BY Zenon DEF Inv, Labels, Memory
  <2>2. lvl2 \in [Memory -> 0 .. Depth] /\ lvl2[f] = t.level + 1
    BY <1>4, <1>11, <2>1, Zenon
  <2>3. pre2 = [x \in Memory |-> pre2[x]] /\ pre2[f] = t.at
    BY <1>12, <2>1
  <2>4. Agree(lvl, pre, lvl2, pre2, f)
    BY <1>11, <1>12, <2>1 DEF Agree
  <2>5. QED  BY <2>1, <2>2, <2>3, <2>4, Zenon
<1>14. Types'  BY <1>1, <1>6, <1>9, <1>10, Zenon DEF Types
<1>15. Labels(lvl2, pre2)'
  <2>1. lvl2[Root] = 1
    BY <1>13, Consts, Zenon DEF Inv, Labels, Agree, Memory
  <2>2. \A g \in Frames : lvl2[g] # 1
    BY <1>4, <1>13, Zenon DEF Inv, Labels, Agree, Memory
  <2>3. \A g \in pool' : lvl2[g] = 0
    BY <1>1, <1>6, <1>13, Zenon DEF Inv, Types, Labels, Agree, Memory
  <2>4. QED  BY <1>13, <2>1, <2>2, <2>3, Zenon DEF Labels
<1>16. Unique(lvl2, pre2)'
  <2>1. Unique(lvl2, pre2)  BY <1>1, <1>13, NewUnique, Zenon
  <2>2. QED  BY <2>1, Zenon DEF Unique, OnPath
<1>17. Held'
  <2>1. Held /\ Null \notin Frames /\ \A i \in Index : mem[f][i].addr = Null
    <3>1. lvl[f] = 0  BY <1>5, Zenon DEF Inv, Labels
    <3>2. QED  BY <1>13, <3>1, Consts, Zenon DEF Inv, EntryOk
  <2>2. \A x \in Memory, i \in Index, g \in Frames : Has(x, i, g)' <=> Has(x, i, g)
    <3>1. \A i \in Index : mem'[f][i] = Clear  BY <1>10, Zenon DEF Zeroed
    <3>2. \A i \in Index, g \in Frames : ~Has(f, i, g)' /\ ~Has(f, i, g)
      BY <2>1, <3>1, ClearEntry, Zenon DEF Has
    <3>3. \A x \in Memory, i \in Index, g \in Frames :
            x # f => (Has(x, i, g)' <=> Has(x, i, g))
      BY <1>10, Zenon DEF Has
    <3>4. QED  BY <3>2, <3>3, Zenon
  <2>3. \A d \in Cpus, g \in Frames : Keeps(d, g)' <=> Keeps(d, g) \/ (d = c /\ g = f)
    <3>1. \A g \in Frames : Keeps(c, g)' <=> Keeps(c, g) \/ g = f
      BY <1>1, <1>2, <1>7, <1>8, <1>9, <2>1, Zenon DEF Keeps
    <3>2. \A d \in Cpus, g \in Frames : d # c => (Keeps(d, g)' <=> Keeps(d, g))
      BY <1>9, Zenon DEF Keeps
    <3>3. QED  BY <3>1, <3>2, Zenon
  <2>4. QED  BY <1>5, <1>6, <2>1, <2>2, <2>3, HeldTake
<1>18. Separate'  BY <1>1, <1>6, <1>7, SeparateKept, Zenon DEF Inv
<1>19. \A x \in Memory, i \in Index : EntryOk(lvl2, pre2, x, i)'
  BY <1>1, <1>4, <1>5, <1>9, <1>10, <1>13, NewEntryOk, Zenon
<1>20. ASSUME NEW d \in Cpus, d # c  PROVE TaskOk(lvl2, pre2, d)'
  BY <1>5, <1>9, <1>10, <1>13, <1>20, NewOtherTask, Zenon
<1>21. TaskOk(lvl2, pre2, c)'
  <2>1. t.table # f /\ (t.frame \in Frames => t.frame # f)
    BY <1>1, <1>2, <1>4, <1>5, Zenon DEF Inv, Labels, Held, Keeps
  <2>2. /\ lvl2[t.table] = t.level /\ OnPath(lvl2, pre2, t.table, t.at)
        /\ EntryOf(c)' = Clear
    BY <1>2, <1>3, <1>7, <1>9, <1>10, <1>13, <2>1, Zenon DEF Agree, OnPath, EntryOf
  <2>3. t.frame \in Frames => lvl2[t.frame] = 0
    BY <1>2, <1>13, <2>1, Zenon DEF Agree, Memory
  <2>4. OnPath(lvl2, pre2, f, t.at)  BY <1>13, Zenon DEF OnPath
  <2>5. t.op = "fault" => Unmapped(lvl2, pre2, task[c].at)'
    BY <1>2, <1>3, <1>7, <1>9, <1>10, <1>13, NewUnmapped, Zenon
  <2>6. /\ task'[c].pc = "add_flags" /\ task'[c].op = t.op /\ task'[c].at = t.at
        /\ task'[c].level = t.level /\ task'[c].table = t.table
        /\ task'[c].frame = t.frame /\ task'[c].new = f
    BY <1>7, <1>9, Zenon
  <2>7. \A x, a : OnPath(lvl2, pre2, x, a)' <=> OnPath(lvl2, pre2, x, a)
    BY Zenon DEF OnPath
  <2>8. /\ lvl2[task'[c].table] = task'[c].level
        /\ OnPath(lvl2, pre2, task'[c].table, task'[c].at)
        /\ OnPath(lvl2, pre2, task'[c].new, task'[c].at)
        /\ mem'[task'[c].new] = Zeroed /\ task'[c].new \in Frames
        /\ lvl2[task'[c].new] = task'[c].level + 1 /\ task'[c].level # Depth
    BY <1>2, <1>10, <1>13, <2>2, <2>4, <2>6, Zenon
  <2>9. QED
    BY <1>2, <2>2, <2>3, <2>5, <2>6, <2>7, <2>8, Zenon DEF TaskOk
<1>22. Inv(lvl2, pre2)'
  BY <1>14, <1>15, <1>16, <1>17, <1>18, <1>19, <1>20, <1>21, Zenon DEF Inv
<1>23. QED  BY <1>5, <1>6, <1>10, <1>13, <1>22, Zenon
-----------------------------------------------------------------------------
(* The invariant is inductive.                                             *)

LEMMA InvInit == Init => IInv
<1> SUFFICES ASSUME Init  PROVE IInv  OBVIOUS
<1>1. /\ mem = [x \in Memory |-> IF x = Root THEN Zeroed ELSE Garbage]
      /\ pool = Frames /\ task = [c \in Cpus |-> Idle] /\ halted = "no"
  BY Zenon DEF Init, Memory
<1>2. PICK lvl : lvl = [x \in Memory |-> IF x = Root THEN 1 ELSE 0]  BY Zenon
<1>3. PICK pre : pre = [x \in Memory |-> Null]  BY Zenon
<1>4. Root \in Memory /\ Depth # 0 /\ 0 \in 0 .. Depth /\ 1 \in 0 .. Depth
  BY Consts DEF Memory
<1>5. /\ \A x \in Memory, i \in Index : mem[x][i].addr = Null
      /\ \A x \in Memory, i \in Index : lvl[x] # 0 => ~mem[x][i].present
      /\ mem \in [Memory -> [Index -> Entry]]
  <2> DEFINE g == [present |-> TRUE, addr |-> Null]
  <2>1. g.addr = Null /\ g \in Entry  BY DEF Entry
  <2>2. \A i \in Index : Garbage[i] = g /\ Zeroed[i] = Clear
    BY Zenon DEF Garbage, Zeroed
  <2>3. Garbage \in [Index -> Entry] /\ Zeroed \in [Index -> Entry]
    BY <2>1, ClearEntry, Zenon DEF Garbage, Zeroed
  <2> HIDE DEF g
  <2>4. \A x \in Memory : /\ mem[x] = Garbage \/ mem[x] = Zeroed
                          /\ lvl[x] # 0 => mem[x] = Zeroed
    BY <1>1, <1>2
  <2>5. mem \in [Memory -> [Index -> Entry]]  BY <1>1, <2>3
  <2>6. QED  BY <2>1, <2>2, <2>4, <2>5, ClearEntry, Zenon
<1>6. \A c \in Cpus : task[c] = Idle  BY <1>1, Zenon
<1>7. Types  BY <1>1, <1>5, Zenon DEF Types
<1>8. /\ \A x \in Memory : lvl[x] # 0 => x = Root
      /\ lvl[Root] = 1 /\ lvl \in [Memory -> 0 .. Depth]
  BY <1>2, <1>4
<1>9. Labels(lvl, pre)
  <2>1. \A f \in Frames : lvl[f] = 0  BY <1>2, Consts DEF Memory
  <2>2. pre = [x \in Memory |-> pre[x]]  BY <1>3
  <2>3. \A f \in Frames : lvl[f] # 1  BY <2>1
  <2>4. QED  BY <1>1, <1>8, <2>1, <2>2, <2>3, Zenon DEF Labels
<1>10. Unique(lvl, pre)  BY <1>8, Zenon DEF Unique
<1>11. \A x \in Memory, i \in Index, f \in Frames : ~Has(x, i, f)
  BY <1>5, Consts, Zenon DEF Has
<1>12. \A c \in Cpus, f \in Frames : ~Keeps(c, f)  BY <1>6, Zenon DEF Keeps
<1>13. Held  BY <1>1, <1>11, <1>12, Zenon DEF Held
<1>14. Separate  BY <1>6, Zenon DEF Separate
<1>15. \A x \in Memory, i \in Index : EntryOk(lvl, pre, x, i)
  BY <1>4, <1>5, <1>8 DEF EntryOk
<1>16. \A c \in Cpus : TaskOk(lvl, pre, c)  BY <1>6, Zenon DEF TaskOk
<1>17. Inv(lvl, pre)
  BY <1>7, <1>9, <1>10, <1>13, <1>14, <1>15, <1>16, Zenon DEF Inv
<1>18. QED  BY <1>1, <1>17, Zenon DEF IInv, Core

LEMMA StepKeeps ==
  ASSUME Least, NEW lvl, NEW pre, Inv(lvl, pre), NEW c \in Cpus, Step(c)
  PROVE  Core' /\ halted' \in {halted, "out of memory"}
<1>1. SUFFICES ASSUME ~(NewTable(c) /\ pool # {})
               PROVE  Inv(lvl, pre)' /\ halted' \in {halted, "out of memory"}
  <2>1. CASE NewTable(c) /\ pool # {}  BY <2>1, NewTableStep, Zenon DEF Core
  <2>2. QED  BY <2>1, Zenon DEF Core
<1>2. CASE NewTable(c)
  <2>1. OutOfMemory(c) /\ Types  BY <1>1, <1>2, Zenon DEF NewTable, Inv
  <2>2. task[c] # Idle /\ task[c].pc = "table"
    BY <1>2, <2>1, Busy, Zenon DEF NewTable
  <2>3. QED  BY <2>1, <2>2, OutOfMemoryStep, Zenon
<1>3. CASE Fetch(c)  BY <1>3, FetchStep, Zenon
<1>4. CASE FaultFrame(c)  BY <1>4, FaultFrameStep, Zenon
<1>5. CASE Walk(c)  BY <1>5, WalkStep, Zenon
<1>6. CASE AddFlags(c)  BY <1>6, AddFlagsStep, Zenon
<1>7. CASE SetAddress(c)  BY <1>7, SetAddressStep, Zenon
<1>8. CASE Check(c)  BY <1>8, CheckStep, Zenon
<1>9. CASE PageAddress(c)  BY <1>9, PageAddressStep, Zenon
<1>10. CASE PageFlags(c)  BY <1>10, PageFlagsStep, Zenon
<1>11. CASE ClearPage(c)  BY <1>11, ClearPageStep, Zenon
<1>12. CASE DropFrame(c)  BY <1>12, DropFrameStep, Zenon
<1>13. QED
  BY <1>2, <1>3, <1>4, <1>5, <1>6, <1>7, <1>8, <1>9, <1>10, <1>11, <1>12, Zenon DEF Step

LEMMA InvNext ==
  ASSUME Least, Apart, IInv, [Next]_vars
  PROVE  IInv'
<1>1. PICK lvl, pre : Inv(lvl, pre)  BY Zenon DEF IInv, Core
<1>2. CASE UNCHANGED vars
  <2>1. UNCHANGED <<mem, pool, task>> /\ halted' = halted  BY <1>2 DEF vars
  <2>2. QED  BY <1>1, <2>1, PanicStep, Zenon DEF IInv, Core
<1>3. ASSUME NEW c \in Cpus, Step(c)  PROVE IInv'
  BY <1>1, <1>3, StepKeeps, Zenon DEF IInv
<1>4. ASSUME NEW c \in Cpus, Call(c)  PROVE IInv'
  <2>1. PICK a \in Address : \E op \in {"fault", "map", "unmap"}, frame \in {Null, Device} :
          Begin(c, op, a, frame) /\ (op # "map" => frame = Null)
    BY <1>4, Zenon DEF Call
  <2>2. PICK op \in {"fault", "map", "unmap"}, frame \in {Null, Device} :
          Begin(c, op, a, frame) /\ (op # "map" => frame = Null)
    BY <2>1, Zenon
  <2>3. QED  BY <1>1, <2>2, BeginStep, Zenon DEF IInv, Core
<1>5. QED  BY <1>2, <1>3, <1>4, Zenon DEF Next, Halted
-----------------------------------------------------------------------------
(* What translate computes.                                                *)

\* One step of the recursion of TableAt.
NextTable(a, table, l) ==
  IF l = 1 THEN Root
  ELSE IF table[l - 1] # Null /\ mem[table[l - 1]][a[l - 1]].present
       THEN mem[table[l - 1]][a[l - 1]].addr ELSE Null

LEMMA TableAtIs ==
  ASSUME Least, NEW a, NEW g, g = [l \in 1 .. Depth |-> NextTable(a, g, l)]
  PROVE  TableAt(a) = g
<1> DEFINE P(h) == h = [l \in 1 .. Depth |-> NextTable(a, h, l)]
<1>1. TableAt(a) = CHOOSE h : P(h)  BY Zenon DEF TableAt, NextTable
<1>2. \E h : P(h)  BY Zenon
<1>3. PICK h : h = TableAt(a)  BY Zenon
<1>4. P(h)  BY <1>1, <1>2, <1>3, Zenon
<1> HIDE DEF P
<1> DEFINE S == {l \in 1 .. Depth : h[l] # g[l]}
<1>5. S = {}
  <2>1. SUFFICES ASSUME S # {}  PROVE FALSE  BY Zenon
  <2>2. S \in SUBSET Nat  OBVIOUS
  <2>3. PICK l \in S : \A m \in S : l <= m  BY <2>1, <2>2, Zenon DEF Least
  <2>4. l \in 1 .. Depth /\ h[l] # g[l]  BY Zenon
  <2>5. h[l] = NextTable(a, h, l) /\ g[l] = NextTable(a, g, l)
    BY <1>4, <2>4, Zenon DEF P
  <2>6. l # 1  BY <2>4, <2>5, Zenon DEF NextTable
  <2>7. l - 1 \in 1 .. Depth /\ ~(l <= l - 1)  BY <2>4, <2>6, Consts
  <2>8. h[l - 1] = g[l - 1]  BY <2>3, <2>7, Zenon
  <2>9. QED  BY <2>4, <2>5, <2>6, <2>8, Zenon DEF NextTable
<1>6. \A l \in 1 .. Depth : h[l] = g[l]  BY <1>5, Zenon
<1>7. h = [l \in 1 .. Depth |-> h[l]] /\ g = [l \in 1 .. Depth |-> g[l]]
  BY <1>4 DEF P
<1>8. h = g  BY <1>6, <1>7
<1>9. QED  BY <1>3, <1>8, Zenon
\* Table x is the one at level l on the way to a, and it is in the tree.
Linked(lvl, pre, a, l, x) ==
  /\ x \in Memory /\ lvl[x] = l /\ OnPath(lvl, pre, x, a)
  /\ \A c \in Cpus : ~(task[c] # Idle /\ task[c].new = x)

LEMMA InHand ==
  ASSUME NEW lvl, NEW pre, Inv(lvl, pre), NEW c \in Cpus, task[c] # Idle,
         NEW x \in Memory, task[c].new = x, NEW i \in Index
  PROVE  ~mem[x][i].present
<1>1. Null \notin Memory /\ TaskOk(lvl, pre, c)  BY Consts, Zenon DEF Inv
<1>2. mem[x] = Zeroed  BY <1>1, Zenon DEF TaskOk
<1>3. mem[x][i] = Clear  BY <1>2, Zenon DEF Zeroed
<1>4. QED  BY <1>3, ClearEntry, Zenon

LEMMA LinkedUp ==
  ASSUME NEW lvl, NEW pre, Inv(lvl, pre), NEW a, NEW l \in 1 .. Depth, l # 1, NEW x,
         Linked(lvl, pre, a, l, x)
  PROVE  \E y \in Memory :
           /\ Linked(lvl, pre, a, l - 1, y) /\ a[l - 1] \in Index /\ Has(y, a[l - 1], x)
           /\ x \in Frames
<1>1. x \in Memory /\ lvl[x] = l /\ OnPath(lvl, pre, x, a)  BY Zenon DEF Linked
<1>2. l # 0  OBVIOUS
<1>3. x \in Frames  BY <1>1, Zenon DEF Inv, Labels, Memory
<1>4. PICK y \in Memory, i \in Index :
        Has(y, i, x) /\ lvl[y] \in 1 .. Depth - 1 /\ Child(lvl, pre, y, i, x)
  <2>1. ~\E c \in Cpus : task[c] # Idle /\ task[c].new = x  BY Zenon DEF Linked
  <2>2. lvl[x] # 0  BY <1>1, <1>2, Zenon
  <2>3. QED  BY <1>3, <2>1, <2>2, Parent, Zenon
<1>5. OnPath(lvl, pre, y, a) /\ i = a[lvl[y]] /\ lvl[x] = lvl[y] + 1
  BY <1>1, <1>4, ChildPath
<1>6. lvl[y] = l - 1  BY <1>1, <1>4, <1>5, Consts
<1>7. \A c \in Cpus : ~(task[c] # Idle /\ task[c].new = y)
  BY <1>4, InHand, Zenon DEF Has
<1>8. Linked(lvl, pre, a, l - 1, y)  BY <1>5, <1>6, <1>7, Zenon DEF Linked
<1>9. a[l - 1] = i  BY <1>5, <1>6, Zenon
<1>10. QED  BY <1>3, <1>4, <1>8, <1>9, Zenon

LEMMA LinkedDown ==
  ASSUME NEW lvl, NEW pre, Inv(lvl, pre), NEW a, NEW l \in 1 .. Depth, l # 1, NEW y,
         Linked(lvl, pre, a, l - 1, y), a[l - 1] \in Index,
         mem[y][a[l - 1]].present, mem[y][a[l - 1]].addr # Null
  PROVE  Linked(lvl, pre, a, l, mem[y][a[l - 1]].addr)
<1> DEFINE i == a[l - 1]
<1>1. y \in Memory /\ lvl[y] = l - 1 /\ OnPath(lvl, pre, y, a)  BY Zenon DEF Linked
<1>2. l - 1 \in 1 .. Depth - 1 /\ (l - 1) + 1 = l  BY Consts
<1>3. PICK x \in Frames : x = mem[y][i].addr /\ Child(lvl, pre, y, i, x)
  BY <1>1, <1>2, Zenon DEF Inv, EntryOk
<1>4. lvl[x] = l  BY <1>1, <1>2, <1>3, Zenon DEF Child
<1>5. OnPath(lvl, pre, x, a)
  <2>1. SUFFICES ASSUME NEW j \in 1 .. l - 1  PROVE pre[x][j] = a[j]
    BY <1>4, Zenon DEF OnPath
  <2>2. CASE j = l - 1  BY <1>1, <1>3, <2>2, Zenon DEF Child
  <2>3. CASE j # l - 1
    <3>1. j \in 1 .. lvl[y] - 1  BY <1>1, <2>3
    <3>2. QED  BY <1>1, <1>3, <3>1, Zenon DEF Child, OnPath
  <2>4. QED  BY <2>2, <2>3, Zenon
<1>6. Has(y, i, x)  BY <1>3, Zenon DEF Has
<1>7. \A c \in Cpus : ~Keeps(c, x)  BY <1>1, <1>6, Zenon DEF Inv, Held
<1>8. QED  BY <1>3, <1>4, <1>5, <1>7, Zenon DEF Linked, Keeps, Memory

LEMMA TableAtLinked ==
  ASSUME Least, NEW lvl, NEW pre, Inv(lvl, pre), NEW a \in [1 .. Depth -> Index],
         NEW l \in 1 .. Depth
  PROVE  /\ \A x : Linked(lvl, pre, a, l, x) => TableAt(a)[l] = x
         /\ (\A x : ~Linked(lvl, pre, a, l, x)) => TableAt(a)[l] = Null
<1> DEFINE L(m, x) == Linked(lvl, pre, a, m, x)
<1>1. \A m \in 1 .. Depth : \A x, y : L(m, x) /\ L(m, y) => x = y
  <2>1. SUFFICES ASSUME NEW m \in 1 .. Depth, NEW x, NEW y, L(m, x), L(m, y)
                 PROVE  x = y
    BY Zenon
  <2>2. m # 0  OBVIOUS
  <2>3. QED  BY <2>1, <2>2, SameTable, Zenon DEF Linked
<1> DEFINE g == [m \in 1 .. Depth |-> IF \E x : L(m, x) THEN CHOOSE x : L(m, x) ELSE Null]
<1>2. \A m \in 1 .. Depth : \A x : L(m, x) => g[m] = x
  <2>1. SUFFICES ASSUME NEW m \in 1 .. Depth, NEW x, L(m, x)  PROVE g[m] = x  BY Zenon
  <2>2. L(m, CHOOSE y : L(m, y))  BY <2>1, Zenon
  <2>3. (CHOOSE y : L(m, y)) = x  BY <1>1, <2>1, <2>2, Zenon
  <2>4. QED  BY <2>1, <2>3, Zenon
<1>3. \A m \in 1 .. Depth : (\A x : ~L(m, x)) => g[m] = Null  BY Zenon
<1>4. \A x : \A m : L(m, x) => x \in Memory /\ x # Null
  BY Consts, Zenon DEF Linked
<1>5. g = [m \in 1 .. Depth |-> g[m]]  OBVIOUS
<1> HIDE DEF L, g
<1>6. ASSUME NEW m \in 1 .. Depth  PROVE g[m] = NextTable(a, g, m)
  <2>1. CASE m = 1
    <3>1. L(1, Root)
      <4>1. Root \in Memory /\ lvl[Root] = 1 /\ Root \notin Frames /\ Root # Null
        BY Consts, Zenon DEF Inv, Labels, Memory
      <4>2. \A c \in Cpus : ~(task[c] # Idle /\ task[c].new = Root)
        BY <4>1, TaskFields, Zenon DEF Inv, Types
      <4>3. OnPath(lvl, pre, Root, a)  BY <4>1 DEF OnPath
      <4>4. QED  BY <4>1, <4>2, <4>3, Zenon DEF L, Linked
    <3>2. QED  BY <1>2, <2>1, <3>1, Zenon DEF NextTable
  <2>2. CASE m # 1
    <3>1. m - 1 \in 1 .. Depth /\ a[m - 1] \in Index  BY <2>2, Consts
    <3>2. CASE \E y : L(m - 1, y)
      <4>1. PICK y : L(m - 1, y)  BY <3>2, Zenon
      <4>2. g[m - 1] = y /\ y # Null  BY <1>2, <1>4, <3>1, <4>1, Zenon
      <4>3. CASE mem[y][a[m - 1]].present /\ mem[y][a[m - 1]].addr # Null
        <5>1. L(m, mem[y][a[m - 1]].addr)
          BY <2>2, <3>1, <4>1, <4>3, LinkedDown, Zenon DEF L
        <5>2. QED  BY <1>2, <2>2, <4>2, <4>3, <5>1, Zenon DEF NextTable
      <4>4. CASE ~(mem[y][a[m - 1]].present /\ mem[y][a[m - 1]].addr # Null)
        <5>1. ASSUME NEW x, L(m, x)  PROVE FALSE
          <6>1. PICK z \in Memory : /\ L(m - 1, z) /\ Has(z, a[m - 1], x) /\ x \in Frames
            BY <2>2, <5>1, LinkedUp, Zenon DEF L
          <6>2. z = y  BY <1>1, <3>1, <4>1, <6>1, Zenon
          <6>3. QED  BY <4>4, <6>1, <6>2, Consts, Zenon DEF Has
        <5>2. g[m] = Null  BY <1>3, <5>1, Zenon
        <5>3. QED  BY <2>2, <4>2, <4>4, <5>2, Zenon DEF NextTable
      <4>5. QED  BY <4>3, <4>4, Zenon
    <3>3. CASE \A y : ~L(m - 1, y)
      <4>1. g[m - 1] = Null  BY <1>3, <3>1, <3>3, Zenon
      <4>2. \A x : ~L(m, x)  BY <2>2, <3>3, LinkedUp, Zenon DEF L
      <4>3. g[m] = Null  BY <1>3, <4>2, Zenon
      <4>4. QED  BY <2>2, <4>1, <4>3, Zenon DEF NextTable
    <3>4. QED  BY <3>2, <3>3, Zenon
  <2>3. QED  BY <2>1, <2>2, Zenon
<1>7. g = [m \in 1 .. Depth |-> NextTable(a, g, m)]  BY <1>5, <1>6, Zenon
<1>8. TableAt(a) = g  BY <1>7, TableAtIs, Zenon
<1>9. QED  BY <1>2, <1>3, <1>8, Zenon DEF L
\* The page of address a is mapped in table x.
PageAt(lvl, pre, a, x) ==
  lvl[x] = Depth /\ OnPath(lvl, pre, x, a) /\ mem[x][a[Depth]].present

\* translate finds the entry of the page, and only that.
TranslateOk ==
  \A lvl, pre : Inv(lvl, pre) =>
    \A a \in Address :
      /\ \A x \in Memory : PageAt(lvl, pre, a, x) =>
           translate(a) = mem[x][a[Depth]].addr
      /\ (\A x \in Memory : ~PageAt(lvl, pre, a, x)) => translate(a) = Null

LEMMA TranslateIs ==
  ASSUME Least
  PROVE  TranslateOk
<1>1. SUFFICES ASSUME NEW lvl, NEW pre, Inv(lvl, pre), NEW a \in Address
               PROVE  /\ \A x \in Memory : PageAt(lvl, pre, a, x) =>
                           translate(a) = mem[x][a[Depth]].addr
                      /\ (\A x \in Memory : ~PageAt(lvl, pre, a, x)) => translate(a) = Null
  BY Zenon DEF TranslateOk
<1>2. a \in [1 .. Depth -> Index] /\ Depth \in 1 .. Depth /\ a[Depth] \in Index
  BY AddressAssumption, Consts, Zenon
<1>3. /\ \A x : Linked(lvl, pre, a, Depth, x) => TableAt(a)[Depth] = x
      /\ (\A x : ~Linked(lvl, pre, a, Depth, x)) => TableAt(a)[Depth] = Null
  BY <1>1, <1>2, TableAtLinked, Zenon
<1>4. ASSUME NEW x \in Memory, PageAt(lvl, pre, a, x)
      PROVE  translate(a) = mem[x][a[Depth]].addr
  <2>1. \A c \in Cpus : ~(task[c] # Idle /\ task[c].new = x)
    BY <1>1, <1>2, <1>4, InHand, Zenon DEF PageAt
  <2>2. Linked(lvl, pre, a, Depth, x)  BY <1>4, <2>1, Zenon DEF PageAt, Linked
  <2>3. TableAt(a)[Depth] = x /\ x # Null  BY <1>3, <2>2, Consts, Zenon
  <2>4. QED  BY <1>4, <2>3, Zenon DEF translate, PageAt
<1>5. ASSUME \A x \in Memory : ~PageAt(lvl, pre, a, x)  PROVE translate(a) = Null
  <2>1. CASE \E x : Linked(lvl, pre, a, Depth, x)
    <3>1. PICK x : Linked(lvl, pre, a, Depth, x)  BY <2>1, Zenon
    <3>2. TableAt(a)[Depth] = x /\ ~mem[x][a[Depth]].present
      BY <1>3, <1>5, <3>1, Zenon DEF Linked, PageAt
    <3>3. QED  BY <3>2, Zenon DEF translate
  <2>2. CASE \A x : ~Linked(lvl, pre, a, Depth, x)
    BY <1>3, <2>2, Zenon DEF translate
  <2>3. QED  BY <2>1, <2>2, Zenon
<1>6. QED  BY <1>4, <1>5, Zenon

-----------------------------------------------------------------------------
(* The tables implement a map from addresses to frames.                    *)

\* A step that maps no page and unmaps none.
LEMMA SameTranslation ==
  ASSUME TranslateOk, TranslateOk', NEW lvl, NEW pre, NEW lvl2, NEW pre2, Inv(lvl, pre),
         Inv(lvl2, pre2)', NEW a \in Address,
         \A x \in Memory : PageAt(lvl2, pre2, a, x)' <=> PageAt(lvl, pre, a, x),
         \A x \in Memory : PageAt(lvl, pre, a, x) =>
           mem'[x][a[Depth]].addr = mem[x][a[Depth]].addr
  PROVE  translate(a)' = translate(a)
<1>1. CASE \E x \in Memory : PageAt(lvl, pre, a, x)
  <2>1. PICK x \in Memory : PageAt(lvl, pre, a, x)  BY <1>1, Zenon
  <2>2. translate(a) = mem[x][a[Depth]].addr  BY <2>1, Zenon DEF TranslateOk
  <2>3. translate(a)' = mem'[x][a[Depth]].addr  BY <2>1, Zenon DEF TranslateOk
  <2>4. QED  BY <2>1, <2>2, <2>3, Zenon
<1>2. CASE \A x \in Memory : ~PageAt(lvl, pre, a, x)
  BY <1>2, Zenon DEF TranslateOk
<1>3. QED  BY <1>1, <1>2, Zenon

\* Entry k of table s is the only one to change, and only for address b.
LEMMA OtherTranslation ==
  ASSUME TranslateOk, TranslateOk', NEW lvl, NEW pre, Inv(lvl, pre), Inv(lvl, pre)',
         NEW s \in Memory, lvl[s] = Depth, NEW b \in Address, OnPath(lvl, pre, s, b),
         \A x \in Memory, i \in Index : x # s \/ i # b[Depth] => mem'[x][i] = mem[x][i],
         NEW a \in Address, a # b
  PROVE  translate(a)' = translate(a)
<1>1. /\ a \in [1 .. Depth -> Index] /\ b \in [1 .. Depth -> Index]
      /\ a[Depth] \in Index
  BY AddressAssumption, Consts, Zenon
<1>2. ASSUME NEW x \in Memory, lvl[x] = Depth, OnPath(lvl, pre, x, a)
      PROVE  mem'[x][a[Depth]] = mem[x][a[Depth]]
  <2>1. SUFFICES ASSUME x = s, a[Depth] = b[Depth]  PROVE FALSE  BY <1>1, Zenon
  <2>2. ASSUME NEW j \in 1 .. Depth  PROVE a[j] = b[j]
    <3>1. CASE j = Depth  BY <2>1, <3>1, Zenon
    <3>2. CASE j # Depth
      <4>1. j \in 1 .. lvl[s] - 1  BY <3>2, Consts
      <4>2. QED  BY <1>2, <2>1, <4>1, Zenon DEF OnPath
    <3>3. QED  BY <3>1, <3>2, Zenon
  <2>3. a = [j \in 1 .. Depth |-> a[j]] /\ b = [j \in 1 .. Depth |-> b[j]]
    BY <1>1, Zenon
  <2>4. a = b  BY <2>2, <2>3, Zenon
  <2>5. QED  BY <2>4, Zenon
<1>3. \A x \in Memory : PageAt(lvl, pre, a, x)' <=> PageAt(lvl, pre, a, x)
  BY <1>2, Zenon DEF PageAt, OnPath
<1>4. \A x \in Memory : PageAt(lvl, pre, a, x) =>
        mem'[x][a[Depth]].addr = mem[x][a[Depth]].addr
  BY <1>2, Zenon DEF PageAt
<1>5. QED  BY <1>3, <1>4, SameTranslation, Zenon
\* What the steps do to the entries of the pages.
Quiet(lvl) ==
  \A x \in Memory, i \in Index : lvl[x] = Depth =>
    /\ mem'[x][i].present <=> mem[x][i].present
    /\ mem[x][i].present => mem'[x][i].addr = mem[x][i].addr

LEMMA QuietStep ==
  ASSUME TranslateOk, TranslateOk', NEW lvl, NEW pre, Inv(lvl, pre), Inv(lvl, pre)',
         Quiet(lvl), NEW a \in Address
  PROVE  translate(a)' = translate(a)
<1>1. a[Depth] \in Index  BY AddressAssumption, Consts, Zenon
<1>2. \A x \in Memory : PageAt(lvl, pre, a, x)' <=> PageAt(lvl, pre, a, x)
  BY <1>1, Zenon DEF PageAt, OnPath, Quiet
<1>3. \A x \in Memory : PageAt(lvl, pre, a, x) =>
        mem'[x][a[Depth]].addr = mem[x][a[Depth]].addr
  BY <1>1, Zenon DEF PageAt, Quiet
<1>4. QED  BY <1>2, <1>3, SameTranslation

LEMMA QuietSame ==
  ASSUME NEW lvl, mem' = mem
  PROVE  Quiet(lvl)
BY Zenon DEF Quiet

LEMMA WritesOne ==
  ASSUME Types, NEW c \in Cpus, task[c] \in Tasks, NEW e \in Entry, SetEntry(c, e)
  PROVE  /\ mem'[task[c].table][task[c].at[task[c].level]] = e
         /\ \A x \in Memory, i \in Index :
              x # task[c].table \/ i # task[c].at[task[c].level] => mem'[x][i] = mem[x][i]
<1>1. PICK s \in Memory : s = task[c].table  BY TaskFields, Zenon
<1>2. PICK k \in Index : k = task[c].at[task[c].level]  BY TaskFields, Zenon
<1>3. mem' = [mem EXCEPT ![s][k] = e]  BY <1>1, <1>2, Zenon DEF SetEntry
<1>4. /\ mem'[s][k] = e
      /\ \A x \in Memory, i \in Index : x # s \/ i # k => mem'[x][i] = mem[x][i]
  BY <1>3 DEF Types
<1>5. QED  BY <1>1, <1>2, <1>4, Zenon

LEMMA QuietTable ==
  ASSUME NEW lvl, NEW pre, Inv(lvl, pre), NEW c \in Cpus, AddFlags(c) \/ SetAddress(c)
  PROVE  Quiet(lvl)
<1> DEFINE t == task[c]
<1>1. /\ t.pc \in {"add_flags", "set_address"} /\ t # Idle /\ t \in Tasks /\ Types
      /\ TaskOk(lvl, pre, c) /\ EntryOf(c) \in Entry
  BY Busy, Zenon DEF Inv, AddFlags, SetAddress
<1>2. lvl[t.table] # Depth /\ t.new \in Frames
  BY <1>1, Zenon DEF TaskOk
<1>3. PICK e \in Entry : SetEntry(c, e)
  <2>1. [EntryOf(c) EXCEPT !.present = TRUE] \in Entry  BY <1>1, Zenon DEF Entry
  <2>2. [EntryOf(c) EXCEPT !.addr = t.new] \in Entry  BY <1>1, <1>2 DEF Entry
  <2>3. QED  BY <2>1, <2>2, Zenon DEF AddFlags, SetAddress
<1>4. \A x \in Memory, i \in Index : x # t.table => mem'[x][i] = mem[x][i]
  BY <1>1, <1>3, WritesOne, Zenon
<1>5. \A x \in Memory, i \in Index : lvl[x] = Depth => mem'[x][i] = mem[x][i]
  BY <1>2, <1>4, Zenon
<1>6. QED  BY <1>5, Zenon DEF Quiet

LEMMA QuietAddress ==
  ASSUME NEW lvl, NEW pre, Inv(lvl, pre), NEW c \in Cpus, PageAddress(c)
  PROVE  Quiet(lvl)
<1> DEFINE t == task[c]
           k == t.at[t.level]
           e == [EntryOf(c) EXCEPT !.addr = t.frame]
<1>1. /\ t.pc = "address" /\ t # Idle /\ t \in Tasks /\ Types /\ TaskOk(lvl, pre, c)
      /\ EntryOf(c) \in Entry
  BY Busy, Zenon DEF Inv, PageAddress
<1>2. ~EntryOf(c).present  BY <1>1, Zenon DEF TaskOk
<1>3. t.frame \in Frames \cup {Null, Device}  BY <1>1, TaskFields, Zenon
<1>4. e \in Entry  BY <1>1, <1>3 DEF Entry
<1>5. e.present = EntryOf(c).present  BY <1>1 DEF Entry
<1>6. SetEntry(c, e)  BY Zenon DEF PageAddress
<1> HIDE DEF e
<1>7. /\ mem'[t.table][k] = e
      /\ \A x \in Memory, i \in Index : x # t.table \/ i # k => mem'[x][i] = mem[x][i]
  BY <1>1, <1>4, <1>6, WritesOne, Zenon
<1>8. ~mem'[t.table][k].present /\ ~mem[t.table][k].present
  BY <1>2, <1>5, <1>7, Zenon DEF EntryOf
<1> HIDE DEF t, k
<1>9. QED  BY <1>7, <1>8, Zenon DEF Quiet

LEMMA QuietStay ==
  ASSUME NEW lvl, NEW c \in Cpus,
         \/ Fetch(c) \/ FaultFrame(c) \/ Walk(c) \/ Check(c) \/ DropFrame(c)
         \/ (NewTable(c) /\ pool = {})
  PROVE  Quiet(lvl)
<1>1. mem' = mem
  BY Zenon DEF Fetch, FaultFrame, Walk, Check, DropFrame, NewTable, OutOfMemory, Panic
<1>2. QED  BY <1>1, QuietSame, Zenon
LEMMA TableTranslation ==
  ASSUME Least, TranslateOk, TranslateOk', NEW lvl, NEW pre, Inv(lvl, pre), NEW c \in Cpus,
         NewTable(c), pool # {}, NEW a \in Address
  PROVE  translate(a)' = translate(a)
<1>1. PICK lvl2, pre2 :
        /\ Inv(lvl2, pre2)'
        /\ \E f \in Frames : /\ f \in pool /\ Agree(lvl, pre, lvl2, pre2, f)
                             /\ mem'[f] = Zeroed
                             /\ \A x \in Memory : x # f => mem'[x] = mem[x]
  BY NewTableStep, Zenon
<1>2. PICK f \in Frames : /\ f \in pool /\ Agree(lvl, pre, lvl2, pre2, f)
                          /\ mem'[f] = Zeroed
                          /\ \A x \in Memory : x # f => mem'[x] = mem[x]
  BY <1>1, Zenon
<1>3. a[Depth] \in Index /\ Depth # 0  BY AddressAssumption, Consts
<1>4. ~PageAt(lvl, pre, a, f)  BY <1>2, <1>3, Zenon DEF PageAt, Inv, Labels
<1>5. ~PageAt(lvl2, pre2, a, f)'
  <2>1. mem'[f][a[Depth]] = Clear  BY <1>2, <1>3, Zenon DEF Zeroed
  <2>2. QED  BY <2>1, ClearEntry, Zenon DEF PageAt
<1>6. ASSUME NEW x \in Memory, x # f
      PROVE  PageAt(lvl2, pre2, a, x)' <=> PageAt(lvl, pre, a, x)
  BY <1>2, <1>6, Zenon DEF PageAt, OnPath, Agree
<1>7. \A x \in Memory : PageAt(lvl2, pre2, a, x)' <=> PageAt(lvl, pre, a, x)
  BY <1>4, <1>5, <1>6, Zenon
<1>8. \A x \in Memory : PageAt(lvl, pre, a, x) =>
        mem'[x][a[Depth]].addr = mem[x][a[Depth]].addr
  BY <1>2, <1>4, Zenon
<1>9. QED  BY <1>1, <1>7, <1>8, SameTranslation

\* PageFlags maps the page of the walk,
LEMMA MapTranslation ==
  ASSUME TranslateOk, TranslateOk', NEW lvl, NEW pre, Inv(lvl, pre), NEW c \in Cpus,
         PageFlags(c)
  PROVE  \E b \in Address, f \in Frames \cup {Device} :
           /\ translate(b) = Null /\ translate(b)' = f
           /\ \A a \in Address : a # b => translate(a)' = translate(a)
<1> DEFINE t == task[c]
           e == [EntryOf(c) EXCEPT !.present = TRUE]
<1>1. /\ t.pc = "flags" /\ t # Idle /\ t \in Tasks /\ Types /\ TaskOk(lvl, pre, c)
      /\ EntryOf(c) \in Entry
  BY Busy, Zenon DEF Inv, PageFlags
<1>2. /\ lvl[t.table] = t.level /\ OnPath(lvl, pre, t.table, t.at)
      /\ t.level = Depth /\ t.frame # Null /\ ~EntryOf(c).present
      /\ EntryOf(c).addr = t.frame
  BY <1>1, Zenon DEF TaskOk
<1>3. PICK s \in Memory : s = t.table  BY <1>1, TaskFields, Zenon
<1>4. PICK b \in Address : b = t.at  BY <1>1, TaskFields, Zenon
<1>5. PICK f \in Frames \cup {Device} : f = t.frame  BY <1>1, <1>2, TaskFields, Zenon
<1>6. b[Depth] \in Index  BY <1>1, <1>4, TaskFields, Zenon
<1>7. SetEntry(c, e)  BY Zenon DEF PageFlags
<1>8. e \in Entry /\ e.addr = f /\ e.present
  <2>1. e = [present |-> TRUE, addr |-> f]  BY <1>1, <1>2, <1>5, SetPresent, Zenon
  <2>2. f \in Frames \cup {Null, Device}  BY Zenon
  <2> HIDE DEF e
  <2>3. QED  BY <2>1, <2>2 DEF Entry
<1> HIDE DEF e
<1>9. /\ mem'[s][b[Depth]] = e /\ ~mem[s][b[Depth]].present
      /\ \A x \in Memory, i \in Index : x # s \/ i # b[Depth] => mem'[x][i] = mem[x][i]
  <2>1. /\ mem'[t.table][t.at[t.level]] = e
        /\ \A x \in Memory, i \in Index :
             x # t.table \/ i # t.at[t.level] => mem'[x][i] = mem[x][i]
    BY <1>1, <1>7, <1>8, WritesOne, Zenon
  <2>2. t.table = s /\ t.at[t.level] = b[Depth]  BY <1>2, <1>3, <1>4, Zenon
  <2>3. QED  BY <1>2, <2>1, <2>2, Zenon DEF EntryOf
<1>10. lvl[s] = Depth /\ OnPath(lvl, pre, s, b) /\ Depth # 0
  BY <1>2, <1>3, <1>4, Consts
<1>11. Inv(lvl, pre)'  BY PageFlagsStep, Zenon
<1>12. translate(b)' = f
  <2>1. PageAt(lvl, pre, b, s)'  BY <1>8, <1>9, <1>10, Zenon DEF PageAt, OnPath
  <2>2. translate(b)' = mem'[s][b[Depth]].addr  BY <1>11, <2>1, Zenon DEF TranslateOk
  <2>3. QED  BY <1>8, <1>9, <2>2, Zenon
<1>13. translate(b) = Null
  <2>1. ASSUME NEW x \in Memory, PageAt(lvl, pre, b, x)  PROVE FALSE
    <3>1. x = s  BY <1>10, <2>1, SameTable, Zenon DEF PageAt
    <3>2. QED  BY <1>9, <2>1, <3>1, Zenon DEF PageAt
  <2>2. QED  BY <2>1, Zenon DEF TranslateOk
<1>14. \A a \in Address : a # b => translate(a)' = translate(a)
  BY <1>9, <1>10, <1>11, OtherTranslation, Zenon
<1>15. QED  BY <1>12, <1>13, <1>14, Zenon

\* and ClearPage unmaps it.
LEMMA UnmapTranslation ==
  ASSUME TranslateOk, TranslateOk', NEW lvl, NEW pre, Inv(lvl, pre), NEW c \in Cpus,
         ClearPage(c)
  PROVE  \E b \in Address :
           /\ translate(b)' = Null
           /\ \A a \in Address : a # b => translate(a)' = translate(a)
<1> DEFINE t == task[c]
<1>1. /\ t.pc = "clear" /\ t # Idle /\ t \in Tasks /\ Types /\ TaskOk(lvl, pre, c)
  BY Busy, Zenon DEF Inv, ClearPage
<1>2. /\ lvl[t.table] = t.level /\ OnPath(lvl, pre, t.table, t.at) /\ t.level = Depth
  BY <1>1, Zenon DEF TaskOk
<1>3. PICK s \in Memory : s = t.table  BY <1>1, TaskFields, Zenon
<1>4. PICK b \in Address : b = t.at  BY <1>1, TaskFields, Zenon
<1>5. SetEntry(c, Clear)  BY Zenon DEF ClearPage
<1>6. /\ mem'[s][b[Depth]] = Clear
      /\ \A x \in Memory, i \in Index : x # s \/ i # b[Depth] => mem'[x][i] = mem[x][i]
  <2>1. /\ mem'[t.table][t.at[t.level]] = Clear
        /\ \A x \in Memory, i \in Index :
             x # t.table \/ i # t.at[t.level] => mem'[x][i] = mem[x][i]
    BY <1>1, <1>5, ClearEntry, WritesOne, Zenon
  <2>2. t.table = s /\ t.at[t.level] = b[Depth]  BY <1>2, <1>3, <1>4, Zenon
  <2>3. QED  BY <1>2, <2>1, <2>2, Zenon
<1>7. lvl[s] = Depth /\ OnPath(lvl, pre, s, b) /\ Depth # 0
  BY <1>2, <1>3, <1>4, Consts
<1>8. Inv(lvl, pre)'  BY ClearPageStep, Zenon
<1>9. translate(b)' = Null
  <2>1. ASSUME NEW x \in Memory, PageAt(lvl, pre, b, x)'  PROVE FALSE
    <3>1. x = s
      <4>1. lvl[x] = Depth /\ OnPath(lvl, pre, x, b)  BY <2>1, Zenon DEF PageAt, OnPath
      <4>2. QED  BY <1>7, <4>1, SameTable, Zenon
    <3>2. QED  BY <1>6, <2>1, <3>1, ClearEntry, Zenon DEF PageAt
  <2>2. QED  BY <1>8, <2>1, Zenon DEF TranslateOk
<1>10. \A a \in Address : a # b => translate(a)' = translate(a)
  BY <1>6, <1>7, <1>8, OtherTranslation, Zenon
<1>11. QED  BY <1>9, <1>10, Zenon
LEMMA StepMapping ==
  ASSUME Least, TranslateOk, TranslateOk', NEW lvl, NEW pre, Inv(lvl, pre), NEW c \in Cpus,
         Step(c)
  PROVE  \/ \A a \in Address : translate(a)' = translate(a)
         \/ \E b \in Address, f \in Frames \cup {Device} :
              /\ translate(b) = Null /\ translate(b)' = f
              /\ \A a \in Address : a # b => translate(a)' = translate(a)
         \/ \E b \in Address :
              /\ translate(b)' = Null
              /\ \A a \in Address : a # b => translate(a)' = translate(a)
<1>1. CASE PageFlags(c)  BY <1>1, MapTranslation, Zenon
<1>2. CASE ClearPage(c)  BY <1>2, UnmapTranslation, Zenon
<1>3. CASE NewTable(c) /\ pool # {}  BY <1>3, TableTranslation, Zenon
<1>4. CASE AddFlags(c)
  <2>1. Inv(lvl, pre)' /\ Quiet(lvl)  BY <1>4, AddFlagsStep, QuietTable, Zenon
  <2>2. QED  BY <2>1, QuietStep, Zenon
<1>5. CASE SetAddress(c)
  <2>1. Inv(lvl, pre)' /\ Quiet(lvl)  BY <1>5, SetAddressStep, QuietTable, Zenon
  <2>2. QED  BY <2>1, QuietStep, Zenon
<1>6. CASE PageAddress(c)
  <2>1. Inv(lvl, pre)' /\ Quiet(lvl)  BY <1>6, PageAddressStep, QuietAddress, Zenon
  <2>2. QED  BY <2>1, QuietStep, Zenon
<1>7. CASE \/ Fetch(c) \/ FaultFrame(c) \/ Walk(c) \/ Check(c) \/ DropFrame(c)
           \/ (NewTable(c) /\ pool = {})
  <2>1. Quiet(lvl)  BY <1>7, QuietStay, Zenon
  <2>2. ASSUME NewTable(c), pool = {}  PROVE Inv(lvl, pre)'
    <3>1. OutOfMemory(c) /\ Types  BY <2>2, Zenon DEF NewTable, Inv
    <3>2. task[c] # Idle /\ task[c].pc = "table"
      BY <2>2, <3>1, Busy, Zenon DEF NewTable
    <3>3. QED  BY <3>1, <3>2, OutOfMemoryStep, Zenon
  <2>3. Inv(lvl, pre)'
    BY <1>7, <2>2, FetchStep, FaultFrameStep, WalkStep, CheckStep, DropFrameStep, Zenon
  <2>4. QED  BY <2>1, <2>3, QuietStep, Zenon
<1>8. QED  BY <1>1, <1>2, <1>3, <1>4, <1>5, <1>6, <1>7, Zenon DEF Step
LEMMA InitMapping ==
  ASSUME Least, Init, NEW a \in Address
  PROVE  translate(a) = Null
<1>1. PICK lvl, pre : Inv(lvl, pre)  BY InvInit, Zenon DEF IInv, Core
<1>2. pool = Frames /\ mem[Root] = Zeroed  BY DEF Init
<1>3. a[Depth] \in Index /\ Depth # 0  BY AddressAssumption, Consts
<1>4. ASSUME NEW x \in Memory, PageAt(lvl, pre, a, x)  PROVE FALSE
  <2>1. x = Root
    <3>1. \A f \in Frames : lvl[f] = 0  BY <1>1, <1>2, Zenon DEF Inv, Labels
    <3>2. QED  BY <1>3, <1>4, <3>1, Zenon DEF PageAt, Memory
  <2>2. mem[x][a[Depth]] = Clear  BY <1>2, <1>3, <2>1, Zenon DEF Zeroed
  <2>3. QED  BY <1>4, <2>2, ClearEntry, Zenon DEF PageAt
<1>5. QED  BY <1>1, <1>4, TranslateIs, Zenon DEF TranslateOk
-----------------------------------------------------------------------------
(* The theorems.                                                           *)

INSTANCE FiniteSetTheorems

LEMMA LeastHolds == Least
<1> SUFFICES ASSUME NEW S \in SUBSET Nat, S # {}
             PROVE  \E x \in S : \A y \in S : x <= y
  BY Zenon DEF Least
<1> DEFINE R == {p \in Nat \X Nat : p[1] < p[2]}
<1>1. OpToRel(<, Nat) = R  BY Zenon DEF OpToRel
<1>2. ASSUME NEW x \in Nat, NEW y \in Nat, x < y  PROVE <<x, y>> \in R
  <2>1. <<x, y>> \in Nat \X Nat  OBVIOUS
  <2>2. <<x, y>>[1] = x /\ <<x, y>>[2] = y  OBVIOUS
  <2>3. QED  BY <1>2, <2>1, <2>2, Zenon
<1> HIDE DEF R
<1>3. IsWellFoundedOn(R, Nat)  BY <1>1, NatLessThanWellFounded, Zenon
<1>4. PICK x \in S : \A y \in S : <<y, x>> \notin R  BY <1>3, WFMin, Zenon
<1>5. ASSUME NEW y \in S  PROVE x <= y
  <2>1. ~(y < x)  BY <1>2, <1>4, Zenon
  <2>2. QED  BY <2>1
<1>6. QED  BY <1>5, Zenon

\* While CPUs keep out of each other's subtrees, the tables are a tree, no walk
\* goes astray, and the kernel panics only when memory runs out.
THEOREM Inductive == ASSUME Apart PROVE Spec => []IInv
<1>1. IInv /\ [Next]_vars => IInv'  BY LeastHolds, InvNext, Zenon
<1>2. QED  BY InvInit, <1>1, PTL DEF Spec

LEMMA OneHolder ==
  ASSUME NEW lvl, NEW pre, Inv(lvl, pre), NEW f \in Frames
  PROVE  Cardinality(Holders(f)) = IF f \in pool THEN 0 ELSE 1
<1> DEFINE r == [present |-> TRUE, addr |-> f]
           H == {x \in Memory \X Index : mem[x[1]][x[2]] = r}
           K == {d \in Cpus : task[d] # Idle /\ f \in {task[d].frame, task[d].new}}
           T == {<<d, "task">> : d \in K}
<1>1. Holders(f) = H \cup T  BY Zenon DEF Holders, Memory
<1>2. Held /\ mem \in [Memory -> [Index -> Entry]]  BY Zenon DEF Inv, Types
<1>3. ASSUME NEW t \in Memory, NEW i \in Index  PROVE Has(t, i, f) <=> mem[t][i] = r
  <2>1. mem[t][i] \in Entry  BY <1>2, Zenon
  <2>2. \A e \in Entry : e.present /\ e.addr = f <=> e = r
    <3>1. r.present /\ r.addr = f  OBVIOUS
    <3>2. ASSUME NEW e \in Entry, e.present, e.addr = f  PROVE e = r
      <4>1. e = [present |-> e.present, addr |-> e.addr]  BY DEF Entry
      <4>2. e.present \in BOOLEAN  BY DEF Entry
      <4>3. e.present = TRUE  BY <3>2, <4>2, Zenon
      <4>4. QED  BY <3>2, <4>1, <4>3, Zenon
    <3> HIDE DEF r
    <3>3. QED  BY <3>1, <3>2, Zenon
  <2> HIDE DEF r
  <2>3. QED  BY <2>1, <2>2, Zenon DEF Has
<1> HIDE DEF r
<1>4. \A x \in H : \E t \in Memory, i \in Index : x = <<t, i>> /\ Has(t, i, f)
  BY <1>3
<1>5. \A t \in Memory, i \in Index : Has(t, i, f) => <<t, i>> \in H
  BY <1>3
<1>6. \A d \in Cpus : d \in K <=> Keeps(d, f)  BY Zenon DEF Keeps
<1>7. \A d \in K : d \in Cpus  BY Zenon
<1> HIDE DEF H, K
<1>8. CASE f \in pool
  <2>1. H = {} /\ K = {}  BY <1>2, <1>4, <1>6, <1>7, <1>8, Zenon DEF Held
  <2>2. H \cup T = {}  BY <2>1, Zenon
  <2>3. QED  BY <1>1, <1>8, <2>2, FS_EmptySet, Zenon
<1>9. CASE \E d \in Cpus : Keeps(d, f)
  <2>1. PICK d \in Cpus : Keeps(d, f)  BY <1>9, Zenon
  <2>2. f \notin pool /\ H = {}  BY <1>2, <1>4, <2>1, Zenon DEF Held
  <2>3. K = {d}
    <3>1. ASSUME NEW x \in K  PROVE x = d
      BY <1>2, <1>6, <1>7, <2>1, <3>1, Zenon DEF Held
    <3>2. QED  BY <1>6, <2>1, <3>1, Zenon
  <2>4. H \cup T = {<<d, "task">>}  BY <2>2, <2>3, Zenon
  <2>5. QED  BY <1>1, <2>2, <2>4, FS_Singleton, Zenon
<1>10. CASE \E t \in Memory, i \in Index : Has(t, i, f)
  <2>1. PICK t \in Memory, i \in Index : Has(t, i, f)  BY <1>10, Zenon
  <2>2. f \notin pool /\ K = {}  BY <1>2, <1>6, <1>7, <2>1, Zenon DEF Held
  <2>3. H = {<<t, i>>}
    <3>1. <<t, i>> \in H  BY <1>5, <2>1, Zenon
    <3>2. ASSUME NEW x \in H  PROVE x = <<t, i>>
      <4>1. PICK u \in Memory, j \in Index : x = <<u, j>> /\ Has(u, j, f)
        BY <1>4, <3>2, Zenon
      <4>2. u = t /\ j = i  BY <1>2, <2>1, <4>1, Zenon DEF Held
      <4>3. QED  BY <4>1, <4>2, Zenon
    <3>3. QED  BY <3>1, <3>2, Zenon
  <2>4. H \cup T = {<<t, i>>}  BY <2>2, <2>3, Zenon
  <2>5. QED  BY <1>1, <2>2, <2>4, FS_Singleton, Zenon
<1>11. QED  BY <1>2, <1>8, <1>9, <1>10, Zenon DEF Held

\* Every frame of the allocator is free, or behind one entry, or in the hands of
\* one CPU: none leaks, also when memory runs out in the middle of a walk, and
\* none serves twice.
THEOREM FramesHold == ASSUME Apart PROVE Spec => []FramesOnce
<1>1. IInv => FramesOnce
  <2>1. SUFFICES ASSUME IInv, NEW f \in Frames
                 PROVE  Cardinality(Holders(f)) = IF f \in pool THEN 0 ELSE 1
    BY Zenon DEF FramesOnce
  <2>2. PICK lvl, pre : Inv(lvl, pre)  BY <2>1, Zenon DEF IInv, Core
  <2>3. QED  BY <2>2, OneHolder, Zenon
<1>2. QED  BY Inductive, <1>1, PTL

LEMMA TranslateHolds == TranslateOk
BY LeastHolds, TranslateIs, Zenon

\* The tables in memory implement the partial map of PageMap: the last write of
\* map and the one of unmap change it, for the page they are about and no other,
\* and no other step of a walk, creating a table included, is seen by translate.
THEOREM MappingRefined == ASSUME Apart PROVE Spec => MappingSpec
<1> DEFINE m == [a \in Address |-> translate(a)]
<1>1. Init => Mapping!Init
  BY LeastHolds, InitMapping, Zenon DEF Mapping!Init
<1>2. ASSUME TranslateOk, TranslateOk', IInv, [Next]_vars
      PROVE  [Mapping!Next]_m
  <2>1. PICK lvl, pre : Inv(lvl, pre)  BY <1>2, Zenon DEF IInv, Core
  <2>2. ASSUME \A a \in Address : translate(a)' = translate(a)  PROVE m' = m
    BY <2>2, Zenon
  <2>3. ASSUME NEW b \in Address, NEW f, translate(b)' = f,
               \A a \in Address : a # b => translate(a)' = translate(a)
        PROVE  m' = [m EXCEPT ![b] = f]
    BY <2>3, Zenon
  <2>4. \A b \in Address : m[b] = translate(b)  BY Zenon
  <2> HIDE DEF m
  <2>5. ASSUME NEW c \in Cpus, Step(c)  PROVE [Mapping!Next]_m
    <3>1. CASE \A a \in Address : translate(a)' = translate(a)  BY <2>2, <3>1, Zenon
    <3>2. ASSUME NEW b \in Address, NEW f \in Frames \cup {Device},
                 translate(b) = Null, translate(b)' = f,
                 \A a \in Address : a # b => translate(a)' = translate(a)
          PROVE  [Mapping!Next]_m
      <4>1. m' = [m EXCEPT ![b] = f] /\ m[b] = Null  BY <2>3, <2>4, <3>2, Zenon
      <4>2. Mapping!Map(b, f)  BY <4>1, Zenon DEF Mapping!Map, m
      <4>3. QED  BY <4>2, Zenon DEF Mapping!Next
    <3>3. ASSUME NEW b \in Address, translate(b)' = Null,
                 \A a \in Address : a # b => translate(a)' = translate(a)
          PROVE  [Mapping!Next]_m
      <4>1. m' = [m EXCEPT ![b] = Null]  BY <2>3, <3>3, Zenon
      <4>2. Mapping!Unmap(b)  BY <4>1, Zenon DEF Mapping!Unmap, m
      <4>3. QED  BY <4>2, Zenon DEF Mapping!Next
    <3>4. QED  BY <1>2, <2>1, <2>5, <3>1, <3>2, <3>3, LeastHolds, StepMapping, Zenon
  <2>6. CASE mem' = mem
    <3>1. \A a : translate(a)' = translate(a)  BY <2>6 DEF translate, TableAt
    <3>2. QED  BY <2>2, <3>1, Zenon
  <2>7. ASSUME NEW c \in Cpus, Call(c)  PROVE mem' = mem
    BY <2>7, Zenon DEF Call, Begin
  <2>8. CASE UNCHANGED vars  BY <2>6, <2>8, Zenon DEF vars
  <2>9. QED  BY <1>2, <2>5, <2>6, <2>7, <2>8, Zenon DEF Next, Halted
<1>3. ASSUME TranslateOk, TranslateOk', IInv, [Next]_vars
      PROVE  [Mapping!Next]_([a \in Address |-> translate(a)])
  BY <1>2, <1>3, Zenon
<1>4. QED
  BY <1>1, <1>3, TranslateHolds, Inductive, PTL DEF Spec, MappingSpec, Mapping!Spec

=============================================================================
