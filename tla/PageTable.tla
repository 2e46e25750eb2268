----------------------------- MODULE PageTable -----------------------------
(***************************************************************************)
(* The walks of the page table (arch/paging.rs) and the demand paging of   *)
(* the heap (mm/allocator.rs), step by step, on tables in memory.          *)
(*                                                                         *)
(* Every CPU has a root table of its own, a copy of the boot table, and so *)
(* the tables below the entries of the boot table are the same for all.  A *)
(* walk locks the root only, and none while EARLY: two CPUs can be in the  *)
(* shared tables at once.  Root stands for one of these tables, and Depth  *)
(* is the number of levels from it down to the pages.  An action is one    *)
(* read or write of an entry, or one call of the frame allocator, which    *)
(* hands out the first free frame.                                         *)
(***************************************************************************)
EXTENDS Integers, FiniteSets, FiniteSetsExt

CONSTANTS
  Cpus,     \* the CPUs
  Depth,    \* levels from the shared table to the pages
  Index,    \* indices into a table (0 .. 511)
  Address,  \* the pages: an index for each level
  NFrames,  \* frames of the frame allocator
  Apart     \* whether CPUs stay out of each other's subtrees

ASSUME DepthAssumption == Depth \in Nat \ {0} /\ NFrames \in Nat
ASSUME AddressAssumption == Address \subseteq [1 .. Depth -> Index]
ASSUME ApartAssumption == Apart \in BOOLEAN

VARIABLES
  mem,      \* the entries of each table
  pool,     \* the free frames
  task,     \* what each CPU is doing
  halted    \* "no", or why the kernel panicked

vars == <<mem, pool, task, halted>>

Frames == 1 .. NFrames
Null   == 0               \* the address 0
Root   == NFrames + 1     \* the shared table
Device == NFrames + 2     \* memory that does not belong to the frame allocator

\* A page table entry, a frame of allocate(ZEROED), and one with whatever was
\* in it.
Clear   == [present |-> FALSE, addr |-> Null]
Zeroed  == [i \in Index |-> Clear]
Garbage == [i \in Index |-> [present |-> TRUE, addr |-> Null]]

Idle == [pc |-> "idle"]

Goto(c, t) == task' = [task EXCEPT ![c] = t]
Panic(why) == halted' = why /\ UNCHANGED <<mem, pool, task>>

\* The entry CPU c has reached.
EntryOf(c) == mem[task[c].table][task[c].at[task[c].level]]
SetEntry(c, e) == mem' = [mem EXCEPT ![task[c].table][task[c].at[task[c].level]] = e]

\* One level down, through the address in an entry.
Down(t, entry) == [t EXCEPT !.level = @ + 1, !.table = entry.addr]

-----------------------------------------------------------------------------
Init ==
  /\ mem = [f \in Frames \cup {Root} |-> IF f = Root THEN Zeroed ELSE Garbage]
  /\ pool = Frames
  /\ task = [c \in Cpus |-> Idle]
  /\ halted = "no"

\* A CPU enters op for an address: a fault in the heap, map or unmap.  The
\* contract of the walks is that nobody changes the tables meanwhile; when
\* Apart, the callers keep to it by working in different subtrees.
Begin(c, op, a, frame) ==
  /\ halted = "no" /\ task[c] = Idle
  /\ Apart => \A d \in Cpus : task[d] # Idle => task[d].at[1] # a[1]
  /\ Goto(c, [op |-> op, pc |-> IF op = "map" THEN "walk" ELSE "fetch", at |-> a,
              level |-> 1, table |-> Root, frame |-> frame, new |-> Null])
  /\ UNCHANGED <<mem, pool, halted>>

At(c, label) == halted = "no" /\ task[c].pc = label

\* A walk that followed an entry whose address was not set yet is in memory
\* that is no page table.
Astray(c) == task[c].table = Null

\* fetch_pte and fetch_pte_mut: down to the entry, or None.  A fault on a page
\* that is now present is a lazy TLB invalidation, and ends.
Fetch(c) ==
  /\ At(c, "fetch")
  /\ IF Astray(c) THEN Panic("astray")
     ELSE LET e == EntryOf(c)
              t == task[c] IN
          /\ Goto(c, IF e.present /\ t.level < Depth THEN Down(t, e)
                     ELSE IF t.op = "unmap" /\ e.present THEN [t EXCEPT !.pc = "clear"]
                     ELSE IF t.op = "fault" /\ ~e.present THEN [t EXCEPT !.pc = "frame"]
                     ELSE Idle)
          /\ UNCHANGED <<mem, pool, halted>>

\* The heap's handle_demand_paging takes a frame for the page, then maps it; map
\* starts again from the top.
FaultFrame(c) ==
  /\ At(c, "frame")
  /\ IF pool = {} THEN Panic("out of memory")
     ELSE /\ pool' = pool \ {Min(pool)}
          /\ Goto(c, [task[c] EXCEPT !.pc = "walk", !.level = 1, !.table = Root,
                                     !.frame = Min(pool)])
          /\ UNCHANGED <<mem, halted>>

\* creat_and_fetch_pte, at one level.
Walk(c) ==
  /\ At(c, "walk")
  /\ IF Astray(c) THEN Panic("astray")
     ELSE LET t == task[c] IN
          /\ Goto(c, IF t.level = Depth THEN [t EXCEPT !.pc = "check"]
                     ELSE IF EntryOf(c).present THEN Down(t, EntryOf(c))
                     ELSE [t EXCEPT !.pc = "table"])
          /\ UNCHANGED <<mem, pool, halted>>

\* map returns OutOfMemory: the heap's fault handler panics on it.
OutOfMemory(c) ==
  IF task[c].op = "fault" THEN Panic("out of memory")
  ELSE Goto(c, Idle) /\ UNCHANGED <<mem, pool, halted>>

\* A missing table: a zeroed frame,
NewTable(c) ==
  /\ At(c, "table")
  /\ IF pool = {} THEN OutOfMemory(c)
     ELSE /\ pool' = pool \ {Min(pool)}
          /\ mem' = [mem EXCEPT ![Min(pool)] = Zeroed]
          /\ Goto(c, [task[c] EXCEPT !.pc = "add_flags", !.new = Min(pool)])
          /\ UNCHANGED halted

\* then PRESENT, and then the address, in the entry; the walk goes on through
\* what the entry holds.
AddFlags(c) ==
  /\ At(c, "add_flags")
  /\ SetEntry(c, [EntryOf(c) EXCEPT !.present = TRUE])
  /\ Goto(c, [task[c] EXCEPT !.pc = "set_address"])
  /\ UNCHANGED <<pool, halted>>

SetAddress(c) ==
  /\ At(c, "set_address")
  /\ SetEntry(c, [EntryOf(c) EXCEPT !.addr = task[c].new])
  /\ Goto(c, [task[c] EXCEPT !.pc = "walk", !.new = Null])
  /\ UNCHANGED <<pool, halted>>

\* Mutant: map does not look at the entry it replaces.
Check_Unchecked(c) ==
  /\ At(c, "check")
  /\ IF task[c].frame # Null
     THEN Goto(c, [task[c] EXCEPT !.pc = "address"]) /\ UNCHANGED <<mem, pool, halted>>
     ELSE IF pool = {} THEN OutOfMemory(c)
     ELSE /\ pool' = pool \ {Min(pool)}
          /\ Goto(c, [task[c] EXCEPT !.pc = "address", !.frame = Min(pool)])
          /\ UNCHANGED <<mem, halted>>

\* map, at the entry of the page: AlreadyMapped, or a frame if none is given.
Check(c) ==
  LET t == task[c] IN
  /\ At(c, "check")
  /\ IF EntryOf(c).present
     THEN IF t.op = "fault" THEN Panic("already mapped")
          ELSE Goto(c, Idle) /\ UNCHANGED <<mem, pool, halted>>
     ELSE IF t.frame # Null
     THEN Goto(c, [t EXCEPT !.pc = "address"]) /\ UNCHANGED <<mem, pool, halted>>
     ELSE IF pool = {} THEN OutOfMemory(c)
     ELSE /\ pool' = pool \ {Min(pool)}
          /\ Goto(c, [t EXCEPT !.pc = "address", !.frame = Min(pool)])
          /\ UNCHANGED <<mem, halted>>

\* Its two writes: the address, and then the flags.
PageAddress(c) ==
  /\ At(c, "address")
  /\ SetEntry(c, [EntryOf(c) EXCEPT !.addr = task[c].frame])
  /\ Goto(c, [task[c] EXCEPT !.pc = "flags"])
  /\ UNCHANGED <<pool, halted>>

\* Mutant: map reports success before the entry is present.
PageFlags_Forgotten(c) ==
  /\ At(c, "flags")
  /\ Goto(c, Idle)
  /\ UNCHANGED <<mem, pool, halted>>

PageFlags(c) ==
  /\ At(c, "flags")
  /\ SetEntry(c, [EntryOf(c) EXCEPT !.present = TRUE])
  /\ Goto(c, Idle)
  /\ UNCHANGED <<pool, halted>>

\* Mutant: the caller does not give the frame back.
ClearPage_Leak(c) ==
  /\ At(c, "clear")
  /\ SetEntry(c, Clear)
  /\ Goto(c, Idle)
  /\ UNCHANGED <<pool, halted>>

\* unmap clears the entry, and its caller gives the frame back.
ClearPage(c) ==
  LET e == EntryOf(c) IN
  /\ At(c, "clear")
  /\ SetEntry(c, Clear)
  /\ Goto(c, IF e.addr \in Frames
             THEN [task[c] EXCEPT !.pc = "drop", !.frame = e.addr] ELSE Idle)
  /\ UNCHANGED <<pool, halted>>

DropFrame(c) ==
  /\ At(c, "drop")
  /\ pool' = pool \cup {task[c].frame}
  /\ Goto(c, Idle)
  /\ UNCHANGED <<mem, halted>>

-----------------------------------------------------------------------------
Step(c) ==
  \/ Fetch(c) \/ FaultFrame(c) \/ Walk(c) \/ NewTable(c)
  \/ AddFlags(c) \/ SetAddress(c) \/ Check(c) \/ PageAddress(c) \/ PageFlags(c)
  \/ ClearPage(c) \/ DropFrame(c)

Call(c) ==
  \E a \in Address :
    \/ Begin(c, "fault", a, Null) \/ Begin(c, "unmap", a, Null)
    \/ \E frame \in {Null, Device} : Begin(c, "map", a, frame)

Halted == halted # "no" /\ UNCHANGED vars

Next == (\E c \in Cpus : Call(c) \/ Step(c)) \/ Halted

Spec == Init /\ [][Next]_vars

\* A CPU inside a walk goes on with it.
FairSpec == Spec /\ \A c \in Cpus : WF_vars(Step(c))

-----------------------------------------------------------------------------
\* The table the walk of an address is in at each level, Null when there is
\* none, and the entry at the end of it.
TableAt(a) ==
  LET table[l \in 1 .. Depth] ==
        IF l = 1 THEN Root
        ELSE LET up == table[l - 1] IN
             IF up # Null /\ mem[up][a[l - 1]].present
             THEN mem[up][a[l - 1]].addr ELSE Null
  IN table

\* translate: what an address is mapped to.
translate(a) ==
  LET table == TableAt(a)[Depth] IN
  IF table # Null /\ mem[table][a[Depth]].present
  THEN mem[table][a[Depth]].addr ELSE Null

\* The entries and the CPUs that have a frame.
Holders(f) ==
  {x \in (Frames \cup {Root}) \X Index : mem[x[1]][x[2]] = [present |-> TRUE, addr |-> f]}
  \cup {<<c, "task">> : c \in {d \in Cpus : task[d] # Idle /\ f \in {task[d].frame, task[d].new}}}

\* No frame leaks and none serves twice: a frame outside the pool is behind one
\* entry, as a table or as a page, or with one CPU, also when memory runs out in
\* the middle of a walk; a free one is nowhere.
FramesOnce ==
  halted = "no" =>
    \A f \in Frames : Cardinality(Holders(f)) = IF f \in pool THEN 0 ELSE 1

\* The tables implement a map from addresses to frames.
Mapping == INSTANCE PageMap WITH
             Frame <- Frames \cup {Device}, Unmapped <- Null,
             mapped <- [a \in Address |-> translate(a)]
MappingSpec == Mapping!Spec

\* "ALREADY_MAPPED if the page is already mapped, which should not happen in a
\* demand-paging request": a fault never ends in it.  It does when two CPUs fault
\* on one page, each having found it unmapped.
DemandIsUnmapped == halted # "already mapped"

\* A fault is resolved: the CPU comes back with the page mapped, unless memory
\* has run out.
FaultResolved ==
  \A a \in Address :
    (\E c \in Cpus : task[c] # Idle /\ task[c].op = "fault" /\ task[c].at = a)
      ~> (translate(a) # Null \/ halted = "out of memory")
=============================================================================
