----------------------------- MODULE RootTables -----------------------------
(***************************************************************************)
(* The root page tables (TableRoot, INIT_TABLE, ACTIVE_TABLE and           *)
(* set_current_table in arch/paging.rs) through the boot and afterwards.   *)
(*                                                                         *)
(* A root is named by its frame.  Of its entries those of the kernel half  *)
(* matter, and an entry is the frame of the table it leads to: two roots   *)
(* with the same frame there share everything below.  The boot table is    *)
(* Limine's; INIT_TABLE is made of it, and every CPU replaces it by a copy *)
(* of its own when it forces ACTIVE_TABLE.  A root made by TableRoot::new  *)
(* lives in an Arc, and its frame goes back when the last one is dropped.  *)
(***************************************************************************)
EXTENDS Integers, FiniteSetsExt

CONSTANTS
  Cpus,      \* the CPUs
  Bsp,       \* the boot processor
  Early,     \* kernel entries in use during the boot: the heap and vmalloc
  Later,     \* kernel entries that come into use later, if at all
  NFrames    \* frames of the frame allocator

ASSUME BspAssumption == Bsp \in Cpus
ASSUME EntriesAssumption == Early = {"heap", "vmalloc"} /\ Early \cap Later = {}
ASSUME FramesAssumption == NFrames \in Nat

VARIABLES
  pc,        \* where each CPU is
  cr3,       \* the root each CPU translates with
  active,    \* the root in the ACTIVE_TABLE of each CPU
  arcs,      \* the roots of which the code on a CPU holds an Arc besides
  fresh,     \* the frame a CPU has taken for a root it is building
  entries,   \* the kernel entries of each root
  tables,    \* the frames that became tables below a root
  pool,      \* the free frames
  early,     \* EARLY
  halted     \* whether the kernel panicked for lack of a frame

vars == <<pc, cr3, active, arcs, fresh, entries, tables, pool, early, halted>>

Boot   == 0
Frames == 1 .. NFrames
None   == NFrames + 1
Kernel == Early \cup Later
Empty  == [e \in Kernel |-> None]

At(c, label) == ~halted /\ pc[c] = label
Goto(c, label) == pc' = [pc EXCEPT ![c] = label]
OutOfMemory ==
  /\ halted' = TRUE
  /\ UNCHANGED <<pc, cr3, active, arcs, fresh, entries, tables, pool, early>>

Init ==
  /\ pc = [c \in Cpus |-> IF c = Bsp THEN "mm" ELSE "parked"]
  /\ cr3 = [c \in Cpus |-> Boot]
  /\ active = [c \in Cpus |-> None]
  /\ arcs = [c \in Cpus |-> {}]
  /\ fresh = [c \in Cpus |-> None]
  /\ entries = [r \in {Boot} \cup Frames |-> Empty]
  /\ tables = {}
  /\ pool = Frames
  /\ early = TRUE
  /\ halted = FALSE

-----------------------------------------------------------------------------
\* creat_and_fetch_pte at the top level, for an address under entry e of a
\* root: a zeroed table when the entry is absent.  The CPU goes on to label.
Populate(c, root, e, label) ==
  IF entries[root][e] # None
  THEN /\ Goto(c, label)
       /\ UNCHANGED <<cr3, active, arcs, fresh, entries, tables, pool, early, halted>>
  ELSE IF pool = {} THEN OutOfMemory
  ELSE /\ Goto(c, label)
       /\ pool' = pool \ {Min(pool)}
       /\ tables' = tables \cup {Min(pool)}
       /\ entries' = [entries EXCEPT ![root] = [@ EXCEPT ![e] = Min(pool)]]
       /\ UNCHANGED <<cr3, active, arcs, fresh, early, halted>>

\* page_fault: the table in CR3 while EARLY, ACTIVE_TABLE afterwards.
FaultRoot(c) == IF early THEN cr3[c] ELSE active[c]

\* mm::setup: the heap is initialised, and faults on its first page.
MmSetup == At(Bsp, "mm") /\ Populate(Bsp, FaultRoot(Bsp), "heap", "smp")

\* Mutant: the storage is allocated, and not yet written.
BspSetup_NotWritten == At(Bsp, "smp") /\ Populate(Bsp, FaultRoot(Bsp), "heap", "table")

\* bsp_setup: the thread local storage is copied to the vmalloc area.
BspSetup == At(Bsp, "smp") /\ Populate(Bsp, FaultRoot(Bsp), "vmalloc", "table")

\* The same on another CPU, in ap_start.
ApStart(c) ==
  /\ c # Bsp /\ At(c, "parked") /\ pc[Bsp] = "wait"
  /\ Populate(c, FaultRoot(c), "vmalloc", "table")

\* TableRoot::new and TableRoot::clone begin with a zeroed frame.
TakeRoot(c, label) ==
  IF pool = {} THEN OutOfMemory
  ELSE /\ pool' = pool \ {Min(pool)}
       /\ fresh' = [fresh EXCEPT ![c] = Min(pool)]
       /\ entries' = [entries EXCEPT ![Min(pool)] = Empty]
       /\ Goto(c, label)
       /\ UNCHANGED <<cr3, active, arcs, tables, early, halted>>

\* setup and ap_setup force ACTIVE_TABLE: INIT_TABLE.clone(),
ForceActive(c) == At(c, "table") /\ TakeRoot(c, "clone")

\* Mutant: ACTIVE_TABLE is INIT_TABLE itself.
CloneInit_Alias(c) ==
  /\ At(c, "clone")
  /\ active' = [active EXCEPT ![c] = Boot]
  /\ fresh' = [fresh EXCEPT ![c] = None]
  /\ Goto(c, IF c = Bsp THEN "setup" ELSE "idle")
  /\ UNCHANGED <<cr3, arcs, entries, tables, pool, early, halted>>

\* the copy of all entries, change_table, and the Arc.
CloneInit(c) ==
  /\ At(c, "clone")
  /\ entries' = [entries EXCEPT ![fresh[c]] = entries[Boot]]
  /\ cr3' = [cr3 EXCEPT ![c] = fresh[c]]
  /\ active' = [active EXCEPT ![c] = fresh[c]]
  /\ fresh' = [fresh EXCEPT ![c] = None]
  /\ Goto(c, IF c = Bsp THEN "setup" ELSE "idle")
  /\ UNCHANGED <<arcs, tables, pool, early, halted>>

\* The loop of setup gives each absent kernel entry of the boot processor's
\* own root a table.  The frame is not zeroed, which shows only below the entry.
Preallocate(e) ==
  /\ At(Bsp, "setup") /\ entries[active[Bsp]][e] = None
  /\ Populate(Bsp, active[Bsp], e, "setup")

\* start_cpus, once the loop is through.
StartCpus ==
  /\ At(Bsp, "setup") /\ \A e \in Kernel : entries[active[Bsp]][e] # None
  /\ Goto(Bsp, "wait")
  /\ UNCHANGED <<cr3, active, arcs, fresh, entries, tables, pool, early, halted>>

\* EARLY is cleared when all CPUs have been through ap_setup.
EndEarly ==
  /\ At(Bsp, "wait") /\ \A c \in Cpus \ {Bsp} : pc[c] = "idle"
  /\ early' = FALSE
  /\ Goto(Bsp, "idle")
  /\ UNCHANGED <<cr3, active, arcs, fresh, entries, tables, pool, halted>>

-----------------------------------------------------------------------------
\* A CPU faults on, or maps, an address of the kernel half.
Touch(c, e) == At(c, "idle") /\ Populate(c, FaultRoot(c), e, "idle")

\* TableRoot::new, and the copy of the kernel half of INIT_TABLE.
New(c) == ~early /\ At(c, "idle") /\ TakeRoot(c, "new")

CopyKernel(c) ==
  /\ At(c, "new")
  /\ entries' = [entries EXCEPT ![fresh[c]] = entries[Boot]]
  /\ arcs' = [arcs EXCEPT ![c] = @ \cup {fresh[c]}]
  /\ fresh' = [fresh EXCEPT ![c] = None]
  /\ Goto(c, "idle")
  /\ UNCHANGED <<cr3, active, tables, pool, early, halted>>

\* Arc::clone, for the code of another CPU.
Share(c, d, r) ==
  /\ At(c, "idle") /\ r \in arcs[c]
  /\ arcs' = [arcs EXCEPT ![d] = @ \cup {r}]
  /\ UNCHANGED <<pc, cr3, active, fresh, entries, tables, pool, early, halted>>

\* Mutant: the frame is never given back.
DropArc_Never(r) == UNCHANGED pool

\* An Arc of r is dropped, when active and arcs have their new values: with
\* the last one TableRoot::drop gives the frame back.
DropArc(r) ==
  pool' = IF \E c \in Cpus : active'[c] = r \/ r \in arcs'[c]
          THEN pool ELSE pool \cup {r}

Drop(c, r) ==
  /\ At(c, "idle") /\ r \in arcs[c]
  /\ arcs' = [arcs EXCEPT ![c] = @ \ {r}]
  /\ UNCHANGED active
  /\ DropArc(r)
  /\ UNCHANGED <<pc, cr3, fresh, entries, tables, early, halted>>

\* set_current_table: the Arc is moved into ACTIVE_TABLE, which drops the one
\* that was there,
SetCurrent(c, r) ==
  /\ ~early /\ At(c, "idle") /\ r \in arcs[c]
  /\ arcs' = [arcs EXCEPT ![c] = @ \ {r}]
  /\ active' = [active EXCEPT ![c] = r]
  /\ DropArc(active[c])
  /\ Goto(c, "switch")
  /\ UNCHANGED <<cr3, fresh, entries, tables, early, halted>>

\* and then CR3 is written.
ChangeTable(c) ==
  /\ At(c, "switch")
  /\ cr3' = [cr3 EXCEPT ![c] = active[c]]
  /\ Goto(c, "idle")
  /\ UNCHANGED <<active, arcs, fresh, entries, tables, pool, early, halted>>

-----------------------------------------------------------------------------
Halted == halted /\ UNCHANGED vars

Next ==
  \/ MmSetup \/ BspSetup \/ StartCpus \/ EndEarly \/ Halted
  \/ \E e \in Kernel : Preallocate(e)
  \/ \E c \in Cpus :
       \/ ApStart(c) \/ ForceActive(c) \/ CloneInit(c)
       \/ New(c) \/ CopyKernel(c) \/ ChangeTable(c)
       \/ \E e \in Kernel : Touch(c, e)
       \/ \E r \in arcs[c] : Drop(c, r) \/ SetCurrent(c, r)
       \/ \E r \in arcs[c], d \in Cpus : Share(c, d, r)

Spec == Init /\ [][Next]_vars

-----------------------------------------------------------------------------
\* The types.
TypeOK ==
  /\ pc \in [Cpus -> {"mm", "smp", "table", "clone", "setup", "wait", "parked",
                      "idle", "new", "switch"}]
  /\ cr3 \in [Cpus -> {Boot} \cup Frames]
  /\ active \in [Cpus -> Frames \cup {None}]
  /\ arcs \in [Cpus -> SUBSET Frames]
  /\ fresh \in [Cpus -> Frames \cup {None}]
  /\ entries \in [{Boot} \cup Frames -> [Kernel -> Frames \cup {None}]]
  /\ tables \subseteq Frames
  /\ pool \subseteq Frames
  /\ early \in BOOLEAN /\ halted \in BOOLEAN

\* The roots there are: the boot table, and those some Arc leads to.
Live == {Boot} \cup {r \in Frames : \E c \in Cpus : active[c] = r \/ r \in arcs[c]}

\* All roots have one heap and one vmalloc area: the entries of both are in the
\* boot table before the first copy of it is made, so every root leads to the
\* same tables there.  The order of the boot is all that ensures it.
KernelAgrees ==
  \A e \in Early, r, s \in Live : entries[r][e] = entries[s][e]

\* After the boot the entries of INIT_TABLE never change, so that TableRoot::new
\* may copy them without a lock: no CPU is left with the boot table in CR3.
InitFrozen == [][~early => entries'[Boot] = entries[Boot]]_vars

\* What change_table asks of its callers: the root a CPU translates with is not
\* dropped before the CPU loads another one, so its frame is not free and has not
\* become anything else.
Cr3Alive ==
  \A c \in Cpus : cr3[c] \notin pool \cup tables \cup {fresh[d] : d \in Cpus}

\* Every frame is free, a root with an owner, about to become one, or a table
\* below a root, and one of these only: no root leaks or is freed twice.
RootsOnce ==
  LET building == {fresh[c] : c \in Cpus} \ {None}
      roots    == Live \ {Boot} IN
  /\ pool \cup roots \cup building \cup tables = Frames
  /\ pool \cap (roots \cup building \cup tables) = {}
  /\ roots \cap (building \cup tables) = {}
  /\ building \cap tables = {}
=============================================================================
