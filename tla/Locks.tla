------------------------------- MODULE Locks -------------------------------
(***************************************************************************)
(* Who waits for whom: the spinlocks of the kernel, in the order in which  *)
(* its functions take them, through the page faults that happen while they *)
(* are held, and a panic, which stops the other CPUs wherever they are.    *)
(*                                                                         *)
(* A CPU has a list of steps to do: lock, unlock, and calls, which are     *)
(* replaced by the body of the function when they are reached.  A function *)
(* that can go several ways has several bodies.  Memory that was written   *)
(* is mapped: taking a block from the heap and writing it can fault,       *)
(* giving one back or printing it cannot.  Left out are FRAME_STATE, which *)
(* is only taken under FRAME_ALLOCATOR, PIT, which is taken once, and      *)
(* interrupt handlers, which take no lock.                                 *)
(*                                                                         *)
(* The boot processor starts alone.  It initialises the LAPIC, releases    *)
(* the others, which run ap_start while it waits for them, and clears      *)
(* EARLY when they are ready.                                              *)
(***************************************************************************)
EXTENDS Integers, Sequences

CONSTANTS
  Cpus,      \* the CPUs
  Bsp,       \* the boot processor
  Nobody     \* no CPU

ASSUME CpusAssumption == Bsp \in Cpus /\ Nobody \notin Cpus

VARIABLES
  todo,      \* what each CPU has still to do
  holder,    \* the CPU that holds each lock
  root,      \* the root table in the ACTIVE_TABLE of each CPU
  lapic,     \* lapic::initialized()
  boot,      \* how far each of the other CPUs has started
  early,     \* EARLY
  nmi,       \* the CPUs with an NMI on its way
  panicked,  \* the CPUs that have panicked
  said       \* how many lines of its panic each CPU has written

vars == <<todo, holder, root, lapic, boot, early, nmi, panicked, said>>
bootVars == <<lapic, boot, early>>

\* The locks: statics, and those of each TSS, each ACTIVE_TABLE and each root.
\* There is a root for each CPU.
FREE_VMA        == <<"FREE_VMA", Nobody>>
USED_VMA        == <<"USED_VMA", Nobody>>
HEAP            == <<"HEAP", Nobody>>
FRAME_ALLOCATOR == <<"FRAME_ALLOCATOR", Nobody>>
SERIAL          == <<"SERIAL", Nobody>>
GDT             == <<"GDT", Nobody>>
IDT             == <<"IDT", Nobody>>
TSS(c)          == <<"TSS", c>>
ACTIVE_TABLE(c) == <<"ACTIVE_TABLE", c>>
TableRoot(r)    == <<"TableRoot", r>>

Lock ==
  {FREE_VMA, USED_VMA, HEAP, FRAME_ALLOCATOR, SERIAL, GDT, IDT}
  \cup {TSS(c) : c \in Cpus} \cup {ACTIVE_TABLE(c) : c \in Cpus}
  \cup {TableRoot(r) : r \in Cpus}

\* Steps.
Do(what)  == <<[do |-> what]>>
Call(f)   == <<[do |-> "call", f |-> f]>>
Use(r)    == <<[do |-> "use", root |-> r]>>
Under(lock, body) ==
  <<[do |-> "lock", on |-> lock]>> \o body \o <<[do |-> "unlock", on |-> lock]>>

-----------------------------------------------------------------------------
(* The functions: a list of steps, or, for one that can go several ways, a *)
(* set of lists.                                                           *)

\* Any call of the frame allocator.
frame == Under(FRAME_ALLOCATOR, <<>>)

\* SiliciumLogger::log.
log == Under(SERIAL, <<>>)

\* Locked::alloc, and writing the block; Locked::dealloc.
alloc ==
  LET write == {<<>>, Call("heap_fault")}
  IN  {Under(HEAP, inside) \o after : inside \in write, after \in write}
dealloc == Under(HEAP, <<>>)

\* What inserting into a BTreeMap of Vecs, or removing, does to the heap.
grow   == {<<>>, Call("alloc") \o Call("grow"), dealloc \o Call("grow")}
shrink == {<<>>, dealloc \o Call("shrink")}

\* creat_and_fetch_pte takes a frame for each missing table.
walk == {<<>>, frame \o Call("walk")}

\* The root table of the CPU is locked through ACTIVE_TABLE.
WithTable(c, body) == Under(ACTIVE_TABLE(c), Under(TableRoot(root[c]), body))

\* page_fault: while EARLY, the tables are used without the locks.
Fault(c, body) == IF early THEN body ELSE WithTable(c, body)

\* Mutant: the heap's demand paging keeps a record of the page, in the heap.
heap_fault_Record(c) ==
  {Fault(c, body) : body \in
     {log, frame \o Call("walk") \o Call("alloc")}}

\* A page fault in the heap: a lazy TLB invalidation, which is logged, or
\* demand paging.
heap_fault(c) ==
  {Fault(c, body) : body \in {log, frame \o Call("walk")}}

\* A page fault in the vmalloc area.
vmalloc_fault(c) ==
  {Fault(c, body) : body \in
     {log,
      Under(USED_VMA, <<>>) \o frame \o log \o Call("walk")}}

\* Memory of the vmalloc area is written for the first time.
touch(c) == {<<>>} \cup {fault \o Call("touch") : fault \in vmalloc_fault(c)}

map_current(c) == {WithTable(c, Call("walk"))}

\* unmap_current for each page, and the frame that is given back.
unmap_current(c) == {<<>>, WithTable(c, <<>>) \o frame \o Call("unmap_current")}

\* vmm::allocate: find_free_first_fit, and insert_used_vma if it found one.
vmm_allocate ==
  {Under(FREE_VMA, Call("grow")) \o body :
     body \in {<<>>, Under(USED_VMA, Call("grow"))}}

\* vmm::deallocate, with insert_free_vma at the end.
vmm_deallocate ==
  {Under(USED_VMA, Call("shrink")) \o Call("unmap_current")
     \o Under(FREE_VMA, Call("grow"))}

\* TableRoot::new, and the Arc for it.
new == {frame \o Call("alloc")}

\* The roots a CPU switches to, a bound: its own or that of the boot CPU.
SwitchTo(c) == {c, Bsp}

\* set_current_table: the old root is dropped under the lock of ACTIVE_TABLE,
\* perhaps with its frame and its Arc.
set_current_table(c) ==
  {Under(ACTIVE_TABLE(c), Use(r) \o drop)
     \o Under(ACTIVE_TABLE(c), Under(TableRoot(r), <<>>)) :
       r \in SwitchTo(c), drop \in {<<>>, frame \o dealloc}}

\* ACTIVE_TABLE is forced: a copy of INIT_TABLE in an Arc.  setup goes on to the
\* kernel entries that are missing from it.
ap_setup == frame \o Call("alloc")
setup(c) == {ap_setup \o WithTable(c, Call("walk"))}

\* tss::install: the TSS is locked to make the descriptor.
install(c) == Under(GDT, Under(TSS(c), <<>>))

\* ap_start: the tables are loaded, the thread local storage is allocated, or
\* else the CPU panics, and written, and the CPU is counted.
ap_start(c) ==
  Under(GDT, <<>>) \o Under(IDT, <<>>)
    \o (Under(FREE_VMA, Call("grow")) \o Under(USED_VMA, Call("grow")))
    \o Call("touch") \o install(c) \o ap_setup \o Do("ready")

Bodies(c, f) ==
  CASE f = "log" -> {log}
    [] f = "alloc" -> alloc
    [] f = "dealloc" -> {dealloc}
    [] f = "grow" -> grow
    [] f = "shrink" -> shrink
    [] f = "walk" -> walk
    [] f = "heap_fault" -> heap_fault(c)
    [] f = "vmalloc_fault" -> vmalloc_fault(c)
    [] f = "touch" -> touch(c)
    [] f = "map_current" -> map_current(c)
    [] f = "unmap_current" -> unmap_current(c)
    [] f = "vmm_allocate" -> vmm_allocate
    [] f = "vmm_deallocate" -> vmm_deallocate
    [] f = "new" -> new
    [] f = "set_current_table" -> set_current_table(c)
    [] f = "gdt" -> {Under(GDT, <<>>)}
    [] f = "idt" -> {Under(IDT, <<>>)}
    [] f = "install" -> {install(c)}
    [] f = "setup" -> setup(c)

\* What the code of a CPU calls: at any time, during the boot, and after it.
Anytime  == {"log", "alloc", "dealloc", "vmalloc_fault", "vmm_allocate",
             "vmm_deallocate", "map_current", "unmap_current"}
BootOnly == {"gdt", "idt", "install", "setup"}
LateOnly == {"new", "set_current_table"}
Entry    == Anytime \cup (IF early THEN BootOnly ELSE LateOnly)

-----------------------------------------------------------------------------
\* The CPUs that run the kernel.
Running == {c \in Cpus : c = Bsp \/ boot[c] \in {"starting", "ready"}}

Init ==
  /\ todo = [c \in Cpus |-> <<>>]
  /\ holder = [l \in Lock |-> Nobody]
  /\ root = [c \in Cpus |-> c]
  /\ lapic = FALSE
  /\ boot = [c \in Cpus |-> "parked"]
  /\ early = TRUE
  /\ nmi = {} /\ panicked = {}
  /\ said = [c \in Cpus |-> 0]

Next1(c, what) == todo[c] # <<>> /\ Head(todo[c]).do = what
Then(c, steps) == todo' = [todo EXCEPT ![c] = steps]

\* acpi::setup.
AcpiSetup ==
  /\ ~lapic /\ todo[Bsp] = <<>>
  /\ lapic' = TRUE
  /\ UNCHANGED <<todo, holder, root, boot, early, nmi, panicked, said>>

\* start_cpus releases a CPU, and logs the next one or, in the end, that all
\* have started.
StartCpu(c) ==
  /\ c # Bsp /\ lapic /\ todo[Bsp] = <<>> /\ boot[c] = "parked"
  /\ boot' = [boot EXCEPT ![c] = "released"]
  /\ Then(Bsp, log)
  /\ UNCHANGED <<holder, root, lapic, early, nmi, panicked, said>>

\* The CPU leaves the bootloader.
ApStart(c) ==
  /\ boot[c] = "released" /\ todo[c] = <<>>
  /\ boot' = [boot EXCEPT ![c] = "starting"]
  /\ Then(c, ap_start(c))
  /\ UNCHANGED <<holder, root, lapic, early, nmi, panicked, said>>

\* CPU_COUNT.fetch_add; the CPU halts until there is something to do.
Ready(c) ==
  /\ Next1(c, "ready")
  /\ boot' = [boot EXCEPT ![c] = "ready"]
  /\ Then(c, Tail(todo[c]))
  /\ UNCHANGED <<holder, root, lapic, early, nmi, panicked, said>>

\* All CPUs are counted, and EARLY is cleared.
EndEarly ==
  /\ early /\ lapic /\ todo[Bsp] = <<>>
  /\ \A c \in Cpus \ {Bsp} : boot[c] = "ready"
  /\ early' = FALSE
  /\ UNCHANGED <<todo, holder, root, lapic, boot, nmi, panicked, said>>

\* While EARLY only the boot processor calls anything, and nothing while it
\* starts the others and waits for them.
Begin(c) ==
  /\ todo[c] = <<>>
  /\ early => c = Bsp /\ \A d \in Cpus \ {Bsp} : boot[d] = "parked"
  /\ \E f \in Entry : \E body \in Bodies(c, f) : Then(c, body)
  /\ UNCHANGED <<holder, root, bootVars, nmi, panicked, said>>

Enter(c) ==
  /\ Next1(c, "call")
  /\ \E body \in Bodies(c, Head(todo[c]).f) : Then(c, body \o Tail(todo[c]))
  /\ UNCHANGED <<holder, root, bootVars, nmi, panicked, said>>

Acquire(c) ==
  /\ Next1(c, "lock") /\ holder[Head(todo[c]).on] = Nobody
  /\ holder' = [holder EXCEPT ![Head(todo[c]).on] = c]
  /\ Then(c, Tail(todo[c]))
  /\ UNCHANGED <<root, bootVars, nmi, panicked, said>>

Release(c) ==
  /\ Next1(c, "unlock")
  /\ holder' = [holder EXCEPT ![Head(todo[c]).on] = Nobody]
  /\ Then(c, Tail(todo[c]))
  /\ UNCHANGED <<root, bootVars, nmi, panicked, said>>

UseRoot(c) ==
  /\ Next1(c, "use")
  /\ root' = [root EXCEPT ![c] = Head(todo[c]).root]
  /\ Then(c, Tail(todo[c]))
  /\ UNCHANGED <<holder, bootVars, nmi, panicked, said>>

-----------------------------------------------------------------------------
\* Mutants: the other cores are stopped after the messages; the CPU freezes
\* after the first one.
panic_StopLate ==
  Under(SERIAL, Do("say")) \o Under(SERIAL, Do("say")) \o Do("stop") \o Do("freeze")
panic_Short == Do("stop") \o Under(SERIAL, Do("say")) \o Do("freeze")

\* panic: halt_other_core, the message, "System halted", freeze.
panic ==
  Do("stop") \o Under(SERIAL, Do("say")) \o Under(SERIAL, Do("say")) \o Do("freeze")

Frozen(c) == todo[c] = Do("freeze")

\* A CPU panics, or takes an exception whose handler does, wherever it is.
\* It keeps the locks it has.
Panic(c) ==
  /\ c \in Running \ panicked /\ ~Frozen(c)
  /\ panicked' = panicked \cup {c}
  /\ Then(c, panic)
  /\ UNCHANGED <<holder, root, bootVars, nmi, said>>

\* Mutant: the NMI is sent only when no panic has been before.
StopOthers_Once(c) ==
  /\ Next1(c, "stop")
  /\ nmi' = IF lapic /\ panicked = {c} THEN nmi \cup (Cpus \ {c}) ELSE nmi
  /\ Then(c, Tail(todo[c]))
  /\ UNCHANGED <<holder, root, bootVars, panicked, said>>

\* halt_other_core.
StopOthers(c) ==
  /\ Next1(c, "stop")
  /\ nmi' = IF lapic THEN nmi \cup (Cpus \ {c}) ELSE nmi
  /\ Then(c, Tail(todo[c]))
  /\ UNCHANGED <<holder, root, bootVars, panicked, said>>

\* A line of the message is written.
Say(c) ==
  /\ Next1(c, "say")
  /\ said' = [said EXCEPT ![c] = @ + 1]
  /\ Then(c, Tail(todo[c]))
  /\ UNCHANGED <<holder, root, bootVars, nmi, panicked>>

\* The NMI, which nothing masks: its handler freezes the CPU.  One that is still
\* in the bootloader, without a handler for it, does not get out of it either.
TakeNmi(c) ==
  /\ c \in nmi
  /\ nmi' = nmi \ {c}
  /\ Then(c, Do("freeze"))
  /\ UNCHANGED <<holder, root, bootVars, panicked, said>>

-----------------------------------------------------------------------------
Step(c) ==
  \/ Enter(c) \/ Acquire(c) \/ Release(c) \/ UseRoot(c) \/ Ready(c)
  \/ StopOthers(c) \/ Say(c) \/ TakeNmi(c)

Next ==
  \/ AcpiSetup \/ EndEarly
  \/ \E c \in Cpus : StartCpu(c) \/ ApStart(c) \/ Begin(c) \/ Step(c) \/ Panic(c)

\* A CPU that panics runs on; a CPU takes an NMI when it arrives.
Spec ==
  Init /\ [][Next]_vars
  /\ \A c \in Cpus : WF_vars(c \in panicked /\ Step(c)) /\ WF_vars(TakeNmi(c))

-----------------------------------------------------------------------------
\* c waits for a lock that d holds.
Blocks(d, c) == Next1(c, "lock") /\ holder[Head(todo[c]).on] = d

\* As long as no two CPUs use one root table, no CPUs wait for each other, and
\* none for itself.  The order of the locks has a cycle: a fault in the heap
\* locks a root with USED_VMA and HEAP held, a fault in the vmalloc area locks
\* USED_VMA with a root held.  That each CPU locks its own root saves it.
NoWaitCycle ==
  panicked = {} /\ (\A c, d \in Cpus : c # d => root[c] # root[d])
    => \A S \in (SUBSET Cpus) \ {{}} : \E c \in S : \A d \in S : ~Blocks(d, c)

\* From the moment a panic begins to write, every other CPU is frozen or has an
\* NMI on its way, whoever panics at the same time.
HaltCovers ==
  \A c \in panicked : lapic /\ (Next1(c, "lock") \/ said[c] > 0) =>
    \A d \in Cpus \ {c} : d \in nmi \/ Frozen(d)

\* Once a CPU has panicked, all but one stop, although they may be spinning
\* with interrupts off, or panicking too.
PanicStops ==
  (panicked # {} /\ lapic) ~> (\E c \in Cpus : \A d \in Cpus \ {c} : Frozen(d))

\* The message of a panic is written, unless the serial port is locked by a CPU that was
\* stopped or panicked with it, or another panic stops this one first.
MessageOut ==
  \A c \in Cpus : (c \in panicked) ~>
    \/ said[c] = 2
    \/ Frozen(c) /\ panicked # {c}
    \/ \E d \in Cpus : Blocks(d, c) /\ (d = c \/ Frozen(d))
=============================================================================
