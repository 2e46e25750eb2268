-------------------------------- MODULE Boot --------------------------------
(***************************************************************************)
(* The start of the kernel on all CPUs (main.rs, arch/mod.rs, arch/smp.rs, *)
(* arch/gdt.rs, arch/tss.rs): the boot processor sets everything up,       *)
(* releases the application processors, waits until CPU_COUNT says they    *)
(* are all there, and clears EARLY.  Page faults happen meanwhile on every *)
(* CPU that touches the heap or the vmalloc space, and how one is handled  *)
(* depends on EARLY.                                                       *)
(*                                                                         *)
(* pc[c] is the next thing CPU c does.  The memory manager is in the other *)
(* modules: here its calls succeed.                                        *)
(***************************************************************************)
EXTENDS Integers, FiniteSets

CONSTANTS
  Cpus,        \* the CPUs in the answer to LIMINE_SMP
  Bsp,         \* the one that runs _start
  MaxCpu,      \* config::MAX_CPU
  Platforms    \* the ids the CPUs may have

ASSUME CpusAssumption == IsFiniteSet(Cpus) /\ Bsp \in Cpus /\ MaxCpu \in Nat

\* The ids of a CPU are its own.
ASSUME PlatformAssumption ==
  \A info \in Platforms :
    /\ info \in [Cpus -> [processor_id : Nat, lapic_id : Nat]]
    /\ \A c, d \in Cpus : c # d =>
         /\ info[c].processor_id # info[d].processor_id
         /\ info[c].lapic_id # info[d].lapic_id

VARIABLES
  info,       \* the ids of the CPUs
  pc,         \* the next step of each CPU
  vectors,    \* which handlers are in the IDT
  idt,        \* the CPUs that have loaded it
  released,   \* the CPUs whose goto_address is set
  tls,        \* the cpu_id in the thread local storage of each CPU, or None
  gdt,        \* the CPU whose TSS is in each TSS slot of the GDT, or None
  tr,         \* the slot each CPU has loaded with ltr, or None
  table,      \* the CPUs with an ACTIVE_TABLE
  lapic,      \* the CPUs with their LAPIC enabled
  count,      \* CPU_COUNT
  early,      \* EARLY
  halted      \* "no", or why the kernel stopped

vars == <<info, pc, vectors, idt, released, tls, gdt, tr, table, lapic, count,
          early, halted>>

None == -1

\* The slots for TSS descriptors: GDT entries 6 + 2 * id for id < MAX_CPU.
Slots == 0 .. MaxCpu - 1

-----------------------------------------------------------------------------
Init ==
  /\ info \in Platforms
  /\ pc = [c \in Cpus |-> IF c = Bsp THEN "idt" ELSE "parked"]
  /\ vectors = {}
  /\ idt = {}
  /\ released = {}
  /\ tls = [c \in Cpus |-> None]
  /\ gdt = [i \in Slots |-> None]
  /\ tr = [c \in Cpus |-> None]
  /\ table = {}
  /\ lapic = {}
  /\ count = 1
  /\ early = TRUE
  /\ halted = "no"

At(c, label) == halted = "no" /\ pc[c] = label
Goto(c, label) == pc' = [pc EXCEPT ![c] = label]
Panic(why) ==
  /\ halted' = why
  /\ UNCHANGED <<info, pc, vectors, idt, released, tls, gdt, tr, table, lapic,
                 count, early>>

\* The start of start: gdt::setup and idt::setup, which puts a default handler
\* everywhere, adds the handlers of the LAPIC vectors and loads the table.
IdtSetup ==
  /\ At(Bsp, "idt")
  /\ vectors' = {"unknown", "tlb", "clock"}
  /\ idt' = {Bsp}
  /\ Goto(Bsp, "exception")
  /\ UNCHANGED <<info, released, tls, gdt, tr, table, lapic, count, early, halted>>

\* arch::irq::setup and arch::exception::setup.
ExceptionSetup ==
  /\ At(Bsp, "exception")
  /\ vectors' = vectors \cup {"irq", "page fault", "nmi"}
  /\ Goto(Bsp, "mm")
  /\ UNCHANGED <<info, idt, released, tls, gdt, tr, table, lapic, count, early,
                 halted>>

\* mm::setup: the frame allocator, the heap and the vmalloc space.
MmSetup ==
  /\ At(Bsp, "mm")
  /\ Goto(Bsp, "tls")
  /\ UNCHANGED <<info, vectors, idt, released, tls, gdt, tr, table, lapic,
                 count, early, halted>>

\* bsp_setup: the boot processor takes the entry with processor_id 0 for its
\* own.
BspSetup ==
  /\ At(Bsp, "tls")
  /\ IF \A c \in Cpus : info[c].processor_id # 0 THEN Panic("no processor 0")
     ELSE /\ tls' = [tls EXCEPT ![Bsp] = 0]
          /\ Goto(Bsp, "table")
          /\ UNCHANGED <<info, vectors, idt, released, gdt, tr, table, lapic,
                         count, early, halted>>

\* paging::setup on the boot processor and paging::ap_setup on the others
\* force ACTIVE_TABLE, which is thread local.
TableSetup(c, next) ==
  /\ At(c, "table")
  /\ table' = table \cup {c}
  /\ Goto(c, next)
  /\ UNCHANGED <<info, vectors, idt, released, tls, gdt, tr, lapic, count,
                 early, halted>>

\* tss::install: past the last slot set_descriptor panics.
Install(c, id, next) ==
  /\ At(c, "tss")
  /\ IF id \notin Slots THEN Panic("slot out of bounds")
     ELSE /\ gdt' = [gdt EXCEPT ![id] = c]
          /\ tr' = [tr EXCEPT ![c] = id]
          /\ Goto(c, next)
          /\ UNCHANGED <<info, vectors, idt, released, tls, table, lapic,
                         count, early, halted>>

\* acpi::setup on the boot processor, lapic::enable on the others.
LapicEnable(c, next) ==
  /\ At(c, "lapic")
  /\ lapic' = lapic \cup {c}
  /\ Goto(c, next)
  /\ UNCHANGED <<info, vectors, idt, released, tls, gdt, tr, table, count,
                 early, halted>>

\* start_cpus, the first part: every CPU whose lapic_id is not zero is given
\* its goto_address.
StartCpus ==
  /\ At(Bsp, "start")
  /\ IF Cardinality(Cpus) > MaxCpu THEN Panic("too many cores")
     ELSE /\ released' = {c \in Cpus : info[c].lapic_id # 0}
          /\ Goto(Bsp, "wait")
          /\ UNCHANGED <<info, vectors, idt, tls, gdt, tr, table, lapic,
                         count, early, halted>>

\* Mutant: a CPU too few is waited for.
AllStarted_OneMissing ==
  /\ At(Bsp, "wait")
  /\ count >= Cardinality(Cpus) - 1
  /\ Goto(Bsp, "late")
  /\ UNCHANGED <<info, vectors, idt, released, tls, gdt, tr, table, lapic,
                 count, early, halted>>

\* Its loop ends when CPU_COUNT is the number of CPUs.
AllStarted ==
  /\ At(Bsp, "wait")
  /\ count = Cardinality(Cpus)
  /\ Goto(Bsp, "late")
  /\ UNCHANGED <<info, vectors, idt, released, tls, gdt, tr, table, lapic,
                 count, early, halted>>

\* The end of start: EARLY is cleared, and interrupts are enabled.
EndEarly ==
  /\ At(Bsp, "late")
  /\ early' = FALSE
  /\ Goto(Bsp, "idle")
  /\ UNCHANGED <<info, vectors, idt, released, tls, gdt, tr, table, lapic,
                 count, halted>>

-----------------------------------------------------------------------------
\* Mutant: an AP is counted when it starts, too.
ApStart_Counts(c) ==
  /\ At(c, "parked") /\ c \in released
  /\ idt' = idt \cup {c}
  /\ count' = count + 1
  /\ Goto(c, "tls")
  /\ UNCHANGED <<info, vectors, released, tls, gdt, tr, table, lapic, early,
                 halted>>

\* A released AP leaves the bootloader and runs ap_start: gdt::reload and
\* idt::reload first.  The boot processor's own goto_address has no effect.
ApStart(c) ==
  /\ At(c, "parked") /\ c \in released
  /\ idt' = idt \cup {c}
  /\ Goto(c, "tls")
  /\ UNCHANGED <<info, vectors, released, tls, gdt, tr, table, lapic, count,
                 early, halted>>

\* Mutant: the ids are mixed up.
ApTls_LapicId(c) ==
  /\ c # Bsp /\ At(c, "tls")
  /\ tls' = [tls EXCEPT ![c] = info[c].lapic_id]
  /\ Goto(c, "lapic")
  /\ UNCHANGED <<info, vectors, idt, released, gdt, tr, table, lapic, count,
                 early, halted>>

\* allocate_thread_local_storage.
ApTls(c) ==
  /\ c # Bsp /\ At(c, "tls")
  /\ tls' = [tls EXCEPT ![c] = info[c].processor_id]
  /\ Goto(c, "lapic")
  /\ UNCHANGED <<info, vectors, idt, released, gdt, tr, table, lapic, count,
                 early, halted>>

\* Mutant: load and store instead of fetch_add, over a stale value.
ApSignal_Lost(c) ==
  /\ c # Bsp /\ At(c, "signal")
  /\ count' \in {count + 1, 2}
  /\ Goto(c, "idle")
  /\ UNCHANGED <<info, vectors, idt, released, tls, gdt, tr, table, lapic,
                 early, halted>>

\* CPU_COUNT.fetch_add, and the loop that waits for interrupts.
ApSignal(c) ==
  /\ c # Bsp /\ At(c, "signal")
  /\ count' = count + 1
  /\ Goto(c, "idle")
  /\ UNCHANGED <<info, vectors, idt, released, tls, gdt, tr, table, lapic,
                 early, halted>>

-----------------------------------------------------------------------------
\* The steps from which a CPU touches memory that is populated on demand.
Touches(c) == pc[c] \notin {"parked", "idt", "exception"}

\* page_fault: while EARLY is set the table in CR3 is used; afterwards it is
\* ACTIVE_TABLE, which is in the thread local storage.
PageFault(c) ==
  /\ halted = "no" /\ Touches(c)
  /\ IF c \notin idt \/ "page fault" \notin vectors THEN Panic("no fault handler")
     ELSE IF ~early /\ tls[c] = None THEN Panic("no thread local storage")
     ELSE UNCHANGED vars

\* A CPU that waits takes interrupts: the PIT on the boot processor, whose
\* handler sends the clock tick to the other CPUs through its LAPIC.
Interrupt(c) ==
  /\ At(c, "idle")
  /\ IF c \notin idt \/ c \notin lapic THEN Panic("no interrupt handler")
     ELSE UNCHANGED vars

-----------------------------------------------------------------------------
BspStep ==
  \/ IdtSetup \/ ExceptionSetup \/ MmSetup \/ BspSetup
  \/ TableSetup(Bsp, "tss") \/ Install(Bsp, 0, "lapic")
  \/ LapicEnable(Bsp, "start")
  \/ StartCpus \/ AllStarted \/ EndEarly

ApStep(c) ==
  \/ ApStart(c) \/ ApTls(c) \/ LapicEnable(c, "tss")
  \/ Install(c, info[c].processor_id, "table")
  \/ TableSetup(c, "signal") \/ ApSignal(c)

Halted == halted # "no" /\ UNCHANGED vars

Next ==
  \/ BspStep
  \/ \E c \in Cpus \ {Bsp} : ApStep(c)
  \/ \E c \in Cpus : PageFault(c) \/ Interrupt(c)
  \/ Halted

Spec == Init /\ [][Next]_vars

\* Every CPU runs; no AP fails to start.
FairSpec ==
  Spec /\ WF_vars(BspStep) /\ \A c \in Cpus \ {Bsp} : WF_vars(ApStep(c))

-----------------------------------------------------------------------------
\* No CPU faults before the handler of the fault can work, on either side of
\* the change of EARLY, which happens on another CPU; none takes an interrupt
\* before its LAPIC is on.
HandlersReady ==
  halted \notin {"no fault handler", "no thread local storage",
                 "no interrupt handler"}

\* What EARLY promises: once it is cleared, per-cpu variables can be used on
\* every CPU.  The boot processor knows only from CPU_COUNT.
PerCpuReady == ~early => \A c \in Cpus : tls[c] # None /\ c \in table

\* Every CPU has its own id and its own TSS, and the GDT keeps the TSS a CPU
\* has loaded for as long as it runs.
OwnTss ==
  \A c \in Cpus : tr[c] # None =>
    /\ gdt[tr[c]] = c
    /\ tls[c] = tr[c]

\* start_cpus starts the CPUs whose lapic_id is not zero and waits for all:
\* another CPU than the boot processor with lapic_id zero is waited for in vain.
LeftOut == \E c \in Cpus \ {Bsp} : info[c].lapic_id = 0

\* When none is left out the boot completes on all CPUs, on a platform whose
\* processor ids all have a slot in the GDT; on others the CPU without one
\* panics.
BootCompletes ==
  ~LeftOut /\ (\A c \in Cpus : info[c].processor_id \in Slots)
    => <>(~early /\ \A c \in Cpus : pc[c] = "idle")
=============================================================================
