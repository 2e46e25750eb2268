---------------------------- MODULE TlbShootdown ----------------------------
(***************************************************************************)
(* The translation caches of the CPUs and the code that keeps them in step *)
(* with the page table (arch/paging.rs, arch/idt.rs): an entry that is     *)
(* changed or cleared is followed by a flush of the local cache and an     *)
(* interrupt to all other cores, which flush theirs whenever they take it; *)
(* nobody waits for them.  An entry that is added is not announced: a core *)
(* that faults on it finds it present and flushes then.                    *)
(*                                                                         *)
(* pte is the one level of the page table the CPUs share; the values of an *)
(* entry are model values.  A CPU may cache an entry that is present at    *)
(* any time, and never caches an absent one.                               *)
(***************************************************************************)
CONSTANTS
  Cpus,      \* the CPUs
  Bsp,       \* the one that boots
  Pages,     \* pages of the kernel half
  Entries,   \* what a present entry can be (a frame and its flags)
  Absent     \* an entry that is not present

ASSUME BspAssumption == Bsp \in Cpus
ASSUME PagesAssumption == Pages # {}
ASSUME EntriesAssumption == Absent \notin Entries

VARIABLES
  pte,           \* the page table
  tlb,           \* the cache of each CPU
  initialized,   \* lapic::initialized()
  phase,         \* how far each CPU has started
  pc,            \* where each CPU is in the code below
  job,           \* the page it works on and the entry it is about to write
  masked,        \* whether other code on the CPU has disabled interrupts
  irr,           \* the LAPIC has a shootdown interrupt pending
  isr            \* and one in service

vars == <<pte, tlb, initialized, phase, pc, job, masked, irr, isr>>

Empty == [p \in Pages |-> Absent]
Idle  == <<CHOOSE p \in Pages : TRUE, Absent>>

\* A cached entry the page table no longer has.
Stale(c, p) == tlb[c][p] \notin {Absent, pte[p]}

\* The LAPIC of c accepts interrupts.
Listening(c) == phase[c] \in {"enabled", "up"}

Goto(c, label) == pc' = [pc EXCEPT ![c] = label]

-----------------------------------------------------------------------------
\* Before acpi::setup: the boot processor runs alone and without a LAPIC.
Init ==
  /\ pte \in [Pages -> Entries \cup {Absent}]
  /\ tlb = [c \in Cpus |-> Empty]
  /\ initialized = FALSE
  /\ phase = [c \in Cpus |-> IF c = Bsp THEN "up" ELSE "down"]
  /\ pc = [c \in Cpus |-> "run"]
  /\ job = [c \in Cpus |-> Idle]
  /\ masked = [c \in Cpus |-> TRUE]
  /\ irr = [c \in Cpus |-> FALSE]
  /\ isr = [c \in Cpus |-> FALSE]

\* acpi::setup maps and enables the LAPIC.
AcpiSetup ==
  /\ ~initialized /\ pc[Bsp] = "run"
  /\ initialized' = TRUE
  /\ UNCHANGED <<pte, tlb, phase, pc, job, masked, irr, isr>>

\* start_cpus lets an AP into ap_start, with interrupts disabled.
ApStart(c) ==
  /\ initialized /\ phase[c] = "down"
  /\ phase' = [phase EXCEPT ![c] = "starting"]
  /\ UNCHANGED <<pte, tlb, initialized, pc, job, masked, irr, isr>>

\* ap_start: lapic::enable, after the thread local storage was set up.
ApEnable(c) ==
  /\ phase[c] = "starting" /\ pc[c] = "run"
  /\ phase' = [phase EXCEPT ![c] = "enabled"]
  /\ UNCHANGED <<pte, tlb, initialized, pc, job, masked, irr, isr>>

\* Mutant: ap_setup does not load CR3.
ApSetup_NoLoad(c) ==
  /\ phase[c] = "enabled" /\ pc[c] = "run"
  /\ phase' = [phase EXCEPT ![c] = "up"]
  /\ UNCHANGED <<pte, tlb, initialized, pc, job, masked, irr, isr>>

\* paging::ap_setup: ACTIVE_TABLE is created and loaded into CR3, which also
\* empties the cache.
ApSetup(c) ==
  /\ phase[c] = "enabled" /\ pc[c] = "run"
  /\ phase' = [phase EXCEPT ![c] = "up"]
  /\ tlb' = [tlb EXCEPT ![c] = Empty]
  /\ UNCHANGED <<pte, initialized, pc, job, masked, irr, isr>>

-----------------------------------------------------------------------------
\* The processor walks the page table and caches a present entry.
Access(c, p) ==
  /\ phase[c] # "down"
  /\ tlb[c][p] = Absent /\ pte[p] # Absent
  /\ tlb' = [tlb EXCEPT ![c][p] = pte[p]]
  /\ UNCHANGED <<pte, initialized, phase, pc, job, masked, irr, isr>>

\* map: a new entry, announced to nobody.
Map(c, p, entry) ==
  /\ phase[c] # "down" /\ pc[c] = "run"
  /\ pte[p] = Absent
  /\ pte' = [pte EXCEPT ![p] = entry]
  /\ UNCHANGED <<tlb, initialized, phase, pc, job, masked, irr, isr>>

\* unmap (entry is Absent) and change_protection find the page present.
Change(c, p, entry) ==
  /\ phase[c] = "up" /\ pc[c] = "run"
  /\ pte[p] # Absent
  /\ job' = [job EXCEPT ![c] = <<p, entry>>]
  /\ Goto(c, "write")
  /\ UNCHANGED <<pte, tlb, initialized, phase, masked, irr, isr>>

\* With interrupts disabled, they write the entry and call shootdown.
Write(c) ==
  /\ pc[c] = "write"
  /\ pte' = [pte EXCEPT ![job[c][1]] = job[c][2]]
  /\ Goto(c, "flush")
  /\ UNCHANGED <<tlb, initialized, phase, job, masked, irr, isr>>

\* shootdown: flush_all, by reloading CR3,
ShootdownFlush(c) ==
  /\ pc[c] = "flush"
  /\ tlb' = [tlb EXCEPT ![c] = Empty]
  /\ Goto(c, "send")
  /\ UNCHANGED <<pte, initialized, phase, job, masked, irr, isr>>

\* and an interrupt to the other cores.  A second one to a core that has not
\* taken the first merges with it; a core whose LAPIC is off gets none.
ShootdownSend(c) ==
  /\ pc[c] = "send"
  /\ irr' = [d \in Cpus |-> irr[d] \/ (initialized /\ d # c /\ Listening(d))]
  /\ Goto(c, "run")
  /\ UNCHANGED <<pte, tlb, initialized, phase, job, masked, isr>>

-----------------------------------------------------------------------------
\* An access to a page that is not present faults.
Fault(c, p) ==
  /\ phase[c] # "down" /\ pc[c] = "run"
  /\ tlb[c][p] = Absent /\ pte[p] = Absent
  /\ job' = [job EXCEPT ![c] = <<p, Absent>>]
  /\ Goto(c, "fault")
  /\ UNCHANGED <<pte, tlb, initialized, phase, masked, irr, isr>>

\* handle_page_fault: when another CPU has added the entry meanwhile, it is a
\* lazy invalidation and everybody flushes; otherwise the page is populated.
HandleFault(c) ==
  LET p == job[c][1] IN
  /\ pc[c] = "fault"
  /\ \/ pte[p] # Absent /\ Goto(c, "flush") /\ UNCHANGED pte
     \/ /\ pte[p] = Absent
        /\ \E entry \in Entries : pte' = [pte EXCEPT ![p] = entry]
        /\ Goto(c, "run")
  /\ UNCHANGED <<tlb, initialized, phase, job, masked, irr, isr>>

-----------------------------------------------------------------------------
\* Other code, and irq::without around it, disables and enables interrupts.
Mask(c) ==
  /\ phase[c] = "up" /\ pc[c] = "run" /\ ~masked[c]
  /\ masked' = [masked EXCEPT ![c] = TRUE]
  /\ UNCHANGED <<pte, tlb, initialized, phase, pc, job, irr, isr>>

Unmask(c) ==
  /\ phase[c] = "up" /\ pc[c] = "run" /\ masked[c]
  /\ masked' = [masked EXCEPT ![c] = FALSE]
  /\ UNCHANGED <<pte, tlb, initialized, phase, pc, job, irr, isr>>

\* The processor takes the interrupt: it moves from pending to in service.
Take(c) ==
  /\ irr[c] /\ ~isr[c]
  /\ phase[c] = "up" /\ pc[c] = "run" /\ ~masked[c]
  /\ irr' = [irr EXCEPT ![c] = FALSE]
  /\ isr' = [isr EXCEPT ![c] = TRUE]
  /\ Goto(c, "handler")
  /\ UNCHANGED <<pte, tlb, initialized, phase, job, masked>>

\* Mutant: no end of interrupt is signalled.
HandlerEoi_Forgotten(c) ==
  /\ pc[c] = "eoi"
  /\ Goto(c, "run")
  /\ UNCHANGED <<pte, tlb, initialized, phase, job, masked, irr, isr>>

\* tlb_shootdown_handler: flush_all, then send_eoi.
HandlerFlush(c) ==
  /\ pc[c] = "handler"
  /\ tlb' = [tlb EXCEPT ![c] = Empty]
  /\ Goto(c, "eoi")
  /\ UNCHANGED <<pte, initialized, phase, job, masked, irr, isr>>

HandlerEoi(c) ==
  /\ pc[c] = "eoi"
  /\ isr' = [isr EXCEPT ![c] = FALSE]
  /\ Goto(c, "run")
  /\ UNCHANGED <<pte, tlb, initialized, phase, job, masked, irr>>

-----------------------------------------------------------------------------
Step(c) ==
  \/ Write(c) \/ ShootdownFlush(c) \/ ShootdownSend(c)
  \/ HandleFault(c) \/ HandlerFlush(c) \/ HandlerEoi(c)

Call(c) ==
  \/ \E p \in Pages : Access(c, p) \/ Fault(c, p)
  \/ \E p \in Pages, entry \in Entries : Map(c, p, entry)
  \/ \E p \in Pages, entry \in Entries \cup {Absent} : Change(c, p, entry)
  \/ Mask(c)

Boot(c) == ApStart(c) \/ ApEnable(c) \/ ApSetup(c)

Next ==
  \/ AcpiSetup
  \/ \E c \in Cpus : Boot(c) \/ Call(c) \/ Step(c) \/ Unmask(c) \/ Take(c)

Spec == Init /\ [][Next]_vars

\* A CPU goes on with what it has begun.  A section with interrupts disabled is
\* finite, whatever it changes and faults on: the CPU that can leave it again and
\* again does.  A pending interrupt is taken the moment interrupts are enabled,
\* before anything else can run on the CPU.  Hence strong fairness of both.
FairSpec ==
  Spec /\ \A c \in Cpus : WF_vars(Step(c)) /\ SF_vars(Unmask(c)) /\ SF_vars(Take(c))

-----------------------------------------------------------------------------
\* The types; a shootdown interrupt is only in service while it is handled.
TypeOK ==
  /\ pte \in [Pages -> Entries \cup {Absent}]
  /\ tlb \in [Cpus -> [Pages -> Entries \cup {Absent}]]
  /\ initialized \in BOOLEAN
  /\ phase \in [Cpus -> {"down", "starting", "enabled", "up"}]
  /\ pc \in [Cpus -> {"run", "write", "flush", "send", "fault", "handler", "eoi"}]
  /\ job \in [Cpus -> Pages \X (Entries \cup {Absent})]
  /\ masked \in [Cpus -> BOOLEAN]
  /\ irr \in [Cpus -> BOOLEAN]
  /\ isr \in [Cpus -> BOOLEAN]
  /\ \A c \in Cpus : isr[c] <=> pc[c] \in {"handler", "eoi"}

\* The CPU will flush: it is about to, or has an interrupt pending.
WillFlush(c) == irr[c] \/ pc[c] \in {"flush", "handler"}

\* No stale entry is forgotten: a CPU that is up and has cached an entry that
\* was changed or removed is about to flush its cache, or has the interrupt
\* pending that makes it, or another CPU is on its way to send it.  This is
\* what merging interrupts, the cores that were not listening and the order
\* of write, flush and send could break.
StaleCovered ==
  \A c \in Cpus, p \in Pages :
    phase[c] = "up" /\ Stale(c, p) =>
      \/ WillFlush(c)
      \/ \E d \in Cpus \ {c} : pc[d] \in {"flush", "send"}

\* Every stale entry goes away, without anybody having to wait for it.
StaleGoes ==
  \A c \in Cpus, p \in Pages :
    (phase[c] = "up" /\ Stale(c, p)) ~> ~Stale(c, p)
=============================================================================
