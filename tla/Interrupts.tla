----------------------------- MODULE Interrupts -----------------------------
(***************************************************************************)
(* Interrupts after boot: the lines of the master PIC, which only the boot *)
(* processor serves, the tick that it sends on to the other CPUs, and the  *)
(* two vectors of the LAPICs.  Every gate is an interrupt gate, so that a  *)
(* handler runs with interrupts off, and on top of code that had them on.  *)
(* NMIs are in Locks, what the shootdown is for in TlbShootdown.           *)
(***************************************************************************)
EXTENDS Integers, FiniteSetsExt

CONSTANTS
  Cpus,      \* the CPUs
  Bsp,       \* the boot processor
  Lines,     \* the lines of the PIC, 0 the first: the smaller, the more urgent
  Word       \* TICKS counts modulo this

ASSUME InterruptsAssumption ==
  Bsp \in Cpus /\ Lines \subseteq Nat /\ 0 \in Lines /\ Word \in Nat \ {0}

VARIABLES
  pc,        \* "on" or "off", as interrupts are, or the handler a CPU is in
  TICKS,     \* the static
  irr, isr,  \* the lines of the PIC that are raised, and in service
  pending,   \* the vectors that wait at each LAPIC
  service,   \* the vectors in service at each LAPIC
  taken      \* how often each line was delivered, up to two (history)

vars == <<pc, TICKS, irr, isr, pending, service, taken>>

Vectors == {"tlb_shootdown", "clock_tick"}
Others(c) == Cpus \ {c}
Goto(c, l) == pc' = [pc EXCEPT ![c] = l]

\* Before irq::enable in the last loop of start and of ap_start.
Init ==
  /\ pc = [c \in Cpus |-> "off"]
  /\ TICKS = 0
  /\ irr = {} /\ isr = {}
  /\ pending = [c \in Cpus |-> {}] /\ service = [c \in Cpus |-> {}]
  /\ taken = [l \in Lines |-> 0]

\* irq::enable, or the end of irq::without; the begin of irq::without.
Enable(c) ==
  /\ pc[c] = "off" /\ Goto(c, "on")
  /\ UNCHANGED <<TICKS, irr, isr, pending, service, taken>>

Disable(c) ==
  /\ pc[c] = "on" /\ Goto(c, "off")
  /\ UNCHANGED <<TICKS, irr, isr, pending, service, taken>>

-----------------------------------------------------------------------------
(* The hardware.                                                           *)

\* A device raises its line.  A second time before it is served is lost.
Raise(l) ==
  /\ irr' = irr \cup {l}
  /\ UNCHANGED <<pc, TICKS, isr, pending, service, taken>>

\* The handlers that irq::setup installs.
Handler(l) == IF l = 0 THEN "pit_tick" ELSE "ignore_irq"

\* The PIC interrupts the boot processor for a line that is more urgent than
\* all those in service.
Deliver(l) ==
  /\ pc[Bsp] = "on" /\ l \in irr /\ \A k \in isr : l < k
  /\ irr' = irr \ {l} /\ isr' = isr \cup {l}
  /\ taken' = [taken EXCEPT ![l] = IF @ < 2 THEN @ + 1 ELSE @]
  /\ Goto(Bsp, Handler(l))
  /\ UNCHANGED <<TICKS, pending, service>>

\* A LAPIC interrupts its CPU when no vector of the same class is in service,
\* with the larger vector first.
DeliverVector(c, v) ==
  /\ pc[c] = "on" /\ v \in pending[c] /\ service[c] = {}
  /\ v = "clock_tick" \/ "clock_tick" \notin pending[c]
  /\ pending' = [pending EXCEPT ![c] = @ \ {v}]
  /\ service' = [service EXCEPT ![c] = {v}]
  /\ Goto(c, v)
  /\ UNCHANGED <<TICKS, irr, isr, taken>>

\* lapic::send_ipi to OtherCores.
Send(c, v) ==
  pending' = [d \in Cpus |-> IF d = c THEN pending[d] ELSE pending[d] \cup {v}]

\* pic::send_eoi ends the service of the most urgent line.
SendEoi == isr' = IF isr = {} THEN {} ELSE isr \ {Min(isr)}

-----------------------------------------------------------------------------
(* The handlers.                                                           *)

\* Mutant: the tick is not sent on.
pit_tick_handler_send_Never ==
  /\ pc[Bsp] = "send" /\ Goto(Bsp, "eoi")
  /\ UNCHANGED <<TICKS, irr, isr, pending, service, taken>>

\* pit_tick_handler: TICKS, the IPI, the EOI.
pit_tick_handler ==
  /\ pc[Bsp] = "pit_tick" /\ Goto(Bsp, "send")
  /\ TICKS' = (TICKS + 1) % Word
  /\ UNCHANGED <<irr, isr, pending, service, taken>>

pit_tick_handler_send ==
  /\ pc[Bsp] = "send" /\ Goto(Bsp, "eoi")
  /\ Send(Bsp, "clock_tick")
  /\ UNCHANGED <<TICKS, irr, isr, service, taken>>

\* Mutants: no EOI; one for the line and one for the PIC.
pit_tick_handler_eoi_None ==
  /\ pc[Bsp] = "eoi" /\ Goto(Bsp, "on")
  /\ UNCHANGED <<TICKS, irr, isr, pending, service, taken>>
pit_tick_handler_eoi_Twice ==
  /\ pc[Bsp] = "eoi" /\ Goto(Bsp, "on")
  /\ isr' = isr \ {l \in isr : Cardinality({k \in isr : k < l}) < 2}
  /\ UNCHANGED <<TICKS, irr, pending, service, taken>>

pit_tick_handler_eoi ==
  /\ pc[Bsp] = "eoi" /\ Goto(Bsp, "on")
  /\ SendEoi
  /\ UNCHANGED <<TICKS, irr, pending, service, taken>>

\* ignore_irq_handler, which sends no EOI.
ignore_irq_handler ==
  /\ pc[Bsp] = "ignore_irq" /\ Goto(Bsp, "on")
  /\ UNCHANGED <<TICKS, irr, isr, pending, service, taken>>

\* Mutant: the shootdown handler forgets the EOI.
vector_handler_NoEoi(c) ==
  /\ pc[c] \in Vectors /\ Goto(c, "on")
  /\ service' = [service EXCEPT ![c] = @ \ {"clock_tick"}]
  /\ UNCHANGED <<TICKS, irr, isr, pending, taken>>

\* tlb_shootdown_handler and clock_tick_handler: both end with the EOI.
vector_handler(c) ==
  /\ pc[c] \in Vectors /\ Goto(c, "on")
  /\ service' = [service EXCEPT ![c] = {}]
  /\ UNCHANGED <<TICKS, irr, isr, pending, taken>>

\* shootdown, from code.
shootdown(c) ==
  /\ pc[c] \in {"on", "off"}
  /\ Send(c, "tlb_shootdown")
  /\ UNCHANGED <<pc, TICKS, irr, isr, service, taken>>

-----------------------------------------------------------------------------
TickStep == pit_tick_handler \/ pit_tick_handler_send \/ pit_tick_handler_eoi

Next ==
  \/ \E l \in Lines : Raise(l) \/ Deliver(l)
  \/ TickStep \/ ignore_irq_handler
  \/ \E c \in Cpus : Enable(c) \/ Disable(c) \/ vector_handler(c) \/ shootdown(c)
  \/ \E c \in Cpus, v \in Vectors : DeliverVector(c, v)

\* Handlers and closures of irq::without end.  A CPU takes an interrupt that is
\* pending before the next instruction with interrupts on, so that one which
\* can be delivered again and again is.
Spec ==
  Init /\ [][Next]_vars
  /\ WF_vars(TickStep) /\ WF_vars(ignore_irq_handler)
  /\ SF_vars(Deliver(0))
  /\ \A c \in Cpus :
       /\ WF_vars(Enable(c)) /\ WF_vars(vector_handler(c))
       /\ SF_vars(DeliverVector(c, "clock_tick"))

-----------------------------------------------------------------------------
\* A LAPIC has a vector in service just while its CPU is in the handler, and
\* the timer's line is in service just while the boot processor is in its:
\* no interrupt is left without an EOI but the ignored ones.
InService ==
  /\ \A c \in Cpus : service[c] = {pc[c]} \cap Vectors
  /\ 0 \in isr <=> pc[Bsp] \in {"pit_tick", "send", "eoi"}

\* A line that is ignored is never served again, and no less urgent one after
\* it: the EOI of a tick, which names no line, always ends the tick.
IgnoredOnce ==
  \A l \in Lines \ {0} :
    /\ taken[l] < 2
    /\ taken[l] > 0 => l \in isr

\* Still the timer ticks on: each time it is raised, it is served.
TicksGoOn == 0 \in irr ~> pc[Bsp] = "pit_tick"

\* And each tick reaches the other CPUs.
TickReachesAll ==
  \A c \in Others(Bsp) : pc[Bsp] = "pit_tick" ~> pc[c] = "clock_tick"
=============================================================================
