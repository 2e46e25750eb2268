------------------------- MODULE TlbShootdownProofs -------------------------
(***************************************************************************)
(* StaleCovered, for any number of CPUs, pages and entries.  It is not     *)
(* inductive alone: a CPU that sends while lapic::initialized is still     *)
(* false reaches nobody, and this is harmless only because no other CPU    *)
(* runs then (Alone).                                                      *)
(*                                                                         *)
(* The interrupt of a shootdown shares the LAPIC with the clock's, and the *)
(* CPU with the lines of the PIC: Interrupts is about how they take turns, *)
(* and the second part proves its InService and IgnoredOnce, for any       *)
(* number of CPUs and lines.  They are inductive together, with the types: *)
(* that the EOI of a tick ends the tick and not an ignored line needs      *)
(* InService, and InService alone does not say which lines are in service. *)
(***************************************************************************)
EXTENDS TlbShootdown, Integers, TLAPS

\* Until the LAPIC is initialised only the boot processor runs, and a CPU that
\* was not started is nowhere in the code.
Alone ==
  /\ ~initialized => \A c \in Cpus \ {Bsp} : phase[c] = "down"
  /\ \A c \in Cpus : phase[c] = "down" => pc[c] = "run"

IInv == TypeOK /\ Alone /\ StaleCovered

-----------------------------------------------------------------------------
\* The initial state: every cache is empty.
LEMMA InitOK == Init => IInv
<1> SUFFICES ASSUME Init PROVE IInv
  OBVIOUS
<1> USE DEF Init, Empty
<1>1. Idle \in Pages \X (Entries \cup {Absent})
  BY PagesAssumption DEF Idle
<1>2. TypeOK
  BY <1>1, Zenon DEF TypeOK
<1>3. Alone
  BY DEF Alone
<1>4. StaleCovered
  BY DEF StaleCovered, Stale
<1> QED
  BY <1>2, <1>3, <1>4 DEF IInv

\* Every step keeps the types.
LEMMA TypeStep == TypeOK /\ [Next]_vars => TypeOK'
<1> SUFFICES ASSUME TypeOK, [Next]_vars PROVE TypeOK'
  OBVIOUS
<1> USE DEF TypeOK, Goto, Empty
<1>1. CASE AcpiSetup
  BY <1>1 DEF AcpiSetup
<1>2. ASSUME NEW c \in Cpus, Boot(c) PROVE TypeOK'
  <2>1. CASE ApStart(c)
    BY <2>1 DEF ApStart
  <2>2. CASE ApEnable(c)
    BY <2>2 DEF ApEnable
  <2>3. CASE ApSetup(c)
    BY <2>3 DEF ApSetup
  <2> QED
    BY <1>2, <2>1, <2>2, <2>3 DEF Boot
<1>3. ASSUME NEW c \in Cpus, NEW p \in Pages, Access(c, p) PROVE TypeOK'
  BY <1>3 DEF Access
<1>4. ASSUME NEW c \in Cpus, NEW p \in Pages, Fault(c, p) PROVE TypeOK'
  BY <1>4 DEF Fault
<1>5. ASSUME NEW c \in Cpus, NEW p \in Pages, NEW entry \in Entries,
             Map(c, p, entry)
      PROVE  TypeOK'
  BY <1>5 DEF Map
<1>6. ASSUME NEW c \in Cpus, NEW p \in Pages, NEW entry \in Entries \cup {Absent},
             Change(c, p, entry)
      PROVE  TypeOK'
  BY <1>6 DEF Change
<1>7. ASSUME NEW c \in Cpus, Mask(c) \/ Unmask(c) PROVE TypeOK'
  <2>1. masked' \in [Cpus -> BOOLEAN]
    BY <1>7, Zenon DEF Mask, Unmask
  <2>2. UNCHANGED <<pte, tlb, initialized, phase, pc, job, irr, isr>>
    BY <1>7 DEF Mask, Unmask
  <2>. QED BY <2>1, <2>2
<1>8. ASSUME NEW c \in Cpus, Take(c) PROVE TypeOK'
  BY <1>8 DEF Take
<1>9. ASSUME NEW c \in Cpus, Write(c) PROVE TypeOK'
  BY <1>9 DEF Write
<1>10. ASSUME NEW c \in Cpus, ShootdownFlush(c) PROVE TypeOK'
  BY <1>10 DEF ShootdownFlush
<1>11. ASSUME NEW c \in Cpus, ShootdownSend(c) PROVE TypeOK'
  BY <1>11 DEF ShootdownSend
<1>12. ASSUME NEW c \in Cpus, HandleFault(c) PROVE TypeOK'
  <2>1. pte' \in [Pages -> Entries \cup {Absent}]
    <3>1. CASE UNCHANGED pte
      BY <3>1
    <3>2. CASE \E entry \in Entries : pte' = [pte EXCEPT ![job[c][1]] = entry]
      BY <3>2
    <3> QED
      BY <1>12, <3>1, <3>2 DEF HandleFault
  <2>2. PICK label \in {"flush", "run"} : pc' = [pc EXCEPT ![c] = label]
    BY <1>12 DEF HandleFault
  <2>3. pc[c] = "fault" /\ UNCHANGED <<tlb, initialized, phase, job, masked, irr, isr>>
    BY <1>12 DEF HandleFault
  <2> QED
    BY <2>1, <2>2, <2>3
<1>13. ASSUME NEW c \in Cpus, HandlerFlush(c) PROVE TypeOK'
  BY <1>13 DEF HandlerFlush
<1>14. ASSUME NEW c \in Cpus, HandlerEoi(c) PROVE TypeOK'
  BY <1>14 DEF HandlerEoi
<1>15. CASE UNCHANGED vars
  BY <1>15 DEF vars
<1> HIDE DEF TypeOK, Goto, Empty
<1> QED
  BY <1>1, <1>2, <1>3, <1>4, <1>5, <1>6, <1>7, <1>8, <1>9, <1>10, <1>11,
     <1>12, <1>13, <1>14, <1>15 DEF Next, Call, Step

\* Every step keeps the boot order.
LEMMA AloneStep == TypeOK /\ Alone /\ [Next]_vars => Alone'
<1> SUFFICES ASSUME TypeOK, Alone, [Next]_vars PROVE Alone'
  OBVIOUS
<1> USE DEF TypeOK, Alone, Goto
<1>1. CASE AcpiSetup
  BY <1>1 DEF AcpiSetup
<1>2. ASSUME NEW c \in Cpus, Boot(c) PROVE Alone'
  BY <1>2 DEF Boot, ApStart, ApEnable, ApSetup
<1>3. ASSUME NEW c \in Cpus, Call(c) PROVE Alone'
  BY <1>3 DEF Call, Access, Fault, Map, Change, Mask
<1>4. ASSUME NEW c \in Cpus, Step(c) PROVE Alone'
  <2>1. CASE Write(c) \/ ShootdownFlush(c)
    BY <2>1 DEF Write, ShootdownFlush
  <2>2. CASE ShootdownSend(c) \/ HandleFault(c)
    BY <2>2 DEF ShootdownSend, HandleFault
  <2>3. CASE HandlerFlush(c) \/ HandlerEoi(c)
    BY <2>3 DEF HandlerFlush, HandlerEoi
  <2>. QED BY <1>4, <2>1, <2>2, <2>3 DEF Step
<1>5. ASSUME NEW c \in Cpus, Unmask(c) \/ Take(c) PROVE Alone'
  BY <1>5 DEF Unmask, Take
<1>6. CASE UNCHANGED vars
  BY <1>6 DEF vars
<1> QED
  BY <1>1, <1>2, <1>3, <1>4, <1>5, <1>6 DEF Next

\* Every step keeps the stale entries covered.  A step can make an entry stale
\* only by writing the page table, and the writer is then at "flush"; it can
\* take a cover away only by flushing that cache, or by replacing it: sent is
\* pending, pending is in service.
LEMMA CoverStep == IInv /\ [Next]_vars => StaleCovered'
<1> SUFFICES ASSUME TypeOK, Alone, StaleCovered, [Next]_vars,
                    NEW x \in Cpus, NEW q \in Pages,
                    (phase[x] = "up" /\ Stale(x, q))'
             PROVE  (\/ WillFlush(x)
                     \/ \E d \in Cpus \ {x} : pc[d] \in {"flush", "send"})'
  BY DEF IInv, StaleCovered
<1> DEFINE Cover == \/ WillFlush(x)
                    \/ \E d \in Cpus \ {x} : pc[d] \in {"flush", "send"}
<1>0. phase[x] = "up" /\ Stale(x, q) => Cover
  BY DEF StaleCovered
<1> SUFFICES Cover'
  OBVIOUS
<1> USE DEF TypeOK, Goto, Empty, Stale, WillFlush
<1>1. CASE AcpiSetup
  BY <1>0, <1>1 DEF AcpiSetup
<1>2. ASSUME NEW c \in Cpus, Boot(c) PROVE Cover'
  BY <1>0, <1>2 DEF Boot, ApStart, ApEnable, ApSetup
<1>3. ASSUME NEW c \in Cpus, NEW p \in Pages, Access(c, p) PROVE Cover'
  BY <1>0, <1>3 DEF Access
<1>4. ASSUME NEW c \in Cpus, NEW p \in Pages, Fault(c, p) PROVE Cover'
  BY <1>0, <1>4 DEF Fault
<1>5. ASSUME NEW c \in Cpus, NEW p \in Pages, NEW entry \in Entries,
             Map(c, p, entry)
      PROVE  Cover'
  BY <1>0, <1>5 DEF Map
<1>6. ASSUME NEW c \in Cpus, NEW p \in Pages, NEW entry \in Entries \cup {Absent},
             Change(c, p, entry)
      PROVE  Cover'
  BY <1>0, <1>6 DEF Change
<1>7. ASSUME NEW c \in Cpus, Mask(c) \/ Unmask(c) PROVE Cover'
  BY <1>0, <1>7 DEF Mask, Unmask
<1>8. ASSUME NEW c \in Cpus, Take(c) PROVE Cover'
  BY <1>0, <1>8 DEF Take
<1>9. ASSUME NEW c \in Cpus, Write(c) PROVE Cover'
  BY <1>0, <1>9 DEF Write
<1>10. ASSUME NEW c \in Cpus, ShootdownFlush(c) PROVE Cover'
  BY <1>0, <1>10 DEF ShootdownFlush
<1>11. ASSUME NEW c \in Cpus, ShootdownSend(c) PROVE Cover'
  <2>1. CASE x = c
    BY <1>0, <1>11, <2>1 DEF ShootdownSend
  <2>2. CASE x # c
    <3>1. initialized
      BY <1>11, <2>2 DEF ShootdownSend, Alone
    <3> QED
      BY <1>11, <2>2, <3>1, Zenon DEF ShootdownSend, Listening
  <2> QED
    BY <2>1, <2>2
<1>12. ASSUME NEW c \in Cpus, HandleFault(c) PROVE Cover'
  BY <1>0, <1>12 DEF HandleFault
<1>13. ASSUME NEW c \in Cpus, HandlerFlush(c) PROVE Cover'
  BY <1>0, <1>13 DEF HandlerFlush
<1>14. ASSUME NEW c \in Cpus, HandlerEoi(c) PROVE Cover'
  BY <1>0, <1>14 DEF HandlerEoi
<1>15. CASE UNCHANGED vars
  BY <1>0, <1>15 DEF vars
<1> HIDE DEF Cover, TypeOK, Goto, Empty, Stale, WillFlush
<1> QED
  BY <1>1, <1>2, <1>3, <1>4, <1>5, <1>6, <1>7, <1>8, <1>9, <1>10, <1>11,
     <1>12, <1>13, <1>14, <1>15 DEF Next, Call, Step

\* The strengthened invariant holds of every behaviour.
LEMMA Inductive == Spec => []IInv
<1>1. IInv /\ [Next]_vars => IInv'
  BY TypeStep, AloneStep, CoverStep DEF IInv
<1> QED
  BY InitOK, <1>1, PTL DEF Spec

\* Type correctness of the shootdown model, whatever the number of CPUs.
THEOREM TypesHold == Spec => []TypeOK
  BY Inductive, PTL DEF IInv

\* No change of an entry by unmap or change_protection leaves a translation
\* behind that nothing will flush.
THEOREM StaleIsCovered == Spec => []StaleCovered
  BY Inductive, PTL DEF IInv

-----------------------------------------------------------------------------
(* The interrupts.                                                         *)

CONSTANTS Lines, Word
VARIABLES at, TICKS, raised, served, pending, service, taken

\* Interrupts, on the same CPUs.  Its pc, irr and isr have other names here.
Irq == INSTANCE Interrupts WITH pc <- at, irr <- raised, isr <- served

\* What Interrupts assumes of its constants.
Machine == Bsp \in Cpus /\ Lines \subseteq Nat /\ 0 \in Lines /\ Word \in Nat \ {0}

Places ==
  {"on", "off", "pit_tick", "send", "eoi", "ignore_irq"} \cup Irq!Vectors

IrqTypes ==
  /\ at \in [Cpus -> Places]
  /\ served \subseteq Lines
  /\ service \in [Cpus -> SUBSET Irq!Vectors]
  /\ taken \in [Lines -> 0 .. 2]

IrqIInv == IrqTypes /\ Irq!InService /\ Irq!IgnoredOnce

\* SendEoi: with the timer in service the most urgent line is the timer's.
LEMMA MinZero ==
  ASSUME NEW S \in SUBSET Nat, 0 \in S
  PROVE  Irq!Min(S) = 0
<1> DEFINE P(x) == x \in S /\ \A y \in S : x <= y
<1>1. P(0)  OBVIOUS
<1>2. \A x : P(x) => x = 0  OBVIOUS
<1>3. Irq!Min(S) = CHOOSE x \in S : \A y \in S : x <= y  BY DEF Irq!Min
<1>4. QED  BY <1>1, <1>2, <1>3

\* Interrupts are off and nothing is in service when the last loop is entered.
LEMMA IrqInitInv ==
  ASSUME Machine, Irq!Init
  PROVE  IrqIInv
BY SMT DEF Machine, Irq!Init, IrqIInv, IrqTypes, Places, Irq!Vectors, Irq!InService,
           Irq!IgnoredOnce

\* Enabling and disabling interrupts changes no handler.
LEMMA MaskInv ==
  ASSUME Machine, IrqIInv, NEW c \in Cpus, Irq!Enable(c) \/ Irq!Disable(c)
  PROVE  IrqIInv'
<1> USE DEF Machine
<1>1. PICK l \in {"on", "off"} : at' = [at EXCEPT ![c] = l]
  BY DEF Irq!Enable, Irq!Disable, Irq!Goto
<1>2. at[c] \in {"on", "off"} /\ UNCHANGED <<served, service, taken>>
  BY DEF Irq!Enable, Irq!Disable
<1>3. IrqTypes' /\ Irq!IgnoredOnce'
  BY <1>1, <1>2, SMT DEF IrqIInv, IrqTypes, Places, Irq!IgnoredOnce
<1>4. ASSUME NEW d \in Cpus  PROVE service'[d] = {at'[d]} \cap Irq!Vectors
  <2>1. CASE d = c
    BY <1>1, <1>2, <2>1, SMT DEF IrqIInv, IrqTypes, Irq!InService, Irq!Vectors
  <2>2. CASE d # c
    BY <1>1, <1>2, <2>2, SMT DEF IrqIInv, IrqTypes, Irq!InService
  <2>3. QED  BY <2>1, <2>2
<1>5. 0 \in served' <=> at'[Bsp] \in {"pit_tick", "send", "eoi"}
  BY <1>1, <1>2, SMT DEF IrqIInv, IrqTypes, Irq!InService
<1>6. QED  BY <1>3, <1>4, <1>5 DEF IrqIInv, Irq!InService

\* A line that is delivered was not in service.
LEMMA DeliverInv ==
  ASSUME Machine, IrqIInv, NEW l \in Lines, Irq!Deliver(l)
  PROVE  IrqIInv'
<1> USE DEF Machine
<1>1. IrqTypes'
  BY SMT DEF IrqIInv, IrqTypes, Places, Irq!Vectors, Irq!Deliver, Irq!Handler, Irq!Goto
<1>2. Irq!InService'
  BY SMT DEF IrqIInv, IrqTypes, Places, Irq!Vectors, Irq!InService, Irq!Deliver,
             Irq!Handler, Irq!Goto
<1>3. l \notin served
  BY SMT DEF Irq!Deliver
<1>4. Irq!IgnoredOnce'
  BY <1>3, SMT DEF IrqIInv, IrqTypes, Irq!IgnoredOnce, Irq!Deliver
<1>5. QED  BY <1>1, <1>2, <1>4 DEF IrqIInv

\* A LAPIC delivers a vector, or its handler ends.
LEMMA VectorInv ==
  ASSUME Machine, IrqIInv, NEW c \in Cpus,
         Irq!vector_handler(c) \/ \E v \in Irq!Vectors : Irq!DeliverVector(c, v)
  PROVE  IrqIInv'
<1> USE DEF Machine
<1>1. CASE Irq!vector_handler(c)
  BY <1>1, SMT DEF IrqIInv, IrqTypes, Places, Irq!Vectors, Irq!InService, Irq!IgnoredOnce,
                   Irq!vector_handler, Irq!Goto
<1>2. ASSUME NEW v \in Irq!Vectors, Irq!DeliverVector(c, v)  PROVE IrqIInv'
  <2>1. IrqTypes' /\ Irq!IgnoredOnce'
    BY <1>2, SMT DEF IrqIInv, IrqTypes, Places, Irq!IgnoredOnce, Irq!DeliverVector,
                     Irq!Goto
  <2>2. ASSUME NEW d \in Cpus  PROVE service'[d] = {at'[d]} \cap Irq!Vectors
    <3>1. CASE d = c
      BY <1>2, <3>1, SMT DEF IrqIInv, IrqTypes, Irq!DeliverVector, Irq!Goto
    <3>2. CASE d # c
      BY <1>2, <3>2, SMT DEF IrqIInv, IrqTypes, Irq!InService, Irq!DeliverVector, Irq!Goto
    <3>3. QED  BY <3>1, <3>2
  <2>3. 0 \in served' <=> at'[Bsp] \in {"pit_tick", "send", "eoi"}
    BY <1>2, SMT DEF IrqIInv, IrqTypes, Irq!InService, Irq!Vectors, Irq!DeliverVector,
                     Irq!Goto
  <2>4. QED  BY <2>1, <2>2, <2>3 DEF IrqIInv, Irq!InService
<1>3. QED  BY <1>1, <1>2

\* The handlers of the PIC's lines.
LEMMA LineInv ==
  ASSUME Machine, IrqIInv, Irq!TickStep \/ Irq!ignore_irq_handler
  PROVE  IrqIInv'
<1> USE DEF Machine
<1>1. CASE Irq!pit_tick_handler
  BY <1>1, SMT DEF IrqIInv, IrqTypes, Places, Irq!Vectors, Irq!InService, Irq!IgnoredOnce,
                   Irq!pit_tick_handler, Irq!Goto
<1>2. CASE Irq!pit_tick_handler_send
  BY <1>2, SMT DEF IrqIInv, IrqTypes, Places, Irq!Vectors, Irq!InService, Irq!IgnoredOnce,
                   Irq!pit_tick_handler_send, Irq!Goto
<1>3. CASE Irq!pit_tick_handler_eoi
  <2>1. 0 \in served /\ served \in SUBSET Nat
    BY <1>3, SMT DEF IrqIInv, IrqTypes, Irq!InService, Irq!pit_tick_handler_eoi
  <2>2. served' = served \ {0}
    BY <1>3, <2>1, MinZero DEF Irq!pit_tick_handler_eoi, Irq!SendEoi
  <2>3. QED
    BY <1>3, <2>2, SMT DEF IrqIInv, IrqTypes, Places, Irq!Vectors, Irq!InService,
                           Irq!IgnoredOnce,
                           Irq!pit_tick_handler_eoi, Irq!Goto
<1>4. CASE Irq!ignore_irq_handler
  BY <1>4, SMT DEF IrqIInv, IrqTypes, Places, Irq!Vectors, Irq!InService, Irq!IgnoredOnce,
                   Irq!ignore_irq_handler, Irq!Goto
<1>5. QED  BY <1>1, <1>2, <1>3, <1>4 DEF Irq!TickStep

\* What devices and senders do changes only what is pending.
LEMMA PendingInv ==
  ASSUME Machine, IrqIInv,
         UNCHANGED <<at, served, service, taken>>
  PROVE  IrqIInv'
BY DEF IrqIInv, IrqTypes, Irq!InService, Irq!IgnoredOnce

\* Every step keeps the invariant.
LEMMA IrqStepInv ==
  ASSUME Machine, IrqIInv, [Irq!Next]_(Irq!vars)
  PROVE  IrqIInv'
<1>1. CASE UNCHANGED Irq!vars
  BY <1>1, PendingInv DEF Irq!vars
<1>2. ASSUME NEW l \in Lines, Irq!Raise(l) \/ Irq!Deliver(l)  PROVE IrqIInv'
  BY <1>2, DeliverInv, PendingInv DEF Irq!Raise
<1>3. ASSUME NEW c \in Cpus,
             Irq!Enable(c) \/ Irq!Disable(c) \/ Irq!vector_handler(c) \/ Irq!shootdown(c)
      PROVE  IrqIInv'
  BY <1>3, MaskInv, VectorInv, PendingInv DEF Irq!shootdown
<1>4. ASSUME NEW c \in Cpus, NEW v \in Irq!Vectors, Irq!DeliverVector(c, v)
      PROVE  IrqIInv'
  BY <1>4, VectorInv
<1>5. QED  BY <1>1, <1>2, <1>3, <1>4, LineInv DEF Irq!Next

\* No interrupt is left without an EOI but the ignored ones, whatever comes when
\* on however many CPUs.
THEOREM ServiceHolds == ASSUME Machine PROVE Irq!Spec => []Irq!InService
<1>1. Irq!Init => IrqIInv  BY IrqInitInv
<1>2. IrqIInv /\ [Irq!Next]_(Irq!vars) => IrqIInv'  BY IrqStepInv
<1>3. IrqIInv => Irq!InService  BY DEF IrqIInv
<1>4. QED  BY <1>1, <1>2, <1>3, PTL DEF Irq!Spec

\* An ignored line is served once, and the EOI of a tick never ends another line.
THEOREM IgnoredHolds == ASSUME Machine PROVE Irq!Spec => []Irq!IgnoredOnce
<1>1. Irq!Init => IrqIInv  BY IrqInitInv
<1>2. IrqIInv /\ [Irq!Next]_(Irq!vars) => IrqIInv'  BY IrqStepInv
<1>3. IrqIInv => Irq!IgnoredOnce  BY DEF IrqIInv
<1>4. QED  BY <1>1, <1>2, <1>3, PTL DEF Irq!Spec
=============================================================================
