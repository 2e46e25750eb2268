----------------------------- MODULE BootProofs -----------------------------
(***************************************************************************)
(* What EARLY promises, for any number of CPUs and any platform: per-cpu   *)
(* variables are there on every CPU when it is cleared (PerCpuReady); no   *)
(* CPU faults or is interrupted before the handler can work                *)
(* (HandlersReady).                                                        *)
(*                                                                         *)
(* The argument is the one of start_cpus: CPU_COUNT is one more than the   *)
(* number of other CPUs in their last loop (Counted), so that they are all *)
(* there when it is the number of CPUs.  The rest of the invariant says    *)
(* what a CPU has set up by the label it is at.                            *)
(*                                                                         *)
(* OwnTss is about the ids instead: the second part proves it for the      *)
(* platforms whose boot processor has id 0, with an invariant of its own   *)
(* on which slots of the GDT are filled, and by whom.                      *)
(***************************************************************************)
EXTENDS Boot, FiniteSetTheorems, TLAPS

Aps  == Cpus \ {Bsp}
Done == {c \in Aps : pc[c] = "idle"}

BspLabels == {"idt", "exception", "mm", "tls", "table", "tss", "lapic", "start",
              "wait", "late", "idle"}
ApLabels  == {"parked", "tls", "lapic", "tss", "table", "signal", "idle"}

Types ==
  /\ info \in Platforms
  /\ pc \in [Cpus -> BspLabels \cup ApLabels]
  /\ pc[Bsp] \in BspLabels
  /\ \A c \in Aps : pc[c] \in ApLabels
  /\ tls \in [Cpus -> Nat \cup {None}]
  /\ early \in BOOLEAN

\* What the boot processor has done.
BspSetUp ==
  /\ pc[Bsp] # "idt" => Bsp \in idt
  /\ pc[Bsp] \notin {"idt", "exception"} => "page fault" \in vectors
  /\ pc[Bsp] \notin {"idt", "exception", "mm", "tls"} => tls[Bsp] # None
  /\ pc[Bsp] \notin {"idt", "exception", "mm", "tls", "table"} => Bsp \in table
  /\ pc[Bsp] \in {"start", "wait", "late", "idle"} => Bsp \in lapic
  /\ released # {} => pc[Bsp] \in {"wait", "late", "idle"}
  /\ released \subseteq {c \in Cpus : info[c].lapic_id # 0}

\* What another CPU has done.
ApSetUp(c) ==
  /\ pc[c] # "parked" => c \in released /\ c \in idt
  /\ pc[c] \notin {"parked", "tls"} => tls[c] # None
  /\ pc[c] \notin {"parked", "tls", "lapic"} => c \in lapic
  /\ pc[c] \in {"signal", "idle"} => c \in table

Counted == count = 1 + Cardinality(Done)

\* What the boot processor concludes from CPU_COUNT.
Late ==
  /\ pc[Bsp] \in {"late", "idle"} => \A c \in Aps : pc[c] = "idle"
  /\ ~early => pc[Bsp] = "idle"

Local == Types /\ BspSetUp /\ (\A c \in Aps : ApSetUp(c)) /\ Late /\ HandlersReady
IInv  == Local /\ Counted

\* CPU_COUNT is the number of CPUs only when all the others are in their loop.
LEMMA AllDone ==
  ASSUME Counted, count = Cardinality(Cpus)
  PROVE  \A c \in Aps : pc[c] = "idle"
<1>1. IsFiniteSet(Aps) /\ Cardinality(Aps) = Cardinality(Cpus) - 1
  BY CpusAssumption, FS_RemoveElement DEF Aps
<1>2. Done \subseteq Aps
  BY DEF Done
<1>3. Cardinality(Aps) \in Nat /\ Cardinality(Cpus) \in Nat
  BY <1>1, CpusAssumption, FS_CardinalityType
<1>4. IsFiniteSet(Done)
  BY <1>1, <1>2, FS_Subset
<1>5. Cardinality(Done) \in Nat
  BY <1>4, FS_CardinalityType
<1>6. Cardinality(Done) = Cardinality(Aps)
  BY <1>1, <1>3, <1>5 DEF Counted
<1>7. Done = Aps
  BY <1>1, <1>2, <1>6, FS_Subset
<1>8. QED  BY <1>7 DEF Done

\* The kernel starts with the boot processor alone.
LEMMA InitInv == Init => IInv
<1> SUFFICES ASSUME Init  PROVE IInv
  OBVIOUS
<1>1. Local
  BY CpusAssumption
     DEF Init, Local, Types, BspLabels, ApLabels, Aps, BspSetUp, ApSetUp, Late,
         HandlersReady, None
<1>2. Done = {}
  BY CpusAssumption DEF Init, Done, Aps
<1>3. Counted
  BY <1>2, FS_EmptySet DEF Init, Counted
<1>4. QED  BY <1>1, <1>3 DEF IInv

\* Only a CPU that gets to its last loop changes the count.
LEMMA KeepsCount ==
  ASSUME Types, Counted, NEW c \in Cpus, NEW l,
         c = Bsp \/ (pc[c] # "idle" /\ l # "idle"),
         pc' = pc \/ pc' = [pc EXCEPT ![c] = l], count' = count
  PROVE  Counted'
<1>1. Done' = Done
  BY DEF Types, Done, Aps
<1>2. QED  BY <1>1 DEF Counted

\* A panic for a reason of its own changes nothing else.
LEMMA PanicLocal ==
  ASSUME Local, NEW why,
         why \in {"no processor 0", "slot out of bounds", "too many cores"},
         Panic(why)
  PROVE  Local'
BY Zenon DEF Local, Types, BspSetUp, ApSetUp, Late, HandlersReady, Panic

\* The processor_id that an AP stores is not None.
LEMMA IdType ==
  ASSUME Types, NEW c \in Cpus
  PROVE  info[c].processor_id \in Nat
BY PlatformAssumption DEF Types

\* The thread local storage of one CPU is set up.
LEMMA TlsSet ==
  ASSUME NEW c \in Cpus, NEW id \in Nat,
         tls \in [Cpus -> Nat \cup {None}], tls' = [tls EXCEPT ![c] = id]
  PROVE  /\ tls' \in [Cpus -> Nat \cup {None}]
         /\ tls'[c] # None
         /\ \A d \in Cpus \ {c} : tls'[d] = tls[d]
BY DEF None

\* A step of the boot processor keeps what is local to each CPU.
LEMMA BspLocal ==
  ASSUME IInv, BspStep
  PROVE  Local'
<1> USE CpusAssumption
<1> USE DEF IInv, Local, Types, BspLabels, ApLabels, Aps, BspSetUp, ApSetUp, Late,
            HandlersReady, None, At, Goto
<1>1. CASE IdtSetup  BY <1>1 DEF IdtSetup
<1>2. CASE ExceptionSetup  BY <1>2, Zenon DEF ExceptionSetup
<1>3. CASE MmSetup  BY <1>3, Zenon DEF MmSetup
<1>4. CASE BspSetup
  <2>1. CASE Panic("no processor 0")  BY <2>1, PanicLocal, Zenon
  <2>2. CASE ~Panic("no processor 0")
    <3>1. /\ tls' \in [Cpus -> Nat \cup {None}]
          /\ tls'[Bsp] # None /\ \A c \in Aps : tls'[c] = tls[c]
      <4>1. tls' = [tls EXCEPT ![Bsp] = 0]  BY <1>4, <2>2, Zenon DEF BspSetup
      <4>2. QED  BY <4>1, TlsSet, Zenon
    <3>2. pc' = [pc EXCEPT ![Bsp] = "table"] /\ pc[Bsp] = "tls"
      BY <1>4, <2>2, Zenon DEF BspSetup
    <3>3. UNCHANGED <<info, vectors, idt, released, table, lapic, early, halted>>
      BY <1>4, <2>2, Zenon DEF BspSetup
    <3>4. QED  BY <3>1, <3>2, <3>3, Zenon
  <2>3. QED  BY <2>1, <2>2, Zenon
<1>5. CASE TableSetup(Bsp, "tss")  BY <1>5, Zenon DEF TableSetup
<1>6. CASE Install(Bsp, 0, "lapic")
  <2>1. CASE Panic("slot out of bounds")  BY <2>1, PanicLocal, Zenon
  <2>2. CASE ~Panic("slot out of bounds")
    <3>1. pc' = [pc EXCEPT ![Bsp] = "lapic"] /\ pc[Bsp] = "tss"
      BY <1>6, <2>2, Zenon DEF Install
    <3>2. UNCHANGED <<info, vectors, idt, released, tls, table, lapic, early, halted>>
      BY <1>6, <2>2, Zenon DEF Install
    <3>3. QED  BY <3>1, <3>2, Zenon
  <2>3. QED  BY <2>1, <2>2, Zenon
<1>7. CASE LapicEnable(Bsp, "start")  BY <1>7, Zenon DEF LapicEnable
<1>8. CASE StartCpus
  <2>1. CASE Panic("too many cores")  BY <2>1, PanicLocal, Zenon
  <2>2. CASE ~Panic("too many cores")
    <3>1. pc' = [pc EXCEPT ![Bsp] = "wait"] /\ pc[Bsp] = "start"
      BY <1>8, <2>2, Zenon DEF StartCpus
    <3>2. UNCHANGED <<info, vectors, idt, tls, table, lapic, early, halted>>
      BY <1>8, <2>2, Zenon DEF StartCpus
    <3>3. released' = {c \in Cpus : info[c].lapic_id # 0}
      BY <1>8, <2>2, Zenon DEF StartCpus
    <3>4. pc'[Bsp] = "wait" /\ \A c \in Aps : pc'[c] = pc[c]
      BY <3>1, Zenon
    <3>5. Types'  BY <3>1, <3>2, <3>3, Zenon
    <3>6. BspSetUp'  BY <3>1, <3>2, <3>3, <3>4, Zenon
    <3>7. \A c \in Aps : ApSetUp(c)'  BY <3>2, <3>3, <3>4, Zenon
    <3>8. Late' /\ HandlersReady'  BY <3>1, <3>2, <3>4, Zenon
    <3>9. QED  BY <3>5, <3>6, <3>7, <3>8, Zenon
  <2>3. QED  BY <2>1, <2>2, Zenon
<1>9. CASE AllStarted
  <2>1. \A c \in Aps : pc[c] = "idle"
    BY <1>9, AllDone, Zenon DEF AllStarted
  <2>2. QED  BY <1>9, <2>1, Zenon DEF AllStarted
<1>10. CASE EndEarly  BY <1>10, Zenon DEF EndEarly
<1>11. QED
  BY <1>1, <1>2, <1>3, <1>4, <1>5, <1>6, <1>7, <1>8, <1>9, <1>10, Zenon DEF BspStep

\* A step of the boot processor keeps the count.
LEMMA BspCount ==
  ASSUME IInv, BspStep
  PROVE  Counted'
<1>1. /\ count' = count
      /\ \E l \in BspLabels : pc' = pc \/ pc' = [pc EXCEPT ![Bsp] = l]
  BY Zenon DEF BspStep, IdtSetup, ExceptionSetup, MmSetup, BspSetup, TableSetup, Install,
         LapicEnable, StartCpus, AllStarted, EndEarly, Panic, Goto, BspLabels
<1>2. QED  BY <1>1, KeepsCount, CpusAssumption DEF IInv, Local

\* A step of another CPU keeps what is local to each CPU.
LEMMA ApLocal ==
  ASSUME IInv, NEW c \in Aps, ApStep(c)
  PROVE  Local'
<1> USE CpusAssumption
<1> USE DEF IInv, Local, Types, BspLabels, ApLabels, Aps, BspSetUp, ApSetUp, Late,
            HandlersReady, None, At, Goto
<1>1. CASE ApStart(c)  BY <1>1, Zenon DEF ApStart
<1>2. CASE ApTls(c)
  <2>1. info[c].processor_id \in Nat  BY IdType, Zenon
  <2>2. /\ tls' \in [Cpus -> Nat \cup {None}]
        /\ tls'[c] # None /\ \A d \in Cpus \ {c} : tls'[d] = tls[d]
    <3>1. tls' = [tls EXCEPT ![c] = info[c].processor_id]  BY <1>2, Zenon DEF ApTls
    <3>2. QED  BY <2>1, <3>1, TlsSet, Zenon
  <2>3. pc' = [pc EXCEPT ![c] = "lapic"] /\ pc[c] = "tls"
    BY <1>2, Zenon DEF ApTls
  <2>4. UNCHANGED <<info, vectors, idt, released, table, lapic, early, halted>>
    BY <1>2, Zenon DEF ApTls
  <2>5. QED  BY <2>2, <2>3, <2>4, Zenon
<1>3. CASE LapicEnable(c, "tss")  BY <1>3, Zenon DEF LapicEnable
<1>4. CASE Install(c, info[c].processor_id, "table")
  <2>1. CASE Panic("slot out of bounds")  BY <2>1, PanicLocal, Zenon
  <2>2. CASE ~Panic("slot out of bounds")
    <3>1. pc' = [pc EXCEPT ![c] = "table"] /\ pc[c] = "tss"
      BY <1>4, <2>2, Zenon DEF Install
    <3>2. UNCHANGED <<info, vectors, idt, released, tls, table, lapic, early, halted>>
      BY <1>4, <2>2, Zenon DEF Install
    <3>3. QED  BY <3>1, <3>2, Zenon
  <2>3. QED  BY <2>1, <2>2, Zenon
<1>5. CASE TableSetup(c, "signal")  BY <1>5, Zenon DEF TableSetup
<1>6. CASE ApSignal(c)  BY <1>6, Zenon DEF ApSignal
<1>7. QED  BY <1>1, <1>2, <1>3, <1>4, <1>5, <1>6, Zenon DEF ApStep

\* A CPU is counted when it gets to its last loop, and only then.
LEMMA ApCount ==
  ASSUME IInv, NEW c \in Aps, ApStep(c)
  PROVE  Counted'
<1>1. CASE ApSignal(c)
  <2>1. Done' = Done \cup {c} /\ c \notin Done
    BY <1>1 DEF ApSignal, At, Goto, Done, Aps, IInv, Local, Types
  <2>2. IsFiniteSet(Done)
    BY CpusAssumption, FS_Subset DEF Done, Aps
  <2>3. Cardinality(Done') = Cardinality(Done) + 1 /\ Cardinality(Done) \in Nat
    BY <2>1, <2>2, FS_AddElement, FS_CardinalityType, Zenon
  <2>4. QED  BY <1>1, <2>3 DEF ApSignal, Counted, IInv
<1>2. CASE ~ApSignal(c)
  <2>1. /\ count' = count /\ pc[c] # "idle"
        /\ \E l \in ApLabels \ {"idle"} : pc' = pc \/ pc' = [pc EXCEPT ![c] = l]
    BY <1>2, Zenon DEF ApStep, ApStart, ApTls, LapicEnable, Install, TableSetup, Panic,
                At, Goto, ApLabels
  <2>2. QED  BY <2>1, KeepsCount DEF IInv, Local, Aps
<1>3. QED  BY <1>1, <1>2

\* A fault or an interrupt finds what its handler needs.
LEMMA TrapInv ==
  ASSUME IInv, NEW c \in Cpus, PageFault(c) \/ Interrupt(c)
  PROVE  UNCHANGED vars
<1> USE DEF IInv, Local, Types, BspLabels, ApLabels, Aps, BspSetUp, ApSetUp, Late, At
<1>1. CASE PageFault(c)
  <2>1. c \in idt /\ "page fault" \in vectors
    BY <1>1, Zenon DEF PageFault, Touches
  <2>2. early \/ tls[c] # None
    BY <1>1, Zenon
  <2>3. QED  BY <1>1, <2>1, <2>2, Zenon DEF PageFault
<1>2. CASE Interrupt(c)
  <2>1. c \in idt /\ c \in lapic
    BY <1>2, Zenon DEF Interrupt
  <2>2. QED  BY <1>2, <2>1, Zenon DEF Interrupt
<1>3. QED  BY <1>1, <1>2, Zenon

\* Nothing changes in a step that stutters.
LEMMA StutterInv ==
  ASSUME IInv, UNCHANGED vars
  PROVE  IInv'
BY Zenon DEF vars, IInv, Local, Types, BspSetUp, ApSetUp, Late, HandlersReady, Counted, Done

\* Every step keeps the invariant.
LEMMA StepInv == IInv /\ [Next]_vars => IInv'
<1> SUFFICES ASSUME IInv, [Next]_vars  PROVE IInv'
  OBVIOUS
<1>1. CASE UNCHANGED vars  BY <1>1, StutterInv
<1>2. CASE BspStep  BY <1>2, BspLocal, BspCount DEF IInv
<1>3. ASSUME NEW c \in Aps, ApStep(c)  PROVE IInv'
  BY <1>3, ApLocal, ApCount DEF IInv
<1>4. ASSUME NEW c \in Cpus, PageFault(c) \/ Interrupt(c)  PROVE IInv'
  BY <1>4, TrapInv, StutterInv
<1>5. QED  BY <1>1, <1>2, <1>3, <1>4 DEF Next, Halted, Aps

\* The invariant holds in every state.
LEMMA Invariant == Spec => []IInv
BY InitInv, StepInv, PTL DEF Spec

\* What EARLY promises: once it is cleared, every CPU has its thread local
\* storage and its ACTIVE_TABLE, on however many CPUs in whatever order.
THEOREM PerCpuHolds == Spec => []PerCpuReady
<1>1. IInv => PerCpuReady
  BY Zenon DEF IInv, Local, Types, BspSetUp, ApSetUp, Late, PerCpuReady, Aps
<1>2. QED  BY Invariant, <1>1, PTL

\* No CPU faults before the handler of the fault can work, and none takes an
\* interrupt before its LAPIC is on.
THEOREM HandlersHold == Spec => []HandlersReady
<1>1. IInv => HandlersReady  BY DEF IInv, Local
<1>2. QED  BY Invariant, <1>1, PTL

-----------------------------------------------------------------------------
(* The TSS of each CPU.  A slot is chosen by a processor_id, which is      *)
(* different on every CPU; the boot processor uses 0 without looking, and  *)
(* so has a slot of its own only where it is processor 0.                  *)

\* bsp_setup takes the entry with processor_id 0 for the boot processor's.
BspFirst == \A i \in Platforms : i[Bsp].processor_id = 0

TssTypes ==
  /\ info \in Platforms
  /\ pc \in [Cpus -> BspLabels \cup ApLabels]
  /\ tls \in [Cpus -> Nat \cup {None}]
  /\ tr \in [Cpus -> Nat \cup {None}]
  /\ gdt \in [Slots -> Cpus \cup {None}]

\* A CPU has its id before it has its TSS, and keeps both.
OwnSlot(c) ==
  /\ pc[c] \in {"parked", "idt", "exception", "mm", "tls"} => tr[c] = None
  /\ pc[c] \notin {"parked", "idt", "exception", "mm", "tls"} =>
       tls[c] = info[c].processor_id
  /\ tr[c] # None => /\ tr[c] \in Slots /\ gdt[tr[c]] = c
                     /\ tr[c] = info[c].processor_id /\ tls[c] = tr[c]

TssInv == TssTypes /\ \A c \in Cpus : OwnSlot(c)

\* The ids of two CPUs differ, and are no None.
LEMMA OwnIds ==
  ASSUME info \in Platforms
  PROVE  /\ \A c \in Cpus : info[c].processor_id \in Nat
         /\ \A c, d \in Cpus : c # d => info[c].processor_id # info[d].processor_id
BY PlatformAssumption

\* A step that touches neither ids nor TSSs, at a CPU past its id.
LEMMA TssKept ==
  ASSUME TssInv, NEW c \in Cpus, NEW l \in BspLabels \cup ApLabels,
         \/ l \in {"exception", "mm", "tls"} /\ tr[c] = None
         \/ l \notin {"parked", "idt", "exception", "mm", "tls"}
            /\ tls[c] = info[c].processor_id,
         pc' = [pc EXCEPT ![c] = l], UNCHANGED <<info, tls, gdt, tr>>
  PROVE  TssInv'
<1>1. TssTypes'  BY Zenon DEF TssInv, TssTypes
<1>2. ASSUME NEW d \in Cpus  PROVE OwnSlot(d)'
  <2>1. CASE d = c  BY <2>1, Zenon DEF TssInv, TssTypes, OwnSlot
  <2>2. CASE d # c
    <3>1. pc'[d] = pc[d]  BY <2>2, Zenon DEF TssInv, TssTypes
    <3>2. QED  BY <3>1, Zenon DEF TssInv, OwnSlot
  <2>3. QED  BY <2>1, <2>2, Zenon
<1>3. QED  BY <1>1, <1>2, Zenon DEF TssInv

\* A CPU gets its id.
LEMMA TssTls ==
  ASSUME TssInv, NEW c \in Cpus, NEW l \in {"table", "lapic"}, pc[c] = "tls",
         pc' = [pc EXCEPT ![c] = l], tls' = [tls EXCEPT ![c] = info[c].processor_id],
         UNCHANGED <<info, gdt, tr>>
  PROVE  TssInv'
<1>1. info[c].processor_id \in Nat  BY OwnIds, Zenon DEF TssInv, TssTypes
<1>2. tls' \in [Cpus -> Nat \cup {None}]  BY <1>1, TlsSet, Zenon DEF TssInv, TssTypes
<1>3. TssTypes'  BY <1>2, Zenon DEF TssInv, TssTypes, BspLabels, ApLabels
<1>4. ASSUME NEW d \in Cpus  PROVE OwnSlot(d)'
  <2>1. CASE d = c
    <3>1. pc'[c] = l /\ tls'[c] = info[c].processor_id /\ tr[c] = None
      BY Zenon DEF TssInv, TssTypes, OwnSlot
    <3>2. QED  BY <2>1, <3>1, Zenon DEF OwnSlot
  <2>2. CASE d # c
    <3>1. pc'[d] = pc[d] /\ tls'[d] = tls[d]  BY <2>2, Zenon DEF TssInv, TssTypes
    <3>2. QED  BY <3>1, Zenon DEF TssInv, OwnSlot
  <2>3. QED  BY <2>1, <2>2, Zenon
<1>5. QED  BY <1>3, <1>4, Zenon DEF TssInv

\* install puts a CPU into the slot of its id, which no other CPU uses.
LEMMA TssInstall ==
  ASSUME TssInv, NEW c \in Cpus, NEW l \in {"table", "lapic"},
         Install(c, info[c].processor_id, l)
  PROVE  TssInv'
<1>1. CASE Panic("slot out of bounds")
  BY <1>1, Zenon DEF Panic, TssInv, TssTypes, OwnSlot
<1>2. CASE ~Panic("slot out of bounds")
  <2> DEFINE id == info[c].processor_id
  <2>1. /\ id \in Slots /\ pc[c] = "tss" /\ pc' = [pc EXCEPT ![c] = l]
        /\ gdt' = [gdt EXCEPT ![id] = c] /\ tr' = [tr EXCEPT ![c] = id]
        /\ UNCHANGED <<info, tls>>
    BY <1>2, Zenon DEF Install, At, Goto
  <2>2. id \in Nat /\ \A d \in Cpus : d # c => info[d].processor_id # id
    BY OwnIds, Zenon DEF TssInv, TssTypes
  <2> HIDE DEF id
  <2>3. tr'[c] = id /\ pc'[c] = l /\ gdt'[id] = c
    BY <2>1, Zenon DEF TssInv, TssTypes
  <2>4. TssTypes'
    <3>1. tr' \in [Cpus -> Nat \cup {None}]  BY <2>1, <2>2, Zenon DEF TssInv, TssTypes
    <3>2. gdt' \in [Slots -> Cpus \cup {None}]  BY <2>1, Zenon DEF TssInv, TssTypes
    <3>3. pc' \in [Cpus -> BspLabels \cup ApLabels]
      BY <2>1, Zenon DEF TssInv, TssTypes, BspLabels, ApLabels
    <3>4. QED  BY <2>1, <3>1, <3>2, <3>3, Zenon DEF TssInv, TssTypes
  <2>5. ASSUME NEW d \in Cpus  PROVE OwnSlot(d)'
    <3>1. CASE d = c
      <4>1. tls[c] = id  BY <2>1, Zenon DEF TssInv, OwnSlot, id
      <4>2. QED  BY <2>1, <2>3, <3>1, <4>1, Zenon DEF OwnSlot, id
    <3>2. CASE d # c
      <4>1. pc'[d] = pc[d] /\ tr'[d] = tr[d]
        BY <2>1, <3>2, Zenon DEF TssInv, TssTypes
      <4>2. tr[d] # None => gdt'[tr[d]] = gdt[tr[d]]
        <5> SUFFICES ASSUME tr[d] # None  PROVE gdt'[tr[d]] = gdt[tr[d]]
          OBVIOUS
        <5>1. tr[d] \in Slots /\ tr[d] = info[d].processor_id
          BY Zenon DEF TssInv, OwnSlot
        <5>2. tr[d] # id  BY <2>2, <3>2, <5>1, Zenon
        <5>3. QED  BY <2>1, <5>1, <5>2, Zenon DEF TssInv, TssTypes
      <4>3. QED  BY <2>1, <4>1, <4>2, Zenon DEF TssInv, OwnSlot
    <3>3. QED  BY <3>1, <3>2, Zenon
  <2>6. QED  BY <2>4, <2>5, Zenon DEF TssInv
<1>3. QED  BY <1>1, <1>2, Zenon

\* The other steps of a CPU leave ids and TSSs alone.
LEMMA TssRest ==
  ASSUME TssInv, NEW c \in Cpus, NEW l,
         \/ TableSetup(c, l) /\ l \in {"tss", "signal"}
         \/ LapicEnable(c, l) /\ l \in {"start", "tss"}
         \/ c # Bsp /\ l = "tls" /\ ApStart(c)
         \/ c # Bsp /\ l = "idle" /\ ApSignal(c)
  PROVE  TssInv'
<1>1. /\ pc' = [pc EXCEPT ![c] = l] /\ UNCHANGED <<info, tls, gdt, tr>>
      /\ \/ pc[c] = "parked" /\ l = "tls"
         \/ /\ pc[c] \in {"table", "lapic", "signal"}
            /\ l \in {"tss", "signal", "start", "idle"}
  BY Zenon DEF TableSetup, LapicEnable, ApStart, ApSignal, At, Goto
<1>2. /\ l \in BspLabels \cup ApLabels
      /\ \/ l \in {"exception", "mm", "tls"} /\ tr[c] = None
         \/ l \notin {"parked", "idt", "exception", "mm", "tls"}
            /\ tls[c] = info[c].processor_id
  BY <1>1, Zenon DEF TssInv, OwnSlot, BspLabels, ApLabels
<1>3. QED  BY <1>1, <1>2, TssKept, Zenon

\* Neither do those of the boot processor, which is processor 0.
LEMMA TssBsp ==
  ASSUME BspFirst, TssInv, BspStep
  PROVE  TssInv'
<1>0. Bsp \in Cpus /\ info[Bsp].processor_id = 0
  BY CpusAssumption, Zenon DEF BspFirst, TssInv, TssTypes
<1>1. CASE BspSetup
  <2>1. CASE Panic("no processor 0")
    BY <2>1, Zenon DEF Panic, TssInv, TssTypes, OwnSlot
  <2>2. CASE ~Panic("no processor 0")
    <3>1. /\ pc[Bsp] = "tls" /\ pc' = [pc EXCEPT ![Bsp] = "table"]
          /\ tls' = [tls EXCEPT ![Bsp] = info[Bsp].processor_id]
          /\ UNCHANGED <<info, gdt, tr>>
      BY <1>0, <1>1, <2>2, Zenon DEF BspSetup, At, Goto
    <3>2. QED  BY <1>0, <3>1, TssTls, Zenon
  <2>3. QED  BY <2>1, <2>2, Zenon
<1>2. CASE Install(Bsp, 0, "lapic")  BY <1>0, <1>2, TssInstall, Zenon
<1>3. CASE TableSetup(Bsp, "tss") \/ LapicEnable(Bsp, "start")
  BY <1>0, <1>3, TssRest, Zenon
<1>4. CASE IdtSetup \/ ExceptionSetup \/ MmSetup
  <2>1. PICK l \in {"exception", "mm", "tls"} :
          /\ pc' = [pc EXCEPT ![Bsp] = l] /\ UNCHANGED <<info, tls, gdt, tr>>
          /\ pc[Bsp] \in {"idt", "exception", "mm"}
    BY <1>4, Zenon DEF IdtSetup, ExceptionSetup, MmSetup, At, Goto
  <2>2. l \in BspLabels \cup ApLabels /\ tr[Bsp] = None
    BY <1>0, <2>1, Zenon DEF TssInv, OwnSlot, BspLabels, ApLabels
  <2>3. QED  BY <1>0, <2>1, <2>2, TssKept, Zenon
<1>5. CASE StartCpus \/ AllStarted \/ EndEarly
  <2>1. CASE Panic("too many cores")
    BY <2>1, Zenon DEF Panic, TssInv, TssTypes, OwnSlot
  <2>2. CASE ~Panic("too many cores")
    <3>1. PICK l \in {"wait", "late", "idle"} :
            /\ pc' = [pc EXCEPT ![Bsp] = l] /\ UNCHANGED <<info, tls, gdt, tr>>
            /\ pc[Bsp] \in {"start", "wait", "late"}
      BY <1>5, <2>2, Zenon DEF StartCpus, AllStarted, EndEarly, At, Goto
    <3>2. l \in BspLabels \cup ApLabels /\ tls[Bsp] = info[Bsp].processor_id
      BY <1>0, <3>1, Zenon DEF TssInv, OwnSlot, BspLabels, ApLabels
    <3>3. QED  BY <1>0, <3>1, <3>2, TssKept, Zenon
  <2>3. QED  BY <2>1, <2>2, Zenon
<1>6. QED  BY <1>1, <1>2, <1>3, <1>4, <1>5, Zenon DEF BspStep

\* Nor those of another CPU, with its own processor_id.
LEMMA TssAp ==
  ASSUME TssInv, NEW c \in Aps, ApStep(c)
  PROVE  TssInv'
<1>1. CASE ApTls(c)
  <2>1. /\ pc[c] = "tls" /\ pc' = [pc EXCEPT ![c] = "lapic"]
        /\ tls' = [tls EXCEPT ![c] = info[c].processor_id]
        /\ UNCHANGED <<info, gdt, tr>>
    BY <1>1, Zenon DEF ApTls, At, Goto
  <2>2. QED  BY <2>1, TssTls, Zenon DEF Aps
<1>2. CASE Install(c, info[c].processor_id, "table")
  BY <1>2, TssInstall, Zenon DEF Aps
<1>3. CASE ApStart(c) \/ ApSignal(c) \/ LapicEnable(c, "tss") \/ TableSetup(c, "signal")
  BY <1>3, TssRest, Zenon DEF Aps
<1>4. QED  BY <1>1, <1>2, <1>3, Zenon DEF ApStep

\* Every CPU has its own id and its own TSS, and the GDT keeps the TSS a CPU has
\* loaded, on every platform whose boot processor is processor 0.
THEOREM TssHolds ==
  ASSUME BspFirst
  PROVE  Spec => []OwnTss
<1>1. Init => TssInv
  <2> SUFFICES ASSUME Init  PROVE TssInv
    OBVIOUS
  <2>1. TssTypes  BY Zenon DEF Init, TssTypes, BspLabels, ApLabels
  <2>2. \A c \in Cpus : pc[c] \in {"idt", "parked"} /\ tr[c] = None
    BY Zenon DEF Init
  <2>3. QED  BY <2>1, <2>2, Zenon DEF TssInv, OwnSlot
<1>2. TssInv /\ [Next]_vars => TssInv'
  <2> SUFFICES ASSUME TssInv, [Next]_vars  PROVE TssInv'
    OBVIOUS
  <2>1. CASE UNCHANGED vars
    BY <2>1, Zenon DEF vars, TssInv, TssTypes, OwnSlot
  <2>2. CASE BspStep  BY <2>2, TssBsp, Zenon
  <2>3. ASSUME NEW c \in Aps, ApStep(c)  PROVE TssInv'  BY <2>3, TssAp, Zenon
  <2>4. ASSUME NEW c \in Cpus, PageFault(c) \/ Interrupt(c)  PROVE TssInv'
    BY <2>4, Zenon DEF PageFault, Interrupt, Panic, vars, TssInv, TssTypes, OwnSlot
  <2>5. QED  BY <2>1, <2>2, <2>3, <2>4, Zenon DEF Next, Halted, Aps
<1>3. TssInv => OwnTss  BY Zenon DEF TssInv, OwnSlot, OwnTss
<1>4. QED  BY <1>1, <1>2, <1>3, PTL DEF Spec
=============================================================================
