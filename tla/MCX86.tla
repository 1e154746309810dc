------------------------------- MODULE MCX86 -------------------------------
(****************************************************************************)
(* Four parts of the PC that share no state: an input device with its       *)
(* reader, the transmitter of the network card, NUMA allocation and the     *)
(* path of the interrupts.  unit says which of them a behaviour is about;   *)
(* the others stay in their initial states.                                 *)
(****************************************************************************)
EXTENDS Naturals

CONSTANTS
    SIZE, FIFO, MaxInput,                   \* X86Input
    DESCS, MaxFrames,                       \* Rtl8139
    NumNodes, Total, Distance, MaxSize, CAP, \* Numa
    Devices, Machines, BiosMasks            \* Interrupts

VARIABLES
    unit,
    kind, arrived, fifo, lineError, ring, rxHead, rxTail, initialized, boot,
    isr, thread, got, lost,
    tsdOwn, tsdLen, txCurrent, sending, txStep, cardNext, stopped, accepted, sent,
    free, policy, mask, current, nextNode, held, refused,
    machine, waits, phase, calls, pic_irq_mask, imr, picIrr, picIsr, high, recent, lint0,
    apic_enabled, cpu, vec, irq_no, driver

inputVars == <<kind, arrived, fifo, lineError, ring, rxHead, rxTail,
               initialized, boot, isr, thread, got, lost>>
netVars == <<tsdOwn, tsdLen, txCurrent, sending, txStep, cardNext,
             stopped, accepted, sent>>
numaVars == <<free, policy, mask, current, nextNode, held, refused>>
picVars == <<machine, waits, phase, calls, pic_irq_mask, imr, picIrr, picIsr, high,
             recent, lint0, apic_enabled, cpu, vec, irq_no, driver>>

ASSUME X86Assumption ==
    /\ SIZE \in Nat \ {0} /\ FIFO \in Nat /\ MaxInput \in Nat
    /\ DESCS \in Nat \ {0} /\ MaxFrames \in Nat
    /\ NumNodes \in Nat \ {0} /\ MaxSize \in Nat /\ CAP \in Nat
    /\ Total \in [0 .. NumNodes - 1 -> 0 .. CAP]
    /\ Distance \in [0 .. NumNodes - 1 -> [0 .. NumNodes - 1 -> 0 .. 255]]
    /\ Devices \subseteq 0 .. 15 /\ BiosMasks \subseteq SUBSET (0 .. 15)

\* Node 0 has two pages, the others one; nodes 0 and 2 do not reach each other.
MCTotal    == [n \in 0 .. NumNodes - 1 |-> IF n = 0 THEN 2 ELSE 1]
MCDistance == [n \in 0 .. NumNodes - 1 |-> [m \in 0 .. NumNodes - 1 |->
                   IF n = m THEN 10 ELSE IF 1 \in {n, m} THEN 20 ELSE 255]]

\* The BIOS leaves all lines masked, or those of the timer, the keyboard, the
\* cascade and the mouse open.
MCBiosMasks == {0 .. 15, 0 .. 15 \ {0, 1, 2, 12}}

Inp == INSTANCE X86Input
Net == INSTANCE Rtl8139
Mem == INSTANCE Numa
Irq == INSTANCE Interrupts WITH irr <- picIrr, isr <- picIsr

Units == {"input", "net", "numa", "irq"}

Init ==
    /\ unit \in Units
    /\ Inp!Init /\ Net!Init /\ Mem!Init /\ Irq!Init
    /\ unit # "input" => kind = "uart"
    /\ unit # "irq" => machine = "pic" /\ waits /\ imr = 0 .. 15

Next ==
    /\ unit' = unit
    /\ IF unit = "input" THEN Inp!Next ELSE UNCHANGED inputVars
    /\ IF unit = "net" THEN Net!Next ELSE UNCHANGED netVars
    /\ IF unit = "numa" THEN Mem!Next ELSE UNCHANGED numaVars
    /\ IF unit = "irq" THEN Irq!Next ELSE UNCHANGED picVars

\* Nothing but the processor and its boot is fair.
Fairness ==
    /\ WF_picVars(unit = "irq" /\ Irq!Booting)
    /\ WF_picVars(unit = "irq" /\ Irq!Processor)
    /\ WF_picVars(unit = "irq" /\ Irq!Quiet)

Spec == Init /\ [][Next]_<<unit, inputVars, netVars, numaVars, picVars>> /\ Fairness

\* The types of every part.
TypeOK == Inp!TypeOK /\ Net!TypeOK /\ Mem!TypeOK /\ Irq!TypeOK

\* What is read of the input comes in the order of arrival, none of it twice,
\* and what is not read is known to be lost.
InputInOrder == Inp!InputInOrder

\* The network card sends one frame for each accepted call, in their order.
FramesInOrder == Net!FramesInOrder

\* A NUMA request is refused for its counters only if the nodes are full.
RefusedWhenFull == Mem!RefusedWhenFull

\* Only enabled lines are in service, and only while a handler runs.
InService == Irq!InService

\* No request on an enabled line waits for ever.
RequestsServed == unit = "irq" => Irq!RequestsServed
=============================================================================
