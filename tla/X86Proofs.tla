----------------------------- MODULE X86Proofs -----------------------------
(****************************************************************************)
(* The safety of the PC's parts (MCX86), for every value of their           *)
(* constants: an inductive invariant for each part, then for all of them.   *)
(****************************************************************************)
EXTENDS MCX86, Integers, Sequences, FiniteSetTheorems, WellFoundedInduction, TLAPS

----------------------------------------------------------------------------
(* The interrupts *)

\* What clock_init has unmasked: its seventh call is the first for a line of
\* the slave, and from then on both masks are the driver's.
MaskInv ==
    /\ Irq!Lines \ pic_irq_mask \subseteq Irq!Enabled \cup {Irq!Cascade}
    /\ calls >= 7 => imr = pic_irq_mask
    /\ phase = "tasks" => calls = 8
    /\ phase = "tasks" <=> cpu # "boot"

\* At most one line of each 8259 is in service, and which of them when.
OneEach == \A a, b \in picIsr : (a \in Irq!Slave <=> b \in Irq!Slave) => a = b
ServiceInv ==
    /\ picIsr \subseteq Irq!Enabled \cup {Irq!Cascade}
    /\ cpu = "boot" => picIsr = {}
    /\ ~apic_enabled =>
        /\ cpu \in {"run", "inta", "iret"} => picIsr = {}
        /\ cpu \in {"irq", "eoiSlave", "eoiMaster"} => OneEach
        /\ cpu = "eoiMaster" => picIsr \cap Irq!Slave = {}

IrqInv == Irq!TypeOK /\ MaskInv /\ ServiceInv

\* The calls of pic_enable_irq.
LEMMA EnableCalls ==
    /\ Len(Irq!EnableOrder) = 8
    /\ \A k \in 1 .. 8 : Irq!EnableOrder[k] \in Irq!Enabled
    /\ \A k \in 7 .. 8 : Irq!EnableOrder[k] \in Irq!Slave
    /\ Irq!Enabled \subseteq Irq!Lines
<1>1. Len(Irq!EnableOrder) = 8
  BY DEF Irq!EnableOrder
<1>2. \A k \in 1 .. 8 : Irq!EnableOrder[k] \in {0, 1, 3, 4, 5, 6, 8, 11}
  BY DEF Irq!EnableOrder
<1>3. Irq!Enabled = {Irq!EnableOrder[k] : k \in 1 .. 8}
  BY DEF Irq!Enabled, Irq!ToSet, Irq!EnableOrder
<1>4. \A k \in 7 .. 8 : Irq!EnableOrder[k] \in Irq!Slave
  BY DEF Irq!EnableOrder, Irq!Slave
<1> QED BY <1>1, <1>2, <1>3, <1>4 DEF Irq!Lines

\* There is a line of the highest rank among those that pass.
LEMMA HighestExists ==
    ASSUME NEW S \in SUBSET Irq!Lines, S # {}
    PROVE  Irq!Highest(S) \in S
<1>1. \A l \in Irq!Lines : Irq!Rank(l) \in Nat
  BY DEF Irq!Lines, Irq!Rank, Irq!Slave, Irq!Cascade
<1> DEFINE R == {Irq!Rank(l) : l \in S}
<1>2. PICK r \in R : \A q \in R : <<q, r>> \notin OpToRel(<, Nat)
  <2>1. R \subseteq Nat /\ R # {}
    BY <1>1
  <2> QED BY <2>1, NatLessThanWellFounded, WFMin
<1>3. PICK l \in S : r = Irq!Rank(l)
  BY <1>2
<1>4. ASSUME NEW k \in S PROVE Irq!Rank(l) <= Irq!Rank(k)
  <2>1. ~(Irq!Rank(k) < Irq!Rank(l)) /\ Irq!Rank(k) \in Nat /\ Irq!Rank(l) \in Nat
    BY <1>1, <1>2, <1>3 DEF OpToRel
  <2> QED BY <2>1
<1> QED BY <1>4 DEF Irq!Highest

\* An end of interrupt takes the one line in service of its 8259 away.
LEMMA EndsTheOne ==
    ASSUME OneEach, picIsr \subseteq Irq!Lines, NEW S, S = Irq!Slave \/ S = Irq!Lines \ Irq!Slave
    PROVE  Irq!Ended(S) = picIsr \ S
<1>1. CASE picIsr \cap S = {}
  BY <1>1 DEF Irq!Ended
<1>2. CASE picIsr \cap S # {}
  <2>1. Irq!Highest(picIsr \cap S) \in picIsr \cap S
    BY <1>2, HighestExists
  <2>2. \A a \in picIsr \cap S : a = Irq!Highest(picIsr \cap S)
    BY <2>1 DEF OneEach
  <2> QED BY <1>2, <2>1, <2>2 DEF Irq!Ended
<1> QED BY <1>1, <1>2

\* At power-on, whatever the BIOS left unmasked.
LEMMA IrqInit == ASSUME Irq!Init PROVE IrqInv
<1>1. \A m \in BiosMasks : m \subseteq Irq!Lines
  BY X86Assumption DEF Irq!Lines
<1>2. 0 \in 0 .. Len(Irq!EnableOrder) /\ 0 \in Irq!Lines
  BY EnableCalls DEF Irq!Lines
<1>4. Irq!TypeOK
  BY <1>1, <1>2 DEF Irq!Init, Irq!TypeOK
<1>3. MaskInv /\ ServiceInv
  BY DEF Irq!Init, MaskInv, ServiceInv
<1> QED BY <1>3, <1>4 DEF IrqInv

\* What comes before the tasks: nothing is in service yet.
LEMMA BootKeeps == ASSUME IrqInv, Irq!Booting PROVE IrqInv'
<1> USE DEF IrqInv, Irq!picVars, Irq!lineVars, Irq!cpuVars
<1>1. CASE Irq!pic_init \/ Irq!ApicSetup \/ Irq!floppy_init \/ Irq!floppy_wait_irq
  <2>1. /\ phase \in {"pic", "apic", "floppy", "wait"}
        /\ phase' \in {"apic", "floppy", "wait", "enable"}
        /\ UNCHANGED <<machine, waits, calls, pic_irq_mask, imr, recent, cpu, vec, irq_no, driver>>
        /\ picIsr' \subseteq picIsr
        /\ picIrr' \subseteq picIrr \cup Devices /\ high' \subseteq high \cup Devices
        /\ lint0' \in {lint0, "masked", "extint"} /\ apic_enabled' \in BOOLEAN
    BY <1>1 DEF Irq!pic_init, Irq!ApicSetup, Irq!floppy_init, Irq!floppy_wait_irq,
       Irq!Lint0After, Irq!EnabledAfter, Irq!TypeOK
  <2>2. cpu = "boot" /\ picIsr' = {}
    BY <2>1 DEF MaskInv, ServiceInv
  <2> QED BY <2>1, <2>2 DEF Irq!TypeOK, MaskInv, ServiceInv
<1>2. CASE Irq!pic_enable_irq
  <2> DEFINE line == Irq!EnableOrder[calls + 1]
  <2>1. /\ phase = "enable" /\ calls \in 0 .. 7 /\ calls' = calls + 1
        /\ pic_irq_mask' =
               pic_irq_mask \ ({line} \cup (IF line \in Irq!Slave THEN {Irq!Cascade} ELSE {}))
        /\ imr' = IF line \in Irq!Slave THEN pic_irq_mask'
                  ELSE (imr \cap Irq!Slave) \cup (pic_irq_mask' \ Irq!Slave)
        /\ UNCHANGED <<machine, waits, phase, picIrr, picIsr, high, recent, lint0, apic_enabled,
                       cpu, vec, irq_no, driver>>
    BY <1>2, EnableCalls DEF Irq!pic_enable_irq, Irq!TypeOK
  <2>2. line \in Irq!Enabled /\ line \in Irq!Lines /\ (calls' >= 7 => line \in Irq!Slave)
    BY <2>1, EnableCalls
  <2> HIDE DEF line
  <2>3. Irq!TypeOK'
    BY <2>1, EnableCalls DEF Irq!TypeOK
  <2>4. MaskInv'
    BY <2>1, <2>2 DEF MaskInv
  <2>5. ServiceInv'
    BY <2>1 DEF ServiceInv, OneEach
  <2> QED BY <2>3, <2>4, <2>5
<1>3. CASE Irq!enable_interrupts
  <2>1. picIsr = {} /\ calls = 8
    BY <1>3, EnableCalls DEF Irq!enable_interrupts, MaskInv, ServiceInv
  <2> QED BY <1>3, <2>1 DEF Irq!enable_interrupts, Irq!TypeOK, MaskInv, ServiceInv
<1> QED BY <1>1, <1>2, <1>3 DEF Irq!Booting

\* Devices raise and withdraw requests as they like.
LEMMA DeviceKeeps ==
    ASSUME IrqInv, Irq!Quiet \/ \E l \in Devices : Irq!Raise(l) \/ Irq!Withdraw(l)
    PROVE  IrqInv'
<1>1. /\ UNCHANGED <<machine, waits, phase, calls, pic_irq_mask, imr, picIsr, lint0, apic_enabled,
                     cpu, vec, irq_no, driver>>
      /\ picIrr' \subseteq picIrr \cup Devices /\ high' \subseteq high \cup Devices
      /\ recent' \subseteq recent \cup Devices
  BY DEF Irq!Quiet, Irq!Raise, Irq!Withdraw, Irq!bootVars, Irq!picVars, Irq!cpuVars, Irq!lineVars
<1>2. Irq!TypeOK'
  BY <1>1 DEF IrqInv, Irq!TypeOK
<1> QED BY <1>1, <1>2 DEF IrqInv, MaskInv, ServiceInv, OneEach

\* The processor: from acceptance to iret one line of each 8259 at most, and two
\* ends of interrupt end them, although irq_handler does not know the line.
LEMMA ProcessorKeeps ==
    ASSUME IrqInv, Irq!Processor PROVE IrqInv'
<1> USE DEF IrqInv, Irq!bootVars, Irq!picVars, Irq!lineVars
<1>0. phase = "tasks" /\ calls = 8 /\ imr = pic_irq_mask
  BY DEF Irq!Processor, Irq!Accept, Irq!Acknowledge, Irq!irq_handler, Irq!EoiSlave,
     Irq!EoiMaster, Irq!Iret, MaskInv
<1>i. picIsr \subseteq Irq!Lines
  BY EnableCalls DEF ServiceInv, Irq!Lines, Irq!Cascade
<1>1. CASE Irq!Accept
  BY <1>1 DEF Irq!Accept, Irq!TypeOK, MaskInv, ServiceInv
<1>2. CASE Irq!Acknowledge
  <2>1. /\ cpu = "inta" /\ cpu' = "irq"
        /\ UNCHANGED <<machine, waits, phase, calls, pic_irq_mask, imr, high, recent, lint0,
                       apic_enabled, irq_no, driver>>
    BY <1>2 DEF Irq!Acknowledge
  <2>2. MaskInv'
    BY <2>1 DEF MaskInv
  <2>3. CASE Irq!Passing # {}
    <3>1. Irq!Passing \in SUBSET Irq!Lines
      BY X86Assumption DEF Irq!Passing, Irq!TypeOK, Irq!Lines
    <3>2. PICK l \in Irq!Passing : /\ vec' = l /\ picIrr' = picIrr \ {l}
              /\ picIsr' = picIsr \cup {l} \cup (IF l \in Irq!Slave THEN {Irq!Cascade} ELSE {})
      BY <1>2, <2>3, <3>1, HighestExists DEF Irq!Acknowledge
    <3>3. l \in Irq!Lines /\ l \in Devices /\ l \in Irq!Enabled \cup {Irq!Cascade}
      BY <1>0, <3>1 DEF Irq!Passing, Irq!Passes, Irq!TypeOK, MaskInv
    <3>4. Irq!TypeOK'
      BY <2>1, <3>2, <3>3 DEF Irq!TypeOK, Irq!Numbers
    <3>5. ServiceInv'
      <4>1. ~apic_enabled => picIsr = {}
        BY <2>1 DEF ServiceInv
      <4>2. Irq!Cascade \notin Irq!Slave
        BY DEF Irq!Cascade, Irq!Slave
      <4> QED BY <2>1, <3>2, <3>3, <4>1, <4>2 DEF ServiceInv, OneEach
    <3> QED BY <2>2, <3>4, <3>5
  <2>4. CASE Irq!Passing = {}
    <3>1. /\ vec' \in {7, 15} /\ picIrr' = picIrr
          /\ picIsr' = picIsr \/ picIsr' = picIsr \cup {Irq!Cascade}
      BY <1>2, <2>4 DEF Irq!Acknowledge
    <3>2. Irq!TypeOK'
      BY <2>1, <3>1 DEF Irq!TypeOK, Irq!Numbers, Irq!Lines
    <3>3. ServiceInv'
      <4>1. ~apic_enabled => picIsr = {}
        BY <2>1 DEF ServiceInv
      <4> QED BY <2>1, <3>1, <4>1 DEF ServiceInv, OneEach
    <3> QED BY <2>2, <3>2, <3>3
  <2> QED BY <2>3, <2>4
<1>3. CASE Irq!irq_handler
  <2>1. /\ cpu = "irq" /\ irq_no' \in {16, 65552} /\ driver' = 16
        /\ cpu' = IF apic_enabled THEN "iret" ELSE "eoiSlave"
        /\ high' \subseteq high
        /\ UNCHANGED <<machine, waits, phase, calls, pic_irq_mask, imr, picIrr, picIsr, recent,
                       lint0, apic_enabled, vec>>
    BY <1>3 DEF Irq!irq_handler, Irq!Numbers, Irq!Drivers
  <2>2. Irq!TypeOK'
    BY <2>1 DEF Irq!TypeOK, Irq!Numbers
  <2> QED BY <2>1, <2>2 DEF MaskInv, ServiceInv, OneEach
<1>4. CASE Irq!EoiSlave
  <2>1. /\ cpu = "eoiSlave" /\ cpu' = "eoiMaster" /\ picIsr' = Irq!Ended(Irq!Slave)
        /\ UNCHANGED <<machine, waits, phase, calls, pic_irq_mask, imr, picIrr, high, recent,
                       lint0, apic_enabled, vec, irq_no, driver>>
    BY <1>4 DEF Irq!EoiSlave
  <2>2. picIsr' \subseteq picIsr
    BY <2>1 DEF Irq!Ended
  <2>3. ~apic_enabled => picIsr' = picIsr \ Irq!Slave
    BY <1>i, <2>1, EndsTheOne DEF ServiceInv
  <2>4. Irq!TypeOK'
    BY <2>1, <2>2 DEF Irq!TypeOK, Irq!Numbers
  <2> QED BY <2>1, <2>2, <2>3, <2>4 DEF MaskInv, ServiceInv, OneEach
<1>5. CASE Irq!EoiMaster
  <2>1. /\ cpu = "eoiMaster" /\ cpu' = "iret" /\ picIsr' = Irq!Ended(Irq!Lines \ Irq!Slave)
        /\ UNCHANGED <<machine, waits, phase, calls, pic_irq_mask, imr, picIrr, high, recent,
                       lint0, apic_enabled, vec, irq_no, driver>>
    BY <1>5 DEF Irq!EoiMaster
  <2>2. picIsr' \subseteq picIsr
    BY <2>1 DEF Irq!Ended
  <2>3. ASSUME ~apic_enabled PROVE picIsr' = {}
    <3>1. OneEach /\ picIsr \cap Irq!Slave = {}
      BY <2>1, <2>3 DEF ServiceInv
    <3>2. picIsr' = picIsr \ (Irq!Lines \ Irq!Slave)
      BY <1>i, <2>1, <3>1, EndsTheOne
    <3> QED BY <1>i, <3>1, <3>2
  <2>4. Irq!TypeOK'
    <3> HIDE DEF Irq!bootVars, Irq!picVars, Irq!lineVars
    <3> QED BY <2>1, <2>2 DEF Irq!TypeOK
  <2> QED BY <2>1, <2>2, <2>3, <2>4 DEF MaskInv, ServiceInv, OneEach
<1>6. CASE Irq!Iret
  BY <1>6 DEF Irq!Iret, Irq!TypeOK, MaskInv, ServiceInv
<1> QED BY <1>1, <1>2, <1>3, <1>4, <1>5, <1>6 DEF Irq!Processor

\* Whoever steps.
LEMMA IrqKeeps == ASSUME IrqInv, Irq!Next \/ UNCHANGED picVars PROVE IrqInv'
<1>1. CASE UNCHANGED picVars
  BY <1>1 DEF picVars, IrqInv, Irq!TypeOK, MaskInv, ServiceInv, OneEach
<1> QED BY <1>1, BootKeeps, DeviceKeeps, ProcessorKeeps DEF Irq!Next

----------------------------------------------------------------------------
(* The transmitter of the network card *)

LEMMA NetConstants == DESCS \in Nat \ {0} /\ MaxFrames \in Nat
  BY X86Assumption

\* How far the card's next descriptor is from d, going up and around.
Ahead(d) == IF d >= cardNext THEN d - cardNext ELSE d + DESCS - cardNext

\* The descriptor after d.
NextDesc(d) == IF d = DESCS - 1 THEN 0 ELSE d + 1

\* Frames accepted and not yet out.
OnItsWay == Len(accepted) - Len(sent)

\* The descriptor the next frame will go to.
NextFree == IF txStep = "advance" THEN NextDesc(txCurrent) ELSE txCurrent

\* Who owns which descriptor, and which call it is for.
TxWindow ==
    /\ OnItsWay \in 0 .. DESCS
    /\ IF OnItsWay < DESCS THEN Ahead(NextFree) = OnItsWay ELSE NextFree = cardNext
    /\ \A d \in Net!Descs : tsdOwn[d] <=> Ahead(d) >= OnItsWay
    /\ \A d \in Net!Descs : Ahead(d) < OnItsWay =>
           tsdLen[d] = accepted[Len(sent) + 1 + Ahead(d)]

\* What rtl8139_send_packet knows at each step.
SenderKnows ==
    /\ txStep \in {"wait", "start"} => sending \in Net!Frames
    /\ txStep = "start" => tsdOwn[txCurrent]

\* The inductive invariant.
RtlInv ==
    /\ Net!TypeOK
    /\ TxWindow
    /\ SenderKnows
    /\ \A i \in 1 .. Len(sent) : sent[i] = accepted[i]

\* The index arithmetic of the driver and of the card.
LEMMA Wraps ==
    ASSUME NEW d \in Net!Descs
    PROVE  (d + 1) % DESCS = NextDesc(d) /\ NextDesc(d) \in Net!Descs
<1> USE NetConstants
<1>1. CASE d + 1 = DESCS
  <2>1. DESCS % DESCS = 0
    OBVIOUS
  <2> QED BY <1>1, <2>1 DEF Net!Descs, NextDesc
<1>2. CASE d + 1 < DESCS
  <2>1. (d + 1) % DESCS = d + 1
    BY <1>2 DEF Net!Descs
  <2> QED BY <1>2, <2>1 DEF Net!Descs, NextDesc
<1> QED BY <1>1, <1>2 DEF Net!Descs

\* After rtl8139_init the driver owns all descriptors.
LEMMA RtlInit == ASSUME Net!Init PROVE RtlInv
<1> USE NetConstants
<1>1. Net!TypeOK
  BY DEF Net!Init, Net!TypeOK, Net!Descs
<1>2. TxWindow
  BY DEF Net!Init, TxWindow, OnItsWay, NextFree, Ahead, Net!Descs
<1> QED BY <1>1, <1>2 DEF Net!Init, RtlInv, SenderKnows

\* Calling, finding the descriptor free and giving up keep the invariant.
LEMMA SenderKeeps ==
    ASSUME RtlInv,
           Net!Call \/ Net!Available \/ Net!Timeout \/ Net!Stop
    PROVE  RtlInv'
<1> USE NetConstants DEF RtlInv, Net!cardVars
<1>1. CASE Net!Call \/ Net!Available \/ Net!Timeout \/ Net!Stop
  <2>1. Net!TypeOK'
    <3>1. sending' \in 0 .. MaxFrames
      BY <1>1 DEF Net!TypeOK, Net!Call, Net!Available, Net!Timeout, Net!Stop
    <3>2. UNCHANGED <<tsdOwn, tsdLen, txCurrent, cardNext, accepted, sent>>
      BY <1>1 DEF Net!Call, Net!Available, Net!Timeout, Net!Stop
    <3>3. stopped' \in BOOLEAN
          /\ txStep' \in {"idle", "wait", "start", "advance"}
      BY <1>1 DEF Net!TypeOK, Net!Call, Net!Available, Net!Timeout, Net!Stop
    <3> QED BY <3>1, <3>2, <3>3 DEF Net!TypeOK
  <2>2. TxWindow'
    <3>1. UNCHANGED <<tsdOwn, tsdLen, txCurrent, cardNext, accepted, sent>>
          /\ NextFree' = NextFree
      BY <1>1 DEF Net!Call, Net!Available, Net!Timeout, Net!Stop, NextFree, NextDesc
    <3> QED BY <3>1 DEF TxWindow, OnItsWay, Ahead
  <2>3. SenderKnows'
    BY <1>1 DEF SenderKnows, Net!TypeOK, Net!Call, Net!Available, Net!Timeout, Net!Stop, Net!Frames
  <2> QED BY <1>1, <2>1, <2>2, <2>3 DEF Net!Call, Net!Available, Net!Timeout, Net!Stop
<1> QED BY <1>1

\* Handing a descriptor over adds it at the end of the card's.
LEMMA StartKeeps ==
    ASSUME RtlInv, Net!Start PROVE RtlInv'
<1> USE NetConstants DEF RtlInv, Net!cardVars, Net!Start
<1>1. /\ txCurrent \in Net!Descs /\ cardNext \in Net!Descs /\ sending \in Net!Frames
      /\ tsdLen' = [tsdLen EXCEPT ![txCurrent] = sending] /\ NextFree = txCurrent
      /\ tsdLen \in [Net!Descs -> Net!Frames \cup {0}]
      /\ sent \in Seq(Net!Frames \cup {0}) /\ accepted \in Seq(Net!Frames)
  BY DEF SenderKnows, Net!TypeOK, NextFree
<1>2. /\ OnItsWay \in 0 .. DESCS - 1 /\ Ahead(txCurrent) = OnItsWay
  <2>1. Ahead(txCurrent) >= OnItsWay /\ Ahead(txCurrent) < DESCS
        /\ Ahead(txCurrent) \in Nat /\ OnItsWay \in 0 .. DESCS
    BY <1>1 DEF SenderKnows, TxWindow, Ahead, Net!Descs
  <2> QED BY <1>1, <2>1 DEF TxWindow
<1>3. /\ Len(accepted') = Len(accepted) + 1 /\ accepted'[Len(accepted) + 1] = sending
      /\ \A i \in 1 .. Len(accepted) : accepted'[i] = accepted[i]
      /\ Len(accepted) \in Nat /\ Len(sent) \in Nat /\ accepted' \in Seq(Net!Frames)
  BY <1>1
<1>4. OnItsWay' = OnItsWay + 1 /\ \A d : Ahead(d)' = Ahead(d)
  BY <1>3 DEF OnItsWay, Ahead
<1>5. Net!TypeOK'
  BY <1>1, <1>3 DEF Net!TypeOK
<1>6. \A d \in Net!Descs : Ahead(d) \in Nat /\ (Ahead(d) = OnItsWay => d = txCurrent)
  BY <1>1, <1>2 DEF Ahead, Net!Descs
<1>7. \A d \in Net!Descs : tsdOwn'[d] <=> Ahead(d) >= OnItsWay + 1
  BY <1>1, <1>2, <1>6 DEF Net!TypeOK, TxWindow
<1>8. ASSUME NEW d \in Net!Descs, Ahead(d) < OnItsWay + 1
      PROVE  tsdLen'[d] = accepted'[Len(sent) + 1 + Ahead(d)]
  <2>1. CASE d = txCurrent
    <3>1. Len(sent) + 1 + Ahead(d) = Len(accepted) + 1
      BY <1>2, <1>3, <2>1 DEF OnItsWay
    <3>2. tsdLen'[d] = sending /\ accepted'[Len(accepted) + 1] = sending
      BY <1>1, <1>3, <2>1
    <3> QED BY <3>1, <3>2
  <2>2. CASE d # txCurrent
    <3>0. Ahead(d) \in Nat /\ Ahead(d) # OnItsWay /\ OnItsWay \in Nat
          /\ OnItsWay = Len(accepted) - Len(sent) /\ Len(accepted) \in Nat /\ Len(sent) \in Nat
      BY <1>2, <1>3, <1>6, <2>2 DEF OnItsWay
    <3>1. Ahead(d) < OnItsWay /\ Len(sent) + 1 + Ahead(d) \in 1 .. Len(accepted)
      <4> HIDE DEF RtlInv, Net!Start
      <4> QED BY <3>0, <1>8
    <3>2. tsdLen'[d] = tsdLen[d]
      BY <1>1, <2>2
    <3>3. tsdLen[d] = accepted[Len(sent) + 1 + Ahead(d)]
      BY <3>1 DEF TxWindow
    <3> DEFINE k == Len(sent) + 1 + Ahead(d)
    <3>4. accepted'[k] = accepted[k]
      BY <1>3, <3>1
    <3> QED BY <3>2, <3>3, <3>4
  <2> QED BY <2>1, <2>2
<1>9. IF OnItsWay + 1 < DESCS THEN Ahead(NextDesc(txCurrent)) = OnItsWay + 1
                             ELSE NextDesc(txCurrent) = cardNext
  BY <1>1, <1>2 DEF NextDesc, Ahead, Net!Descs
<1>10. TxWindow'
  <2>1. NextFree' = NextDesc(txCurrent) /\ cardNext' = cardNext /\ sent' = sent
    BY DEF NextFree, NextDesc
  <2>2. OnItsWay' \in 0 .. DESCS /\ OnItsWay \in Int
    BY <1>2, <1>4
  <2>3. IF OnItsWay' < DESCS THEN Ahead(NextFree)' = OnItsWay' ELSE NextFree' = cardNext'
    BY <1>4, <1>9, <2>1 DEF Ahead
  <2>4. \A d \in Net!Descs : tsdOwn'[d] <=> Ahead(d)' >= OnItsWay'
    BY <1>4, <1>7, <2>1 DEF Ahead
  <2>5. ASSUME NEW d \in Net!Descs, Ahead(d)' < OnItsWay'
        PROVE  tsdLen'[d] = accepted'[Len(sent') + 1 + Ahead(d)']
    BY <1>4, <1>8, <2>1, <2>5 DEF Ahead
  <2> QED BY <2>2, <2>3, <2>4, <2>5 DEF TxWindow
<1>11. \A i \in 1 .. Len(sent') : sent'[i] = accepted'[i]
  <2>1. Len(sent) <= Len(accepted)
    BY <1>2, <1>3 DEF OnItsWay
  <2> QED BY <1>3, <2>1
<1> QED BY <1>5, <1>10, <1>11 DEF SenderKnows

\* The driver's index follows.
LEMMA AdvanceKeeps ==
    ASSUME RtlInv, Net!Advance PROVE RtlInv'
<1> USE NetConstants DEF RtlInv, Net!cardVars, Net!Advance
<1>1. txCurrent' = NextDesc(txCurrent) /\ NextDesc(txCurrent) \in Net!Descs
  BY Wraps DEF Net!TypeOK
<1>2. Net!TypeOK'
  BY <1>1 DEF Net!TypeOK
<1>3. NextFree' = NextFree
  BY <1>1 DEF NextFree
<1>4. TxWindow'
  BY <1>3 DEF TxWindow, OnItsWay, Ahead
<1> QED BY <1>2, <1>4 DEF SenderKnows

\* The card sends the oldest frame and gives its descriptor back.
LEMMA TransmitKeeps ==
    ASSUME RtlInv, Net!Transmit PROVE RtlInv'
<1> USE NetConstants DEF RtlInv, Net!Transmit
<1>1. /\ cardNext \in Net!Descs /\ txCurrent \in Net!Descs
      /\ sent \in Seq(Net!Frames \cup {0}) /\ accepted \in Seq(Net!Frames)
  BY DEF Net!TypeOK
<1>2. cardNext' = NextDesc(cardNext) /\ NextDesc(cardNext) \in Net!Descs
  BY <1>1, Wraps
<1>3. Ahead(cardNext) = 0 /\ OnItsWay \in 1 .. DESCS
  <2>1. Ahead(cardNext) = 0
    BY <1>1 DEF Ahead, Net!Descs
  <2> QED BY <1>1, <2>1 DEF TxWindow
<1>4. tsdLen[cardNext] = accepted[Len(sent) + 1] /\ Len(sent) \in Nat /\ Len(accepted) \in Nat
  <2>1. Len(sent) \in Nat /\ Len(accepted) \in Nat
    BY <1>1
  <2>2. Len(sent) + 1 + 0 = Len(sent) + 1
    BY <2>1
  <2>3. tsdLen[cardNext] = accepted[Len(sent) + 1 + 0]
    BY <1>1, <1>3 DEF TxWindow
  <2> QED BY <2>1, <2>2, <2>3
<1>5. /\ Len(sent') = Len(sent) + 1 /\ sent'[Len(sent) + 1] = accepted[Len(sent) + 1]
      /\ \A i \in 1 .. Len(sent) : sent'[i] = sent[i]
      /\ sent' \in Seq(Net!Frames \cup {0})
  <2>1. tsdLen[cardNext] \in Net!Frames \cup {0}
    BY <1>1 DEF Net!TypeOK
  <2> QED BY <1>1, <1>4, <2>1
<1>6. OnItsWay' = OnItsWay - 1
  BY <1>4, <1>5 DEF OnItsWay
<1>7. ASSUME NEW d \in Net!Descs
      PROVE  /\ Ahead(d) \in 0 .. DESCS - 1
             /\ Ahead(d)' = IF d = cardNext THEN DESCS - 1 ELSE Ahead(d) - 1
             /\ Ahead(d) = 0 => d = cardNext
  <2>1. cardNext \in 0 .. DESCS - 1
    BY <1>1 DEF Net!Descs
  <2>2. cardNext' = IF cardNext = DESCS - 1 THEN 0 ELSE cardNext + 1
    BY <1>2 DEF NextDesc
  <2> QED BY <2>1, <2>2 DEF Ahead, Net!Descs
<1>8. Net!TypeOK'
  BY <1>1, <1>2, <1>5 DEF Net!TypeOK
<1>9. TxWindow'
  <2>1. OnItsWay' \in 0 .. DESCS
    BY <1>3, <1>6
  <2>2. \A d \in Net!Descs : tsdOwn'[d] <=> Ahead(d)' >= OnItsWay'
    BY <1>1, <1>3, <1>6, <1>7 DEF TxWindow, Net!TypeOK, Ahead
  <2>3. ASSUME NEW d \in Net!Descs, Ahead(d)' < OnItsWay'
        PROVE  tsdLen[d] = accepted[Len(sent') + 1 + Ahead(d)']
    <3>1. d # cardNext
      BY <1>3, <1>6, <1>7, <2>3 DEF Ahead
    <3>2. /\ Ahead(d) < OnItsWay
          /\ Len(sent') + 1 + Ahead(d)' = Len(sent) + 1 + Ahead(d)
      <4>1. Ahead(d)' = Ahead(d) - 1 /\ Ahead(d) \in Int
        BY <1>7, <3>1
      <4>2. Ahead(d) < OnItsWay
        BY <1>3, <1>6, <2>3, <4>1
      <4> QED BY <1>4, <1>5, <4>1, <4>2
    <3> QED BY <3>2 DEF TxWindow
  <2>4. NextFree' = NextFree /\ NextFree \in Net!Descs
    BY <1>1, Wraps DEF NextFree, NextDesc
  <2>5. OnItsWay' < DESCS /\ Ahead(NextFree)' = OnItsWay'
    <3>1. CASE OnItsWay = DESCS
      <4>1. NextFree = cardNext
        BY <3>1 DEF TxWindow
      <4> QED BY <1>3, <1>6, <1>7, <2>4, <3>1, <4>1 DEF Ahead
    <3>2. CASE OnItsWay < DESCS
      <4>1. Ahead(NextFree) = OnItsWay /\ NextFree # cardNext
        BY <1>3, <3>2 DEF TxWindow
      <4>2. Ahead(NextFree)' = Ahead(NextFree) - 1
        BY <1>7, <2>4, <4>1 DEF Ahead
      <4> QED BY <1>3, <1>6, <3>2, <4>1, <4>2
    <3> QED BY <1>3, <3>1, <3>2
  <2> QED BY <2>1, <2>2, <2>3, <2>5 DEF TxWindow
<1>10. \A i \in 1 .. Len(sent') : sent'[i] = accepted'[i]
  BY <1>4, <1>5
<1>11. SenderKnows'
  BY <1>1 DEF SenderKnows, Net!TypeOK
<1> QED BY <1>8, <1>9, <1>10, <1>11

\* Whoever steps, driver or card.
LEMMA RtlKeeps == ASSUME RtlInv, Net!Next \/ UNCHANGED netVars PROVE RtlInv'
<1>1. CASE UNCHANGED netVars
  BY <1>1 DEF netVars, RtlInv, Net!TypeOK, TxWindow, SenderKnows, OnItsWay, NextFree,
              Ahead, NextDesc
<1> QED BY <1>1, SenderKeeps, StartKeeps, AdvanceKeeps, TransmitKeeps DEF Net!Next

\* The invariant says what the card has sent.
LEMMA RtlSent == ASSUME RtlInv PROVE Net!FramesInOrder
<1>1. /\ sent \in Seq(Net!Frames \cup {0}) /\ accepted \in Seq(Net!Frames)
      /\ Len(accepted) - Len(sent) \in 0 .. DESCS
  BY DEF RtlInv, Net!TypeOK, TxWindow, OnItsWay
<1>2. Len(sent) <= Len(accepted) /\ Len(accepted) - Len(sent) <= DESCS
  BY <1>1, NetConstants
<1>3. SubSeq(sent, 1, Len(sent)) = SubSeq(accepted, 1, Len(sent))
  <2> DEFINE a == SubSeq(accepted, 1, Len(sent))
             w == SubSeq(sent, 1, Len(sent))
  <2>1. /\ w = [i \in 1 .. Len(sent) |-> sent[i]]
        /\ a = [i \in 1 .. Len(sent) |-> accepted[i]]
    BY <1>1, <1>2
  <2> QED BY <2>1 DEF RtlInv
<1> QED BY <1>2, <1>3 DEF Net!FramesInOrder, Net!IsPrefix

----------------------------------------------------------------------------
(* The input devices *)

\* Before interrupts are on nobody has touched the ring.
QuietBoot ==
    boot # "done" => isr = "none" /\ thread = "idle" /\ rxHead = 0 /\ rxTail = 0

\* The ring: how many bytes it holds, which one is the i-th, and the set of
\* those that nobody has read.
CountOf(h, t) == (h + SIZE - t) % SIZE
SlotOf(t, i)  == (t + i - 1) % SIZE
Count  == CountOf(rxHead, rxTail)
Nth(i) == ring[SlotOf(rxTail, i)]
Unread == {Nth(i) : i \in 1 .. Count} \ (Inp!ToSet(got) \cup {0})

\* What was read is older than what the device holds, and so is all that the
\* ring ever held, stale slots included.  Every byte that arrived is in one of
\* the four places.
PlaceInv ==
    /\ \A i, j \in DOMAIN got : i < j => got[i] < got[j]
    /\ \A i, j \in DOMAIN fifo : i < j => fifo[i] < fifo[j]
    /\ \A i \in DOMAIN got, j \in DOMAIN fifo : got[i] < fifo[j]
    /\ \A s \in Inp!Slots : ring[s] <= arrived /\ \A j \in DOMAIN fifo : ring[s] < fifo[j]
    /\ Inp!ToSet(got) \cap lost = {} /\ Inp!ToSet(fifo) \cap lost = {}
    /\ Inp!ToSet(got) \cup Unread \cup Inp!ToSet(fifo) \cup lost = 1 .. arrived

\* Outside the two stores of ps2_kbd_flush the ring is in order, too: after
\* what was read, but for the byte that serial_getc has read and not yet passed.
First == IF thread = "move" THEN 2 ELSE 1
RingInv ==
    /\ thread \in {"read", "move"} => Count >= 1
    /\ thread = "flush" => rxTail = 0
    /\ thread # "flush" =>
        /\ \A i, j \in 1 .. Count : i < j => Nth(i) < Nth(j)
        /\ \A i \in 1 .. Count : Nth(i) # 0
        /\ \A i \in First .. Count : Nth(i) \notin lost /\ \A j \in DOMAIN got : got[j] < Nth(i)
        /\ thread = "move" => Nth(1) \in Inp!ToSet(got)

InpInv == Inp!TypeOK /\ QuietBoot /\ PlaceInv /\ RingInv

LEMMA InpConstants == SIZE \in Nat /\ SIZE # 0 /\ FIFO \in Nat /\ MaxInput \in Nat
  BY X86Assumption

\* The arithmetic of the ring.
LEMMA Mod ==
    ASSUME NEW a \in Inp!Slots PROVE a % SIZE = a /\ (a + SIZE) % SIZE = a
<1> USE InpConstants DEF Inp!Slots
<1>1. a % SIZE = a
  OBVIOUS
<1>2. (a + SIZE) % SIZE = a
  OBVIOUS
<1> QED BY <1>1, <1>2

LEMMA CountIs ==
    ASSUME NEW h \in Inp!Slots, NEW t \in Inp!Slots
    PROVE  /\ CountOf(h, t) \in 0 .. SIZE - 1
           /\ CountOf(h, t) = IF t <= h THEN h - t ELSE h + SIZE - t
<1> USE InpConstants DEF Inp!Slots, CountOf
<1>1. CASE t <= h
  <2>1. h - t \in Inp!Slots
    BY <1>1
  <2>2. ((h - t) + SIZE) % SIZE = h - t
    BY <2>1, Mod
  <2>3. h + SIZE - t = (h - t) + SIZE
    OBVIOUS
  <2> QED BY <1>1, <2>1, <2>2, <2>3
<1>2. CASE ~(t <= h)
  <2>1. h + SIZE - t \in Inp!Slots
    BY <1>2
  <2>2. (h + SIZE - t) % SIZE = h + SIZE - t
    BY <2>1, Mod
  <2> QED BY <1>2, <2>1, <2>2
<1> QED BY <1>1, <1>2

LEMMA SlotIs ==
    ASSUME NEW t \in Inp!Slots, NEW i \in 1 .. SIZE
    PROVE  /\ SlotOf(t, i) \in Inp!Slots
           /\ SlotOf(t, i) = IF t + i - 1 < SIZE THEN t + i - 1 ELSE t + i - 1 - SIZE
<1> USE InpConstants DEF Inp!Slots, SlotOf
<1>1. CASE t + i - 1 < SIZE
  <2>1. t + i - 1 \in Inp!Slots
    BY <1>1
  <2> QED BY <1>1, <2>1, Mod
<1>2. CASE ~(t + i - 1 < SIZE)
  <2>1. t + i - 1 - SIZE \in Inp!Slots
    BY <1>2
  <2>2. ((t + i - 1 - SIZE) + SIZE) % SIZE = t + i - 1 - SIZE
    BY <2>1, Mod
  <2>3. (t + i - 1 - SIZE) + SIZE = t + i - 1
    OBVIOUS
  <2> QED BY <1>2, <2>1, <2>2, <2>3
<1> QED BY <1>1, <1>2

LEMMA AfterIs ==
    ASSUME NEW s \in Inp!Slots
    PROVE  Inp!After(s) \in Inp!Slots /\ Inp!After(s) = IF s + 1 = SIZE THEN 0 ELSE s + 1
<1> USE InpConstants DEF Inp!Slots, Inp!After
<1>1. CASE s + 1 = SIZE
  <2>1. 0 \in Inp!Slots /\ 0 + SIZE = s + 1
    BY <1>1
  <2>2. (0 + SIZE) % SIZE = 0
    BY <2>1, Mod
  <2> QED BY <1>1, <2>1, <2>2
<1>2. CASE s + 1 # SIZE
  <2>1. s + 1 \in Inp!Slots
    BY <1>2
  <2> QED BY <1>2, <2>1, Mod
<1> QED BY <1>1, <1>2

LEMMA RingTypes ==
    ASSUME Inp!TypeOK
    PROVE  /\ rxHead \in Inp!Slots /\ rxTail \in Inp!Slots /\ Count \in 0 .. SIZE - 1
           /\ Count = 0 <=> rxHead = rxTail
           /\ \A i \in 1 .. Count : SlotOf(rxTail, i) \in Inp!Slots
           /\ \A i \in 1 .. Count : Nth(i) \in Inp!Inputs \cup {0}
<1>1. rxHead \in Inp!Slots /\ rxTail \in Inp!Slots /\ ring \in [Inp!Slots -> Inp!Inputs \cup {0}]
  BY DEF Inp!TypeOK
<1>2. /\ Count \in 0 .. SIZE - 1
      /\ Count = IF rxTail <= rxHead THEN rxHead - rxTail ELSE rxHead + SIZE - rxTail
  BY <1>1, CountIs DEF Count
<1>3. Count = 0 <=> rxHead = rxTail
  BY <1>1, <1>2, InpConstants DEF Inp!Slots
<1>4. \A i \in 1 .. Count : SlotOf(rxTail, i) \in Inp!Slots
  <2>1. \A i \in 1 .. Count : i \in 1 .. SIZE
    BY <1>2, InpConstants
  <2> QED BY <1>1, <2>1, SlotIs
<1>5. \A i \in 1 .. Count : Nth(i) \in Inp!Inputs \cup {0}
  BY <1>1, <1>4 DEF Nth
<1> QED BY <1>1, <1>2, <1>3, <1>4, <1>5

\* A byte put into the ring comes after those it holds.
LEMMA PutRing ==
    ASSUME Inp!TypeOK, NEW c, Inp!After(rxHead) # rxTail,
           ring' = [ring EXCEPT ![rxHead] = c], rxHead' = Inp!After(rxHead), rxTail' = rxTail
    PROVE  /\ Count' = Count + 1
           /\ \A i \in 1 .. Count : Nth(i)' = Nth(i)
           /\ Nth(Count)' = c
<1>1. rxHead \in Inp!Slots /\ rxTail \in Inp!Slots /\ ring \in [Inp!Slots -> Inp!Inputs \cup {0}]
  BY DEF Inp!TypeOK
<1>2. /\ Inp!After(rxHead) \in Inp!Slots
      /\ Inp!After(rxHead) = IF rxHead + 1 = SIZE THEN 0 ELSE rxHead + 1
  BY <1>1, AfterIs
<1>3. /\ Count \in 0 .. SIZE - 1
      /\ Count = IF rxTail <= rxHead THEN rxHead - rxTail ELSE rxHead + SIZE - rxTail
  BY <1>1, CountIs DEF Count
<1>4. CountOf(Inp!After(rxHead), rxTail)
          = IF rxTail <= Inp!After(rxHead) THEN Inp!After(rxHead) - rxTail
            ELSE Inp!After(rxHead) + SIZE - rxTail
  BY <1>1, <1>2, CountIs
<1>5. Count' = Count + 1
  <2>1. Count' = CountOf(Inp!After(rxHead), rxTail)
    BY DEF Count
  <2> QED BY <1>1, <1>2, <1>3, <1>4, <2>1, InpConstants DEF Inp!Slots
<1>6. ASSUME NEW i \in 1 .. Count PROVE SlotOf(rxTail, i) \in Inp!Slots \ {rxHead}
  <2>1. i \in 1 .. SIZE
    BY <1>3, InpConstants
  <2>2. /\ SlotOf(rxTail, i) \in Inp!Slots
        /\ SlotOf(rxTail, i) = IF rxTail + i - 1 < SIZE THEN rxTail + i - 1
                               ELSE rxTail + i - 1 - SIZE
    BY <1>1, <2>1, SlotIs
  <2> QED BY <1>1, <1>3, <2>2, InpConstants DEF Inp!Slots
<1>7. SlotOf(rxTail, Count + 1) = rxHead
  <2>1. Count + 1 \in 1 .. SIZE
    BY <1>3, InpConstants
  <2>2. SlotOf(rxTail, Count + 1) = IF rxTail + (Count + 1) - 1 < SIZE
                                    THEN rxTail + (Count + 1) - 1
                                    ELSE rxTail + (Count + 1) - 1 - SIZE
    BY <1>1, <2>1, SlotIs
  <2> QED BY <1>1, <1>3, <2>2, InpConstants DEF Inp!Slots
<1>8. \A i \in 1 .. Count : ring'[SlotOf(rxTail, i)] = ring[SlotOf(rxTail, i)]
  BY <1>1, <1>6
<1>9. ring'[SlotOf(rxTail, Count + 1)] = c
  BY <1>1, <1>7
<1>10. Nth(Count)' = ring'[SlotOf(rxTail, Count + 1)]
  BY <1>5 DEF Nth
<1> QED BY <1>5, <1>8, <1>9, <1>10 DEF Nth

\* Passing a byte leaves the others in their places.
LEMMA MoveRing ==
    ASSUME Inp!TypeOK, Count >= 1,
           ring' = ring, rxHead' = rxHead, rxTail' = Inp!After(rxTail)
    PROVE  /\ Count' = Count - 1
           /\ \A i \in 1 .. Count - 1 : Nth(i)' = Nth(i + 1)
<1>1. rxHead \in Inp!Slots /\ rxTail \in Inp!Slots
  BY DEF Inp!TypeOK
<1>2. /\ Inp!After(rxTail) \in Inp!Slots
      /\ Inp!After(rxTail) = IF rxTail + 1 = SIZE THEN 0 ELSE rxTail + 1
  BY <1>1, AfterIs
<1>3. /\ Count \in 0 .. SIZE - 1
      /\ Count = IF rxTail <= rxHead THEN rxHead - rxTail ELSE rxHead + SIZE - rxTail
  BY <1>1, CountIs DEF Count
<1>4. CountOf(rxHead, Inp!After(rxTail))
          = IF Inp!After(rxTail) <= rxHead THEN rxHead - Inp!After(rxTail)
            ELSE rxHead + SIZE - Inp!After(rxTail)
  BY <1>1, <1>2, CountIs
<1>5. Count' = Count - 1
  <2>1. Count' = CountOf(rxHead, Inp!After(rxTail))
    BY DEF Count
  <2> QED BY <1>1, <1>2, <1>3, <1>4, <2>1, InpConstants DEF Inp!Slots
<1>6. ASSUME NEW i \in 1 .. Count - 1
      PROVE  SlotOf(Inp!After(rxTail), i) = SlotOf(rxTail, i + 1)
  <2>1. i \in 1 .. SIZE /\ i + 1 \in 1 .. SIZE
    BY <1>3, InpConstants
  <2>2. SlotOf(Inp!After(rxTail), i) = IF Inp!After(rxTail) + i - 1 < SIZE
                                       THEN Inp!After(rxTail) + i - 1
                                       ELSE Inp!After(rxTail) + i - 1 - SIZE
    BY <1>2, <2>1, SlotIs
  <2>3. SlotOf(rxTail, i + 1) = IF rxTail + (i + 1) - 1 < SIZE THEN rxTail + (i + 1) - 1
                                ELSE rxTail + (i + 1) - 1 - SIZE
    BY <1>1, <2>1, SlotIs
  <2> QED BY <1>1, <1>2, <1>3, <2>2, <2>3, InpConstants DEF Inp!Slots
<1> QED BY <1>5, <1>6 DEF Nth

LEMMA InpInit == ASSUME Inp!Init PROVE InpInv
<1>1. /\ kind \in {"uart", "kbd"} /\ arrived = 0 /\ fifo = <<>> /\ ~lineError
      /\ lineError \in BOOLEAN /\ initialized \in BOOLEAN
      /\ ring = [i \in Inp!Slots |-> 0] /\ rxHead = 0 /\ rxTail = 0
      /\ boot = (IF kind = "uart" THEN "enable" ELSE "sti")
      /\ isr = "none" /\ thread = "idle" /\ got = <<>> /\ lost = {}
  BY DEF Inp!Init
<1>2. 0 \in Inp!Slots
  BY InpConstants DEF Inp!Slots
<1>3. Inp!TypeOK
  <2>1. /\ arrived \in 0 .. MaxInput /\ Len(fifo) <= FIFO /\ fifo \in Seq(Inp!Inputs)
        /\ got \in Seq(Inp!Inputs) /\ lost \subseteq Inp!Inputs
        /\ ring \in [Inp!Slots -> Inp!Inputs \cup {0}]
    BY <1>1, InpConstants
  <2> QED BY <1>1, <1>2, <2>1 DEF Inp!TypeOK
<1>4. QuietBoot
  BY <1>1 DEF QuietBoot
<1>5. Count = 0
  BY <1>1, <1>2, <1>3, RingTypes
<1>6. PlaceInv
  BY <1>1, <1>5 DEF PlaceInv, Unread, Inp!ToSet
<1>7. RingInv
  BY <1>1, <1>5 DEF RingInv, First
<1> QED BY <1>3, <1>4, <1>6, <1>7 DEF InpInv

\* Handler and thread start with the interrupts.
LEMMA BootStaysQuiet == ASSUME InpInv, Inp!Next PROVE QuietBoot'
<1> USE DEF InpInv, QuietBoot
<1>1. CASE Inp!Arrive \/ Inp!EnableUart \/ Inp!ClearRing \/ Inp!MarkInitialized
           \/ Inp!EnableInterrupts
  BY <1>1 DEF Inp!Arrive, Inp!EnableUart, Inp!ClearRing, Inp!MarkInitialized,
              Inp!EnableInterrupts, Inp!deviceVars, Inp!ringVars
<1>2. CASE Inp!Interrupt \/ Inp!Handler
  BY <1>2 DEF Inp!Interrupt, Inp!Handler, Inp!ServeLineError, Inp!ServeData, Inp!Drain,
              Inp!KeyCode, Inp!deviceVars, Inp!ringVars
<1>3. CASE Inp!CallGetchar \/ Inp!Reading \/ Inp!Tick \/ Inp!FlushTail \/ Inp!FlushHead
  BY <1>3 DEF Inp!CallGetchar, Inp!Reading, Inp!Tick, Inp!FlushTail, Inp!FlushHead, Inp!Test,
              Inp!Hlt, Inp!ReadSlot, Inp!MoveTail, Inp!ThreadStep
<1> QED BY <1>1, <1>2, <1>3 DEF Inp!Next

\* Two facts about sequences.
LEMMA AppendIs ==
    ASSUME NEW S, NEW s \in Seq(S), NEW e \in S
    PROVE  /\ Append(s, e) \in Seq(S) /\ Len(Append(s, e)) = Len(s) + 1
           /\ \A i \in 1 .. Len(s) : Append(s, e)[i] = s[i]
           /\ Append(s, e)[Len(s) + 1] = e
           /\ Inp!ToSet(Append(s, e)) = Inp!ToSet(s) \cup {e}
<1>1. /\ Append(s, e) \in Seq(S) /\ Len(Append(s, e)) = Len(s) + 1
      /\ \A i \in 1 .. Len(s) : Append(s, e)[i] = s[i]
      /\ Append(s, e)[Len(s) + 1] = e
  OBVIOUS
<1>2. \A i : i \in 1 .. Len(s) + 1 <=> i \in 1 .. Len(s) \/ i = Len(s) + 1
  OBVIOUS
<1>3. Inp!ToSet(Append(s, e)) = Inp!ToSet(s) \cup {e}
  <2> DEFINE t == Append(s, e)
  <2>1. DOMAIN t = 1 .. Len(s) + 1 /\ DOMAIN s = 1 .. Len(s)
    BY <1>1
  <2>2. t[Len(s) + 1] = e /\ \A i \in 1 .. Len(s) : t[i] = s[i]
    BY <1>1
  <2> HIDE DEF t
  <2>3. Inp!ToSet(t) = Inp!ToSet(s) \cup {e}
    BY <1>2, <2>1, <2>2 DEF Inp!ToSet
  <2> QED BY <2>3 DEF t
<1> QED BY <1>1, <1>3

LEMMA TailIs ==
    ASSUME NEW S, NEW s \in Seq(S), s # <<>>
    PROVE  /\ Tail(s) \in Seq(S) /\ Len(Tail(s)) = Len(s) - 1 /\ Len(s) >= 1
           /\ \A i \in 1 .. Len(s) - 1 : Tail(s)[i] = s[i + 1]
           /\ Head(s) = s[1] /\ Head(s) \in S
           /\ Inp!ToSet(s) = Inp!ToSet(Tail(s)) \cup {Head(s)}
<1>1. /\ Tail(s) \in Seq(S) /\ Len(Tail(s)) = Len(s) - 1 /\ Len(s) >= 1
      /\ \A i \in 1 .. Len(s) - 1 : Tail(s)[i] = s[i + 1]
      /\ Head(s) = s[1] /\ Head(s) \in S
  OBVIOUS
<1>2. Inp!ToSet(s) = Inp!ToSet(Tail(s)) \cup {Head(s)}
  <2> DEFINE t == Tail(s)
             n == Len(s)
  <2>1. DOMAIN t = 1 .. n - 1 /\ DOMAIN s = 1 .. n /\ n \in Nat /\ n >= 1
    BY <1>1
  <2>2. \A i \in 1 .. n - 1 : t[i] = s[i + 1]
    BY <1>1
  <2> HIDE DEF t, n
  <2>3. ASSUME NEW x \in Inp!ToSet(s) PROVE x \in Inp!ToSet(t) \cup {s[1]}
    <3>1. PICK i \in 1 .. n : x = s[i]
      BY <2>1, <2>3 DEF Inp!ToSet
    <3>2. i = 1 \/ (i - 1 \in 1 .. n - 1 /\ i = (i - 1) + 1)
      BY <2>1
    <3> QED BY <2>1, <2>2, <3>1, <3>2 DEF Inp!ToSet
  <2>4. ASSUME NEW x \in Inp!ToSet(t) \cup {s[1]} PROVE x \in Inp!ToSet(s)
    <3>1. \A i \in 1 .. n - 1 : i + 1 \in 1 .. n
      BY <2>1
    <3>2. 1 \in 1 .. n
      BY <2>1
    <3> QED BY <2>1, <2>2, <2>4, <3>1, <3>2 DEF Inp!ToSet
  <2>5. Inp!ToSet(s) = Inp!ToSet(t) \cup {s[1]}
    BY <2>3, <2>4
  <2> QED BY <1>1, <2>5 DEF t
<1> QED BY <1>1, <1>2

\* The types, as the proofs below need them.
LEMMA InpTypes ==
    ASSUME InpInv
    PROVE  /\ got \in Seq(Inp!Inputs) /\ DOMAIN got = 1 .. Len(got) /\ Len(got) \in Nat
           /\ fifo \in Seq(Inp!Inputs) /\ DOMAIN fifo = 1 .. Len(fifo) /\ Len(fifo) \in Nat
           /\ arrived \in Nat /\ arrived <= MaxInput /\ lost \subseteq Inp!Inputs
           /\ \A i \in DOMAIN got : got[i] \in Nat /\ got[i] \in 1 .. arrived
           /\ \A i \in DOMAIN fifo : fifo[i] \in Nat /\ fifo[i] \in 1 .. arrived
           /\ ring \in [Inp!Slots -> Inp!Inputs \cup {0}] /\ \A s \in Inp!Slots : ring[s] \in Nat
           /\ \A i \in 1 .. Count : SlotOf(rxTail, i) \in Inp!Slots /\ Nth(i) \in Nat
           /\ Count \in Nat
           /\ \A x \in lost : x \in 1 .. arrived
<1>1. /\ got \in Seq(Inp!Inputs) /\ fifo \in Seq(Inp!Inputs) /\ lost \subseteq Inp!Inputs
      /\ arrived \in 0 .. MaxInput /\ ring \in [Inp!Slots -> Inp!Inputs \cup {0}]
  BY DEF InpInv, Inp!TypeOK
<1>2. Inp!Inputs \subseteq Nat /\ Inp!Inputs \cup {0} \subseteq Nat
  BY DEF Inp!Inputs
<1>3. /\ DOMAIN got = 1 .. Len(got) /\ Len(got) \in Nat
      /\ DOMAIN fifo = 1 .. Len(fifo) /\ Len(fifo) \in Nat
  BY <1>1
<1>4. /\ \A i \in DOMAIN got : got[i] \in Inp!ToSet(got) /\ got[i] \in Inp!Inputs
      /\ \A i \in DOMAIN fifo : fifo[i] \in Inp!ToSet(fifo) /\ fifo[i] \in Inp!Inputs
  BY <1>1, <1>3 DEF Inp!ToSet
<1>5. Inp!ToSet(got) \cup Unread \cup Inp!ToSet(fifo) \cup lost = 1 .. arrived
  BY DEF InpInv, PlaceInv
<1>6. /\ \A i \in 1 .. Count : SlotOf(rxTail, i) \in Inp!Slots /\ Nth(i) \in Inp!Inputs \cup {0}
      /\ Count \in 0 .. SIZE - 1
  BY RingTypes DEF InpInv
<1>7. Count \in Nat /\ arrived \in Nat /\ arrived <= MaxInput
  BY <1>1, <1>6, InpConstants
<1>8. /\ \A i \in 1 .. Count : Nth(i) \in Nat
      /\ \A s \in Inp!Slots : ring[s] \in Nat
  <2>1. \A s \in Inp!Slots : ring[s] \in Inp!Inputs \cup {0}
    BY <1>1
  <2> QED BY <1>2, <1>6, <2>1
<1> QED BY <1>1, <1>2, <1>3, <1>4, <1>5, <1>6, <1>7, <1>8

\* A step that moves no byte moves none.
LEMMA SameBytes ==
    ASSUME InpInv, UNCHANGED <<arrived, fifo, ring, rxHead, rxTail, got, lost>>,
           \/ thread' = thread
           \/ /\ thread \notin {"move", "flush"}
              /\ thread' \in {"idle", "test", "hlt", "asleep", "read"}
              /\ thread' = "read" => Count >= 1
    PROVE  PlaceInv' /\ RingInv'
<1>1. Count' = Count /\ Unread' = Unread /\ \A i : Nth(i)' = Nth(i)
  BY DEF Count, Unread, Nth
<1>2. PlaceInv'
  BY <1>1 DEF InpInv, PlaceInv
<1>3. CASE thread' = thread
  <2>1. First' = First
    BY <1>3 DEF First
  <2> QED BY <1>1, <1>2, <1>3, <2>1 DEF InpInv, RingInv
<1>4. CASE thread' # thread
  <2>1. First' = 1 /\ First = 1
    BY <1>4 DEF First
  <2> QED BY <1>1, <1>2, <1>4, <2>1 DEF InpInv, RingInv
<1> QED BY <1>3, <1>4

LEMMA QuietKeeps ==
    ASSUME InpInv,
           \/ Inp!ClearRing \/ Inp!MarkInitialized \/ Inp!EnableInterrupts \/ Inp!Interrupt
           \/ Inp!ServeLineError \/ Inp!ServeData \/ Inp!CallGetchar \/ Inp!Test \/ Inp!Hlt
           \/ Inp!Tick
    PROVE  Inp!TypeOK' /\ PlaceInv' /\ RingInv'
<1>1. CASE Inp!ClearRing \/ Inp!MarkInitialized \/ Inp!EnableInterrupts
  <2>1. /\ boot # "done" /\ boot' \in {"mark", "sti", "done"}
        /\ initialized' \in {initialized, TRUE}
        /\ \/ UNCHANGED <<rxHead, rxTail>>
           \/ rxHead' = 0 /\ rxTail' = 0
        /\ UNCHANGED <<kind, arrived, fifo, lineError, ring, isr, thread, got, lost>>
    BY <1>1 DEF Inp!ClearRing, Inp!MarkInitialized, Inp!EnableInterrupts, Inp!deviceVars,
       Inp!ringVars
  <2>2. UNCHANGED <<rxHead, rxTail>>
    BY <2>1 DEF InpInv, QuietBoot
  <2>3. Inp!TypeOK'
    BY <2>1, <2>2 DEF InpInv, Inp!TypeOK
  <2> QED BY <2>1, <2>2, <2>3, SameBytes
<1>2. CASE Inp!Interrupt \/ Inp!ServeLineError \/ Inp!ServeData
  <2>1. /\ lineError' \in {lineError, FALSE}
        /\ isr' \in {"none", "cause", "data"}
        /\ UNCHANGED <<kind, arrived, fifo, ring, rxHead, rxTail, initialized, boot, got, lost>>
    BY <1>2 DEF Inp!Interrupt, Inp!ServeLineError, Inp!ServeData, Inp!deviceVars, Inp!ringVars, InpInv, Inp!TypeOK
  <2>2. thread' = thread \/ (thread = "asleep" /\ thread' = "test")
    BY <1>2 DEF Inp!Interrupt, Inp!ServeLineError, Inp!ServeData
  <2>3. Inp!TypeOK'
    BY <2>1, <2>2 DEF InpInv, Inp!TypeOK
  <2> QED BY <2>1, <2>2, <2>3, SameBytes
<1>3. CASE Inp!CallGetchar \/ Inp!Test \/ Inp!Hlt \/ Inp!Tick
  <2>1. /\ UNCHANGED <<kind, arrived, fifo, lineError, ring, rxHead, rxTail, initialized,
                       boot, isr, got, lost>>
    BY <1>3 DEF Inp!CallGetchar, Inp!Test, Inp!Hlt, Inp!Tick, Inp!deviceVars, Inp!ringVars
  <2>2. /\ thread \in {"idle", "test", "hlt", "asleep"}
        /\ thread' \in {"test", "hlt", "asleep", "read"}
        /\ thread' = "read" => rxHead # rxTail
    BY <1>3 DEF Inp!CallGetchar, Inp!Test, Inp!Hlt, Inp!Tick, Inp!ThreadStep, Inp!Available
  <2>3. thread' = "read" => Count >= 1
    <3>1. (Count = 0 <=> rxHead = rxTail) /\ Count \in 0 .. SIZE - 1
      BY RingTypes DEF InpInv
    <3> QED BY <2>2, <3>1, InpConstants
  <2>4. Inp!TypeOK'
    BY <2>1, <2>2 DEF InpInv, Inp!TypeOK
  <2> QED BY <2>1, <2>2, <2>3, <2>4, SameBytes
<1> QED BY <1>1, <1>2, <1>3

\* A byte arrives, and the device holds it or has no room.
LEMMA ArriveKeeps ==
    ASSUME InpInv, Inp!Arrive PROVE Inp!TypeOK' /\ PlaceInv' /\ RingInv'
<1>t. /\ got \in Seq(Inp!Inputs) /\ DOMAIN got = 1 .. Len(got) /\ Len(got) \in Nat
      /\ fifo \in Seq(Inp!Inputs) /\ DOMAIN fifo = 1 .. Len(fifo) /\ Len(fifo) \in Nat
      /\ arrived \in Nat /\ lost \subseteq Inp!Inputs
      /\ \A i \in DOMAIN got : got[i] \in Nat /\ got[i] \in 1 .. arrived
      /\ \A i \in DOMAIN fifo : fifo[i] \in Nat /\ fifo[i] \in 1 .. arrived
      /\ \A s \in Inp!Slots : ring[s] \in Nat
      /\ \A i \in 1 .. Count : Nth(i) \in Nat
      /\ \A x \in lost : x \in 1 .. arrived
  BY InpTypes
<1>n. \A i \in 1 .. Count : Nth(i) <= arrived
  BY InpTypes DEF InpInv, PlaceInv, Nth
<1> DEFINE c == arrived + 1
<1>1. /\ arrived < MaxInput /\ arrived' = c
      /\ \/ Len(fifo) < FIFO /\ fifo' = Append(fifo, c) /\ lost' = lost
         \/ fifo' = fifo /\ lost' = lost \cup {c}
      /\ UNCHANGED <<kind, ring, rxHead, rxTail, initialized, boot, isr, thread, got>>
  BY DEF Inp!Arrive, Inp!ringVars
<1>2. lineError' \in {lineError, kind = "uart"} /\ lineError' \in BOOLEAN
  BY DEF Inp!Arrive, InpInv, Inp!TypeOK
<1>3. c \in Inp!Inputs /\ c \in Nat /\ arrived' \in 0 .. MaxInput
  BY <1>1, <1>t, InpConstants DEF Inp!Inputs
<1>4. Count' = Count /\ Unread' = Unread /\ First' = First /\ \A i : Nth(i)' = Nth(i)
  BY <1>1 DEF Count, Unread, Nth, First
<1>5. 1 .. c = (1 .. arrived) \cup {c}
  BY <1>t
<1>6. PlaceInv
  BY DEF InpInv
<1> HIDE DEF c
<1>7. \A x \in 1 .. arrived : x < c /\ x # c
  BY <1>t DEF c
<1>8. \A s \in Inp!Slots : ring[s] < c /\ ring[s] <= c
  BY <1>6, <1>t DEF PlaceInv, c
<1>9. CASE Len(fifo) < FIFO /\ fifo' = Append(fifo, c) /\ lost' = lost
  <2>1. /\ fifo' \in Seq(Inp!Inputs) /\ Len(fifo') = Len(fifo) + 1
        /\ \A i \in 1 .. Len(fifo) : fifo'[i] = fifo[i]
        /\ fifo'[Len(fifo) + 1] = c
        /\ Inp!ToSet(fifo') = Inp!ToSet(fifo) \cup {c}
    BY <1>3, <1>9, <1>t, AppendIs
  <2>2. /\ DOMAIN fifo' = 1 .. Len(fifo) + 1 /\ Len(fifo') <= FIFO
        /\ \A i \in DOMAIN fifo' : i \in 1 .. Len(fifo) \/ i = Len(fifo) + 1
    BY <1>9, <1>t, <2>1, InpConstants
  <2>3. Inp!TypeOK'
    BY <1>1, <1>2, <1>3, <1>9, <2>1, <2>2 DEF InpInv, Inp!TypeOK
  <2>4. \A i, j \in DOMAIN fifo' : i < j => fifo'[i] < fifo'[j]
    <3>1. SUFFICES ASSUME NEW i \in DOMAIN fifo', NEW j \in DOMAIN fifo', i < j
                   PROVE  fifo'[i] < fifo'[j]
      OBVIOUS
    <3>2. i \in 1 .. Len(fifo)
      BY <1>t, <2>2, <3>1
    <3> QED BY <1>6, <1>7, <1>t, <2>1, <2>2, <3>1, <3>2 DEF PlaceInv
  <2>5. /\ \A i \in DOMAIN got, j \in DOMAIN fifo' : got[i] < fifo'[j]
        /\ \A s \in Inp!Slots, j \in DOMAIN fifo' : ring[s] < fifo'[j]
    BY <1>6, <1>7, <1>8, <1>t, <2>1, <2>2 DEF PlaceInv
  <2>6. /\ Inp!ToSet(fifo') \cap lost = {}
        /\ Inp!ToSet(got) \cup Unread \cup Inp!ToSet(fifo') \cup lost = 1 .. c
    <3>1. c \notin lost
      BY <1>7, <1>t
    <3> QED BY <1>5, <1>6, <2>1, <3>1 DEF PlaceInv
  <2>7. PlaceInv'
    BY <1>1, <1>4, <1>6, <1>8, <1>9, <2>4, <2>5, <2>6 DEF PlaceInv
  <2>8. RingInv'
    BY <1>1, <1>4, <1>9 DEF InpInv, RingInv
  <2> QED BY <2>3, <2>7, <2>8
<1>10. CASE fifo' = fifo /\ lost' = lost \cup {c}
  <2>1. Inp!TypeOK'
    BY <1>1, <1>2, <1>3, <1>10, <1>t DEF InpInv, Inp!TypeOK
  <2>2. c \notin Inp!ToSet(got) /\ c \notin Inp!ToSet(fifo)
    BY <1>7, <1>t DEF Inp!ToSet
  <2>3. /\ Inp!ToSet(got) \cap (lost \cup {c}) = {} /\ Inp!ToSet(fifo) \cap (lost \cup {c}) = {}
        /\ Inp!ToSet(got) \cup Unread \cup Inp!ToSet(fifo) \cup (lost \cup {c}) = 1 .. c
    BY <1>5, <1>6, <2>2 DEF PlaceInv
  <2>4. PlaceInv'
    BY <1>1, <1>4, <1>6, <1>8, <1>10, <2>3 DEF PlaceInv
  <2>5. \A i \in 1 .. Count : Nth(i) # c
    BY <1>n, <1>t DEF c
  <2>6. \A i \in First .. Count : i \in 1 .. Count
    BY InpTypes DEF First
  <2>7. RingInv'
    BY <1>1, <1>4, <1>10, <2>5, <2>6 DEF InpInv, RingInv
  <2> QED BY <2>1, <2>4, <2>7
<1> QED BY <1>1, <1>9, <1>10

\* serial_init clears the FIFO while the ring is empty.
LEMMA EnableKeeps ==
    ASSUME InpInv, Inp!EnableUart PROVE Inp!TypeOK' /\ PlaceInv' /\ RingInv'
<1>t. /\ got \in Seq(Inp!Inputs) /\ DOMAIN got = 1 .. Len(got)
      /\ fifo \in Seq(Inp!Inputs) /\ DOMAIN fifo = 1 .. Len(fifo)
      /\ \A i \in DOMAIN fifo : fifo[i] \in Inp!Inputs /\ fifo[i] \in Nat
      /\ lost \subseteq Inp!Inputs
  BY InpTypes
<1>1. /\ boot = "enable" /\ boot' = "clear" /\ fifo' = <<>> /\ lost' = lost \cup Inp!ToSet(fifo)
      /\ lineError' = lineError
      /\ UNCHANGED <<kind, arrived, ring, rxHead, rxTail, initialized, isr, thread, got>>
  BY DEF Inp!EnableUart, Inp!ringVars, InpInv, Inp!TypeOK
<1>2. /\ fifo' \in Seq(Inp!Inputs) /\ Len(fifo') <= FIFO /\ Inp!ToSet(fifo') = {}
      /\ DOMAIN fifo' = {}
  BY <1>1, InpConstants DEF Inp!ToSet
<1>3. lost' \subseteq Inp!Inputs
  BY <1>1, <1>t DEF Inp!ToSet
<1>4. Inp!TypeOK'
  BY <1>1, <1>2, <1>3 DEF InpInv, Inp!TypeOK
<1>5. Count' = Count /\ Unread' = Unread /\ First' = First /\ \A i : Nth(i)' = Nth(i)
  BY <1>1 DEF Count, Unread, Nth, First
<1>6. Inp!ToSet(got) \cap Inp!ToSet(fifo) = {}
  <2>1. SUFFICES ASSUME NEW i \in DOMAIN got, NEW j \in DOMAIN fifo, got[i] = fifo[j] PROVE FALSE
    BY DEF Inp!ToSet
  <2>2. got[i] < fifo[j] /\ fifo[j] \in Nat
    BY <1>t DEF InpInv, PlaceInv
  <2> QED BY <2>1, <2>2
<1>7. PlaceInv'
  BY <1>1, <1>2, <1>5, <1>6 DEF InpInv, PlaceInv
<1>8. Count = 0 /\ thread = "idle"
  BY <1>1, RingTypes DEF InpInv, QuietBoot
<1>9. RingInv'
  BY <1>1, <1>5, <1>8 DEF RingInv, First
<1> QED BY <1>4, <1>7, <1>9

\* The handler takes the oldest byte of the device: it goes to the ring, or is lost.
LEMMA TakeKeeps ==
    ASSUME InpInv, fifo # <<>>, fifo' = Tail(fifo),
           UNCHANGED <<arrived, rxTail, thread, got>>,
           Inp!Put(Head(fifo)) \/ (UNCHANGED <<ring, rxHead>> /\ lost' = lost \cup {Head(fifo)})
    PROVE  /\ PlaceInv' /\ RingInv'
           /\ fifo' \in Seq(Inp!Inputs) /\ Len(fifo') <= FIFO /\ lost' \subseteq Inp!Inputs
           /\ ring' \in [Inp!Slots -> Inp!Inputs \cup {0}] /\ rxHead' \in Inp!Slots
<1>t. /\ got \in Seq(Inp!Inputs) /\ DOMAIN got = 1 .. Len(got) /\ Len(got) \in Nat
      /\ fifo \in Seq(Inp!Inputs) /\ DOMAIN fifo = 1 .. Len(fifo) /\ Len(fifo) \in Nat
      /\ arrived \in Nat /\ lost \subseteq Inp!Inputs
      /\ \A i \in DOMAIN got : got[i] \in Nat
      /\ \A i \in DOMAIN fifo : fifo[i] \in Nat /\ fifo[i] \in 1 .. arrived
      /\ ring \in [Inp!Slots -> Inp!Inputs \cup {0}] /\ \A s \in Inp!Slots : ring[s] \in Nat
      /\ \A i \in 1 .. Count : SlotOf(rxTail, i) \in Inp!Slots /\ Nth(i) \in Nat
      /\ Count \in Nat
  BY InpTypes
<1>p. PlaceInv /\ RingInv /\ Inp!TypeOK
  BY DEF InpInv
<1> DEFINE c == Head(fifo)
<1>1. /\ fifo' \in Seq(Inp!Inputs) /\ Len(fifo') = Len(fifo) - 1 /\ Len(fifo) >= 1
      /\ \A i \in 1 .. Len(fifo) - 1 : fifo'[i] = fifo[i + 1]
      /\ c = fifo[1] /\ c \in Inp!Inputs
      /\ Inp!ToSet(fifo) = Inp!ToSet(fifo') \cup {c}
  BY <1>t, TailIs
<1>2. \/ /\ Inp!After(rxHead) # rxTail /\ ring' = [ring EXCEPT ![rxHead] = c]
         /\ rxHead' = Inp!After(rxHead) /\ lost' = lost
      \/ UNCHANGED <<ring, rxHead>> /\ lost' = lost \cup {c}
  BY DEF Inp!Put
<1> HIDE DEF c
<1>3. DOMAIN fifo' = 1 .. Len(fifo) - 1 /\ \A j \in DOMAIN fifo' : j + 1 \in DOMAIN fifo
  BY <1>1, <1>t
<1>4. /\ c \in Nat /\ c \in 1 .. arrived /\ c # 0 /\ c \notin lost
      /\ \A j \in DOMAIN fifo' : c < fifo'[j]
      /\ \A j \in DOMAIN got : got[j] < c
      /\ \A s \in Inp!Slots : ring[s] < c
  <2>1. 1 \in DOMAIN fifo
    BY <1>1, <1>t
  <2>2. c \in Nat /\ c \in 1 .. arrived /\ c # 0
    BY <1>1, <1>t, <2>1
  <2>3. c \notin lost
    BY <1>1, <1>p DEF PlaceInv
  <2>4. ASSUME NEW j \in DOMAIN fifo' PROVE c < fifo'[j]
    <3>1. 1 < j + 1 /\ j + 1 \in DOMAIN fifo /\ fifo'[j] = fifo[j + 1]
      BY <1>1, <1>3, <1>t
    <3> QED BY <1>1, <1>p, <2>1, <3>1 DEF PlaceInv
  <2>5. \A j \in DOMAIN got : got[j] < c
    BY <1>1, <1>p, <2>1 DEF PlaceInv
  <2>6. \A s \in Inp!Slots : ring[s] < c
    BY <1>1, <1>p, <2>1 DEF PlaceInv
  <2> QED BY <2>2, <2>3, <2>4, <2>5, <2>6
<1>5. /\ \A i, j \in DOMAIN fifo' : i < j => fifo'[i] < fifo'[j]
      /\ \A i \in DOMAIN got, j \in DOMAIN fifo' : got[i] < fifo'[j]
      /\ \A s \in Inp!Slots, j \in DOMAIN fifo' : ring[s] < fifo'[j]
      /\ Inp!ToSet(fifo') \cap lost = {} /\ c \notin Inp!ToSet(fifo')
  <2>1. \A j \in DOMAIN fifo' : fifo'[j] = fifo[j + 1]
    BY <1>1, <1>3
  <2>2. \A i, j \in DOMAIN fifo' : i < j => i + 1 < j + 1
    BY <1>1, <1>3, <1>t
  <2>3. \A i, j \in DOMAIN fifo' : i < j => fifo'[i] < fifo'[j]
    BY <1>3, <1>p, <2>1, <2>2 DEF PlaceInv
  <2>4. /\ \A i \in DOMAIN got, j \in DOMAIN fifo' : got[i] < fifo'[j]
        /\ \A s \in Inp!Slots, j \in DOMAIN fifo' : ring[s] < fifo'[j]
    BY <1>3, <1>p, <2>1 DEF PlaceInv
  <2>5. Inp!ToSet(fifo') \cap lost = {}
    BY <1>1, <1>p DEF PlaceInv
  <2>6. c \notin Inp!ToSet(fifo')
    <3>1. SUFFICES ASSUME NEW j \in DOMAIN fifo', fifo'[j] = c PROVE FALSE
      BY DEF Inp!ToSet
    <3> QED BY <1>4, <3>1
  <2> QED BY <2>3, <2>4, <2>5, <2>6
<1>6. c \notin Inp!ToSet(got)
  <2>1. SUFFICES ASSUME NEW j \in DOMAIN got, got[j] = c PROVE FALSE
    BY DEF Inp!ToSet
  <2> QED BY <1>4, <2>1
<1>7. /\ \A i \in 1 .. Count : Nth(i) < c
      /\ First \in {1, 2} /\ First' = First /\ \A i \in First .. Count : i \in 1 .. Count
  <2>1. \A i \in 1 .. Count : Nth(i) < c
    BY <1>4, <1>t DEF Nth
  <2> QED BY <1>t, <2>1 DEF First
<1>8. /\ Len(fifo') <= FIFO /\ rxHead \in Inp!Slots
  BY <1>1, <1>p, <1>t, InpConstants DEF Inp!TypeOK
<1>9. CASE /\ Inp!After(rxHead) # rxTail /\ ring' = [ring EXCEPT ![rxHead] = c]
           /\ rxHead' = Inp!After(rxHead) /\ lost' = lost
  <2>1. /\ Count' = Count + 1
        /\ \A i \in 1 .. Count : Nth(i)' = Nth(i)
        /\ Nth(Count)' = c
    BY <1>9, <1>p, PutRing
  <2>2. /\ ring' \in [Inp!Slots -> Inp!Inputs \cup {0}] /\ rxHead' \in Inp!Slots
        /\ \A s \in Inp!Slots : ring'[s] = IF s = rxHead THEN c ELSE ring[s]
    BY <1>1, <1>8, <1>9, <1>t, AfterIs
  <2>3. \A i : i \in 1 .. Count' <=> i \in 1 .. Count \/ i = Count'
    BY <1>t, <2>1
  <2>4. Nth(Count)' = ring'[SlotOf(rxTail', Count')]
    BY DEF Nth
  <2>5. {ring'[SlotOf(rxTail', i)] : i \in 1 .. Count'} = {Nth(i) : i \in 1 .. Count} \cup {c}
    BY <2>1, <2>3, <2>4 DEF Nth
  <2>6. Unread' = Unread \cup {c}
    <3>1. Unread' = {ring'[SlotOf(rxTail', i)] : i \in 1 .. Count'} \ (Inp!ToSet(got) \cup {0})
      BY DEF Unread, Nth
    <3> QED BY <1>4, <1>6, <2>5, <3>1 DEF Unread
  <2>7. PlaceInv'
    <3>1. \A s \in Inp!Slots : ring'[s] <= arrived /\ \A j \in DOMAIN fifo' : ring'[s] < fifo'[j]
      BY <1>4, <1>5, <1>p, <1>t, <2>2 DEF PlaceInv
    <3>2. Inp!ToSet(got) \cup Unread' \cup Inp!ToSet(fifo') \cup lost = 1 .. arrived
      BY <1>1, <1>p, <2>6 DEF PlaceInv
    <3> QED BY <1>5, <1>9, <1>p, <3>1, <3>2 DEF PlaceInv
  <2>8. RingInv'
    <3> DEFINE N(i) == ring'[SlotOf(rxTail', i)]
    <3>1. /\ Count' = Count + 1 /\ \A i \in 1 .. Count : N(i) = Nth(i)
          /\ N(Count') = c
      BY <2>1, <2>4 DEF Nth
    <3>2. /\ \A i : i \in First' .. Count' => i \in First .. Count \/ i = Count'
      BY <1>7, <1>t, <3>1
    <3> HIDE DEF N
    <3>3. thread # "flush" =>
             /\ \A i, j \in 1 .. Count' : i < j => N(i) < N(j)
             /\ \A i \in 1 .. Count' : N(i) # 0
             /\ \A i \in First' .. Count' : N(i) \notin lost /\ \A j \in DOMAIN got : got[j] < N(i)
             /\ thread = "move" => N(1) \in Inp!ToSet(got)
      <4> SUFFICES ASSUME thread # "flush"
                   PROVE  /\ \A i, j \in 1 .. Count' : i < j => N(i) < N(j)
                          /\ \A i \in 1 .. Count' : N(i) # 0
                          /\ \A i \in First' .. Count' :
                                N(i) \notin lost /\ \A j \in DOMAIN got : got[j] < N(i)
                          /\ thread = "move" => N(1) \in Inp!ToSet(got)
        OBVIOUS
      <4>1. ASSUME NEW i \in 1 .. Count', NEW j \in 1 .. Count', i < j PROVE N(i) < N(j)
        <5>1. i \in 1 .. Count
          BY <1>t, <3>1, <4>1
        <5>2. CASE j \in 1 .. Count
          BY <1>p, <3>1, <4>1, <5>1, <5>2 DEF RingInv
        <5>3. CASE j = Count'
          BY <1>7, <3>1, <5>1, <5>3
        <5> QED BY <2>3, <5>2, <5>3
      <4>2. \A i \in 1 .. Count' : N(i) # 0
        BY <1>4, <1>p, <2>3, <3>1 DEF RingInv
      <4>3. \A i \in First' .. Count' : N(i) \notin lost /\ \A j \in DOMAIN got : got[j] < N(i)
        BY <1>4, <1>7, <1>p, <3>1, <3>2 DEF RingInv
      <4>4. thread = "move" => N(1) \in Inp!ToSet(got)
        <5>1. thread = "move" => 1 \in 1 .. Count
          BY <1>p, <1>t DEF RingInv
        <5> QED BY <1>p, <3>1, <5>1 DEF RingInv
      <4> QED BY <4>1, <4>2, <4>3, <4>4
    <3>4. thread \in {"read", "move"} => Count' >= 1
      BY <1>t, <3>1
    <3> QED BY <1>9, <1>p, <3>3, <3>4 DEF RingInv, Nth, N
  <2> QED BY <1>1, <1>8, <1>9, <1>t, <2>2, <2>7, <2>8
<1>10. CASE UNCHANGED <<ring, rxHead>> /\ lost' = lost \cup {c}
  <2>1. Count' = Count /\ Unread' = Unread /\ \A i : Nth(i)' = Nth(i)
    BY <1>10 DEF Count, Unread, Nth
  <2>2. PlaceInv'
    <3>1. \A s \in Inp!Slots : ring'[s] <= arrived /\ \A j \in DOMAIN fifo' : ring'[s] < fifo'[j]
      BY <1>5, <1>10, <1>p DEF PlaceInv
    <3>2. /\ Inp!ToSet(got) \cup Unread \cup Inp!ToSet(fifo') \cup (lost \cup {c}) = 1 .. arrived
          /\ Inp!ToSet(got) \cap (lost \cup {c}) = {}
          /\ Inp!ToSet(fifo') \cap (lost \cup {c}) = {}
      BY <1>1, <1>5, <1>6, <1>p DEF PlaceInv
    <3> QED BY <1>5, <1>10, <1>p, <2>1, <3>1, <3>2 DEF PlaceInv
  <2>3. RingInv'
    <3>1. \A i \in 1 .. Count : Nth(i) # c
      BY <1>7, <1>4, <1>t
    <3> QED BY <1>7, <1>10, <1>p, <2>1, <3>1 DEF RingInv
  <2> QED BY <1>1, <1>4, <1>8, <1>10, <1>t, <2>2, <2>3
<1> QED BY <1>2, <1>9, <1>10

LEMMA HandlerKeeps ==
    ASSUME InpInv, Inp!Drain \/ Inp!KeyCode PROVE Inp!TypeOK' /\ PlaceInv' /\ RingInv'
<1>1. /\ isr' \in {"none", "data"} /\ lineError' \in BOOLEAN
      /\ UNCHANGED <<kind, arrived, initialized, boot, thread, got, rxTail>>
  BY DEF Inp!Drain, Inp!KeyCode, Inp!ringVars, InpInv, Inp!TypeOK
<1>2. CASE fifo = <<>>
  <2>1. UNCHANGED <<fifo, ring, rxHead, rxTail, lost>>
    BY <1>2 DEF Inp!Drain, Inp!KeyCode, Inp!ringVars
  <2>2. Inp!TypeOK'
    BY <1>1, <2>1 DEF InpInv, Inp!TypeOK
  <2> QED BY <1>1, <2>1, <2>2, SameBytes
<1>3. CASE fifo # <<>>
  <2>1. /\ fifo' = Tail(fifo)
        /\ Inp!Put(Head(fifo)) \/ (UNCHANGED <<ring, rxHead>> /\ lost' = lost \cup {Head(fifo)})
    BY <1>3 DEF Inp!Drain, Inp!KeyCode
  <2>2. /\ PlaceInv' /\ RingInv'
        /\ fifo' \in Seq(Inp!Inputs) /\ Len(fifo') <= FIFO /\ lost' \subseteq Inp!Inputs
        /\ ring' \in [Inp!Slots -> Inp!Inputs \cup {0}] /\ rxHead' \in Inp!Slots
    BY <1>1, <1>3, <2>1, TakeKeeps
  <2>3. Inp!TypeOK'
    BY <1>1, <2>2 DEF InpInv, Inp!TypeOK
  <2> QED BY <2>2, <2>3
<1> QED BY <1>2, <1>3

\* serial_getc: the oldest byte of the ring is read, and then passed.
LEMMA ReadKeeps ==
    ASSUME InpInv, Inp!ReadSlot \/ Inp!MoveTail PROVE Inp!TypeOK' /\ PlaceInv' /\ RingInv'
<1>t. /\ got \in Seq(Inp!Inputs) /\ DOMAIN got = 1 .. Len(got) /\ Len(got) \in Nat
      /\ DOMAIN fifo = 1 .. Len(fifo) /\ \A i \in DOMAIN fifo : fifo[i] \in Nat
      /\ \A i \in DOMAIN got : got[i] \in Nat
      /\ \A i \in 1 .. Count : SlotOf(rxTail, i) \in Inp!Slots /\ Nth(i) \in Nat
      /\ Count \in Nat /\ rxTail \in Inp!Slots
      /\ \A i \in 1 .. Count : Nth(i) \in Inp!Inputs \cup {0}
  BY InpTypes, RingTypes DEF InpInv
<1>p. PlaceInv /\ RingInv /\ Inp!TypeOK
  BY DEF InpInv
<1>1. CASE Inp!ReadSlot
  <2>1. /\ thread = "read" /\ thread' = "move" /\ got' = Append(got, ring[rxTail])
        /\ UNCHANGED <<kind, arrived, fifo, lineError, ring, rxHead, rxTail, initialized,
                       boot, isr, lost>>
    BY <1>1 DEF Inp!ReadSlot, Inp!ThreadStep, Inp!deviceVars, Inp!ringVars
  <2> DEFINE b == Nth(1)
  <2>2. 1 \in 1 .. Count /\ Count >= 1
    BY <1>p, <1>t, <2>1 DEF RingInv
  <2>3. ring[rxTail] = b
    <3>1. SlotOf(rxTail, 1) = rxTail
      <4>1. 1 \in 1 .. SIZE
        BY InpConstants
      <4>2. SlotOf(rxTail, 1) =
                  IF rxTail + 1 - 1 < SIZE THEN rxTail + 1 - 1 ELSE rxTail + 1 - 1 - SIZE
        BY <1>t, <4>1, SlotIs
      <4> QED BY <1>t, <4>2, InpConstants DEF Inp!Slots
    <3> QED BY <3>1 DEF Nth
  <2>4. b \in Inp!Inputs /\ b \in Nat /\ b # 0 /\ b \notin lost /\ \A j \in DOMAIN got : got[j] < b
    <3>1. 1 \in First .. Count
      BY <1>t, <2>1, <2>2 DEF First
    <3> QED BY <1>p, <1>t, <2>1, <2>2, <3>1 DEF RingInv
  <2>5. \A j \in DOMAIN fifo : b < fifo[j]
    BY <1>p, <1>t, <2>2 DEF PlaceInv, Nth
  <2> HIDE DEF b
  <2>6. /\ got' \in Seq(Inp!Inputs) /\ Len(got') = Len(got) + 1
        /\ \A i \in 1 .. Len(got) : got'[i] = got[i]
        /\ got'[Len(got) + 1] = b
        /\ Inp!ToSet(got') = Inp!ToSet(got) \cup {b}
    BY <1>t, <2>1, <2>3, <2>4, AppendIs
  <2>7. /\ DOMAIN got' = 1 .. Len(got) + 1
        /\ \A i \in DOMAIN got' : i \in DOMAIN got \/ i = Len(got) + 1
    BY <1>t, <2>6
  <2>8. Inp!TypeOK'
    BY <1>p, <2>1, <2>6 DEF Inp!TypeOK
  <2>9. Count' = Count /\ First' = 2 /\ First = 1 /\ \A i : Nth(i)' = Nth(i)
    BY <2>1 DEF Count, Nth, First
  <2>10. Unread' \cup Inp!ToSet(got') = Unread \cup Inp!ToSet(got)
    <3>1. b \in {Nth(i) : i \in 1 .. Count}
      BY <2>2 DEF b
    <3>2. Unread' = {Nth(i) : i \in 1 .. Count} \ (Inp!ToSet(got') \cup {0})
      BY <2>9 DEF Unread
    <3> QED BY <2>4, <2>6, <3>1, <3>2 DEF Unread
  <2>11. PlaceInv'
    <3>1. \A i, j \in DOMAIN got' : i < j => got'[i] < got'[j]
      <4>1. SUFFICES ASSUME NEW i \in DOMAIN got', NEW j \in DOMAIN got', i < j
                     PROVE  got'[i] < got'[j]
        OBVIOUS
      <4>2. i \in DOMAIN got
        BY <1>t, <2>7, <4>1
      <4> QED BY <1>p, <1>t, <2>4, <2>6, <2>7, <4>1, <4>2 DEF PlaceInv
    <3>2. \A i \in DOMAIN got', j \in DOMAIN fifo : got'[i] < fifo[j]
      BY <1>p, <1>t, <2>5, <2>6, <2>7 DEF PlaceInv
    <3>3. /\ Inp!ToSet(got') \cap lost = {}
          /\ Inp!ToSet(got') \cup Unread' \cup Inp!ToSet(fifo) \cup lost = 1 .. arrived
      BY <1>p, <2>4, <2>6, <2>10 DEF PlaceInv
    <3> QED BY <1>p, <2>1, <3>1, <3>2, <3>3 DEF PlaceInv
  <2>12. RingInv'
    <3>1. \A i \in 2 .. Count : Nth(i) \notin lost /\ \A j \in DOMAIN got' : got'[j] < Nth(i)
      <4>1. SUFFICES ASSUME NEW i \in 2 .. Count
                     PROVE  Nth(i) \notin lost /\ \A j \in DOMAIN got' : got'[j] < Nth(i)
        OBVIOUS
      <4>2. i \in 1 .. Count /\ 1 < i
        BY <1>t
      <4>3. b < Nth(i) /\ Nth(i) \notin lost /\ \A j \in DOMAIN got : got[j] < Nth(i)
        BY <1>p, <2>1, <2>2, <2>9, <4>2 DEF RingInv, b
      <4> QED BY <1>t, <2>6, <2>7, <4>3
    <3>2. Nth(1) \in Inp!ToSet(got')
      BY <2>6 DEF b
    <3> QED BY <1>p, <2>1, <2>2, <2>9, <3>1, <3>2 DEF RingInv
  <2> QED BY <2>8, <2>11, <2>12
<1>2. CASE Inp!MoveTail
  <2>1. /\ thread = "move" /\ thread' = "idle" /\ rxTail' = Inp!After(rxTail)
        /\ UNCHANGED <<kind, arrived, fifo, lineError, ring, rxHead, initialized,
                       boot, isr, got, lost>>
    BY <1>2 DEF Inp!MoveTail, Inp!ThreadStep, Inp!deviceVars
  <2>2. Count >= 1 /\ 1 \in 1 .. Count /\ Nth(1) \in Inp!ToSet(got)
    BY <1>p, <1>t, <2>1 DEF RingInv
  <2>3. Count' = Count - 1 /\ \A i \in 1 .. Count - 1 : Nth(i)' = Nth(i + 1)
    BY <1>p, <2>1, <2>2, MoveRing
  <2>4. Inp!TypeOK'
    BY <1>p, <1>t, <2>1, AfterIs DEF Inp!TypeOK
  <2> DEFINE N(i) == ring'[SlotOf(rxTail', i)]
  <2>5. \A i \in 1 .. Count - 1 : N(i) = Nth(i + 1)
    BY <2>3 DEF Nth
  <2>6. /\ \A i \in 1 .. Count - 1 : i + 1 \in 2 .. Count /\ i + 1 \in 1 .. Count
        /\ \A i \in 1 .. Count : i = 1 \/ (i - 1 \in 1 .. Count - 1 /\ i = (i - 1) + 1)
        /\ \A i, j \in 1 .. Count - 1 : i < j => i + 1 < j + 1
    BY <1>t
  <2> HIDE DEF N
  <2>7. {N(i) : i \in 1 .. Count - 1} \cup {Nth(1)} = {Nth(i) : i \in 1 .. Count}
    <3>1. ASSUME NEW x \in {N(i) : i \in 1 .. Count - 1} PROVE x \in {Nth(i) : i \in 1 .. Count}
      BY <2>5, <2>6
    <3>2. ASSUME NEW i \in 1 .. Count PROVE Nth(i) \in {N(k) : k \in 1 .. Count - 1} \cup {Nth(1)}
      <4>1. CASE i = 1
        BY <4>1
      <4>2. CASE i - 1 \in 1 .. Count - 1 /\ i = (i - 1) + 1
        <5>1. N(i - 1) = Nth(i)
          BY <2>5, <4>2
        <5> QED BY <4>2, <5>1
      <4> QED BY <2>6, <4>1, <4>2
    <3> QED BY <2>2, <3>1, <3>2
  <2>8. Unread' = Unread
    <3>1. Unread' = {N(i) : i \in 1 .. Count - 1} \ (Inp!ToSet(got) \cup {0})
      BY <2>1, <2>3 DEF Unread, Nth, N
    <3> QED BY <2>2, <2>7, <3>1 DEF Unread
  <2>9. PlaceInv'
    BY <1>p, <2>1, <2>8 DEF PlaceInv
  <2>10. RingInv'
    <3>1. First' = 1 /\ First = 2
      BY <2>1 DEF First
    <3>2. /\ \A i, j \in 1 .. Count - 1 : i < j => N(i) < N(j)
          /\ \A i \in 1 .. Count - 1 : N(i) # 0
          /\ \A i \in 1 .. Count - 1 : N(i) \notin lost /\ \A j \in DOMAIN got : got[j] < N(i)
      BY <1>p, <2>1, <2>5, <2>6, <3>1 DEF RingInv
    <3> QED BY <2>1, <2>3, <3>1, <3>2 DEF RingInv, Nth, N
  <2> QED BY <2>4, <2>9, <2>10
<1> QED BY <1>1, <1>2

\* ps2_kbd_flush: whatever the ring holds and nobody has read is lost.
LEMMA FlushKeeps ==
    ASSUME InpInv, Inp!FlushTail \/ Inp!FlushHead PROVE Inp!TypeOK' /\ PlaceInv' /\ RingInv'
<1>t. /\ DOMAIN fifo = 1 .. Len(fifo) /\ \A i \in DOMAIN fifo : fifo[i] \in Nat
      /\ arrived \in Nat /\ arrived <= MaxInput /\ lost \subseteq Inp!Inputs
      /\ ring \in [Inp!Slots -> Inp!Inputs \cup {0}] /\ \A s \in Inp!Slots : ring[s] \in Nat
      /\ \A i \in 1 .. Count : SlotOf(rxTail, i) \in Inp!Slots
  BY InpTypes
<1>p. PlaceInv /\ RingInv /\ Inp!TypeOK
  BY DEF InpInv
<1>1. Inp!Dropped = Unread
  <2>1. Inp!InRing = [i \in 1 .. Count |-> Nth(i)]
    BY DEF Inp!InRing, Count, CountOf, Nth, SlotOf
  <2>2. Inp!ToSet(Inp!InRing) = {Nth(i) : i \in 1 .. Count}
    BY <2>1 DEF Inp!ToSet
  <2> QED BY <2>2 DEF Inp!Dropped, Unread
<1>2. /\ lost' = lost \cup Unread
      /\ UNCHANGED <<kind, arrived, fifo, lineError, ring, initialized, boot, isr, got>>
      /\ \/ thread' = "flush" /\ rxTail' = 0 /\ rxHead' = rxHead
         \/ thread = "flush" /\ thread' = "idle" /\ rxHead' = 0 /\ rxTail' = rxTail
  BY <1>1 DEF Inp!FlushTail, Inp!FlushHead, Inp!ThreadStep, Inp!deviceVars
<1>3. 0 \in Inp!Slots
  BY InpConstants DEF Inp!Slots
<1>4. /\ Unread \subseteq 1 .. arrived /\ Unread \subseteq Inp!Inputs
      /\ Unread \cap Inp!ToSet(fifo) = {} /\ Unread \cap Inp!ToSet(got) = {}
  <2>1. Unread \subseteq 1 .. arrived
    BY <1>p DEF PlaceInv
  <2>2. Unread \subseteq Inp!Inputs
    BY <1>t, <2>1, InpConstants DEF Inp!Inputs
  <2>3. ASSUME NEW x \in Unread, NEW j \in DOMAIN fifo, fifo[j] = x PROVE FALSE
    <3>1. PICK i \in 1 .. Count : x = ring[SlotOf(rxTail, i)]
      BY <2>3 DEF Unread, Nth
    <3>2. x < fifo[j] /\ fifo[j] \in Nat
      BY <1>p, <1>t, <3>1 DEF PlaceInv
    <3> QED BY <2>3, <3>2
  <2>4. Unread \cap Inp!ToSet(fifo) = {}
    BY <2>3 DEF Inp!ToSet
  <2> QED BY <2>1, <2>2, <2>4 DEF Unread
<1>5. Inp!TypeOK'
  <2>1. rxHead' \in Inp!Slots /\ rxTail' \in Inp!Slots /\ lost' \subseteq Inp!Inputs
        /\ thread' \in {"idle", "flush"}
    BY <1>2, <1>3, <1>4, <1>p DEF Inp!TypeOK
  <2> QED BY <1>2, <1>p, <2>1 DEF Inp!TypeOK
<1>6. PlaceInv'
  <2>1. Unread' \subseteq 1 .. arrived
    <3>1. \A i \in 1 .. Count' : SlotOf(rxTail', i) \in Inp!Slots
      <4>1. /\ rxHead' \in Inp!Slots /\ rxTail' \in Inp!Slots
            /\ Count' = CountOf(rxHead', rxTail')
        BY <1>5 DEF Inp!TypeOK, Count
      <4>2. CountOf(rxHead', rxTail') \in 0 .. SIZE - 1
        BY <4>1, CountIs
      <4>3. \A i \in 1 .. Count' : i \in 1 .. SIZE
        BY <4>1, <4>2, InpConstants
      <4> QED BY <4>1, <4>3, SlotIs
    <3>2. Unread' = {ring[SlotOf(rxTail', i)] : i \in 1 .. Count'} \ (Inp!ToSet(got) \cup {0})
      BY <1>2 DEF Unread, Nth
    <3>3. \A s \in Inp!Slots : ring[s] = 0 \/ ring[s] \in 1 .. arrived
      BY <1>p, <1>t DEF PlaceInv
    <3> QED BY <3>1, <3>2, <3>3
  <2>2. /\ Inp!ToSet(got) \cap lost' = {} /\ Inp!ToSet(fifo) \cap lost' = {}
        /\ Inp!ToSet(got) \cup Unread' \cup Inp!ToSet(fifo) \cup lost' = 1 .. arrived
    BY <1>2, <1>4, <1>p, <2>1 DEF PlaceInv
  <2> QED BY <1>2, <1>p, <2>2 DEF PlaceInv
<1>7. RingInv'
  <2>1. CASE thread' = "flush"
    BY <1>2, <1>p, <2>1 DEF RingInv
  <2>2. CASE thread' = "idle"
    <3>1. rxHead' = 0 /\ rxTail' = 0
      BY <1>2, <1>p, <2>2 DEF RingInv
    <3>2. Count' = 0
      <4>1. CountOf(0, 0) = 0 - 0
        BY <1>3, CountIs
      <4> QED BY <3>1, <4>1 DEF Count
    <3>3. First' = 1
      BY <2>2 DEF First
    <3> QED BY <2>2, <3>2, <3>3 DEF RingInv
  <2> QED BY <1>2, <2>1, <2>2
<1> QED BY <1>5, <1>6, <1>7

\* Whoever steps: the device, the initialisation, the handler or the thread.
LEMMA InpKeeps == ASSUME InpInv, Inp!Next \/ UNCHANGED inputVars PROVE InpInv'
<1>1. CASE UNCHANGED inputVars
  <2>1. UNCHANGED <<kind, arrived, fifo, lineError, ring, rxHead, rxTail, initialized, boot,
                    isr, thread, got, lost>>
    BY <1>1 DEF inputVars
  <2>2. Inp!TypeOK' /\ QuietBoot'
    BY <2>1 DEF InpInv, Inp!TypeOK, QuietBoot
  <2> QED BY <2>1, <2>2, SameBytes DEF InpInv
<1>2. CASE Inp!Next
  <2>1. Inp!TypeOK' /\ PlaceInv' /\ RingInv'
    BY <1>2, ArriveKeeps, EnableKeeps, QuietKeeps, HandlerKeeps, ReadKeeps, FlushKeeps
    DEF Inp!Next, Inp!Handler, Inp!Reading
  <2> QED BY <1>2, <2>1, BootStaysQuiet DEF InpInv
<1> QED BY <1>1, <1>2

\* Two ascending sequences, the first below the second, make one.
LEMMA Join ==
    ASSUME NEW a \in Seq(Nat), NEW b \in Seq(Nat),
           \A i, j \in DOMAIN a : i < j => a[i] < a[j],
           \A i, j \in DOMAIN b : i < j => b[i] < b[j],
           \A x \in Inp!ToSet(a), y \in Inp!ToSet(b) : x < y
    PROVE  /\ a \o b \in Seq(Nat)
           /\ \A i, j \in DOMAIN (a \o b) : i < j => (a \o b)[i] < (a \o b)[j]
           /\ Inp!ToSet(a \o b) = Inp!ToSet(a) \cup Inp!ToSet(b)
<1> DEFINE c == a \o b
           m == Len(a)
           n == Len(b)
<1>1. /\ c \in Seq(Nat) /\ Len(c) = m + n /\ m \in Nat /\ n \in Nat
      /\ \A i \in 1 .. m : c[i] = a[i]
      /\ \A i \in m + 1 .. m + n : c[i] = b[i - m]
      /\ DOMAIN c = 1 .. m + n /\ DOMAIN a = 1 .. m /\ DOMAIN b = 1 .. n
  OBVIOUS
<1> HIDE DEF c, m, n
<1>2. /\ \A i \in 1 .. m + n : i \in 1 .. m \/ (i \in m + 1 .. m + n /\ i - m \in 1 .. n)
      /\ \A i \in 1 .. n : i + m \in m + 1 .. m + n /\ (i + m) - m = i /\ i + m \in 1 .. m + n
      /\ \A i \in 1 .. m : i \in 1 .. m + n
  BY <1>1
<1>3. /\ \A i \in 1 .. m : a[i] \in Inp!ToSet(a)
      /\ \A i \in 1 .. n : b[i] \in Inp!ToSet(b)
  BY <1>1 DEF Inp!ToSet
<1>4. ASSUME NEW i \in DOMAIN c, NEW j \in DOMAIN c, i < j PROVE c[i] < c[j]
  <2>1. CASE j \in 1 .. m
    <3>1. i \in 1 .. m
      BY <1>1, <1>4, <2>1
    <3> QED BY <1>1, <1>4, <2>1, <3>1
  <2>2. CASE i \in 1 .. m /\ j \in m + 1 .. m + n /\ j - m \in 1 .. n
    BY <1>1, <1>3, <2>2
  <2>3. CASE i \in m + 1 .. m + n /\ i - m \in 1 .. n /\ j \in m + 1 .. m + n /\ j - m \in 1 .. n
    <3>1. i - m < j - m
      BY <1>1, <1>4, <2>3
    <3> QED BY <1>1, <2>3, <3>1
  <2> QED BY <1>1, <1>2, <2>1, <2>2, <2>3
<1>5. Inp!ToSet(c) = Inp!ToSet(a) \cup Inp!ToSet(b)
  <2>1. ASSUME NEW x \in Inp!ToSet(c) PROVE x \in Inp!ToSet(a) \cup Inp!ToSet(b)
    <3>1. PICK i \in 1 .. m + n : x = c[i]
      BY <1>1, <2>1 DEF Inp!ToSet
    <3> QED BY <1>1, <1>2, <1>3, <3>1
  <2>2. ASSUME NEW x \in Inp!ToSet(a) PROVE x \in Inp!ToSet(c)
    BY <1>1, <1>2, <2>2 DEF Inp!ToSet
  <2>3. ASSUME NEW x \in Inp!ToSet(b) PROVE x \in Inp!ToSet(c)
    <3>1. PICK i \in 1 .. n : x = b[i]
      BY <1>1, <2>3 DEF Inp!ToSet
    <3>2. c[i + m] = b[i] /\ i + m \in 1 .. m + n
      BY <1>1, <1>2, <3>1
    <3> QED BY <1>1, <3>1, <3>2 DEF Inp!ToSet
  <2> QED BY <2>1, <2>2, <2>3
<1> QED BY <1>1, <1>4, <1>5 DEF c

\* The invariant says where the bytes are, and in which order.
LEMMA InpSafe == ASSUME InpInv PROVE Inp!InputInOrder
<1>1. ASSUME thread # "flush" PROVE Inp!InputInOrder
  <2>t. /\ got \in Seq(Inp!Inputs) /\ DOMAIN got = 1 .. Len(got)
        /\ fifo \in Seq(Inp!Inputs) /\ DOMAIN fifo = 1 .. Len(fifo)
        /\ \A i \in DOMAIN got : got[i] \in Nat
        /\ \A i \in DOMAIN fifo : fifo[i] \in Nat
        /\ \A i \in 1 .. Count : SlotOf(rxTail, i) \in Inp!Slots /\ Nth(i) \in Nat
        /\ Count \in Nat
    BY InpTypes
  <2>p. PlaceInv /\ RingInv
    BY DEF InpInv
  <2> DEFINE w == Inp!Waiting
             r == Inp!InRing
  <2>1. r = [i \in 1 .. Count |-> Nth(i)]
    BY DEF Inp!InRing, Count, CountOf, Nth, SlotOf
  <2>2. /\ r \in Seq(Nat) /\ Len(r) = Count /\ \A i \in 1 .. Count : r[i] = Nth(i)
    BY <2>t, <2>1
  <2>3. w = IF thread = "move" THEN Tail(r) ELSE r
    BY DEF Inp!Waiting
  <2> HIDE DEF w, r
  <2>4. /\ w \in Seq(Nat)
        /\ \A i, j \in DOMAIN w : i < j => w[i] < w[j]
        /\ Inp!ToSet(w) = {Nth(i) : i \in First .. Count}
    <3>1. CASE thread # "move"
      <4>1. w = r /\ First = 1 /\ DOMAIN r = 1 .. Count
        BY <2>2, <2>3, <3>1 DEF First
      <4> QED BY <1>1, <2>2, <2>p, <4>1 DEF RingInv, Inp!ToSet
    <3>2. CASE thread = "move"
      <4>1. r # <<>> /\ Count >= 1
        BY <2>2, <2>p, <2>t, <3>2 DEF RingInv
      <4>2. /\ w \in Seq(Nat) /\ Len(w) = Count - 1 /\ First = 2
            /\ \A i \in 1 .. Count - 1 : w[i] = r[i + 1]
        BY <2>2, <2>3, <3>2, <4>1, TailIs DEF First
      <4>3. DOMAIN w = 1 .. Count - 1
        BY <4>2
      <4>4. /\ \A i \in 1 .. Count - 1 : i + 1 \in 1 .. Count /\ i + 1 \in 2 .. Count
            /\ \A i, j \in 1 .. Count - 1 : i < j => i + 1 < j + 1
            /\ \A i \in 2 .. Count : i - 1 \in 1 .. Count - 1 /\ i = (i - 1) + 1
        BY <2>t
      <4>5. \A i \in 1 .. Count - 1 : w[i] = Nth(i + 1)
        BY <2>2, <4>2, <4>4
      <4>6. \A i, j \in DOMAIN w : i < j => w[i] < w[j]
        BY <1>1, <2>p, <4>3, <4>4, <4>5 DEF RingInv
      <4>7. Inp!ToSet(w) = {Nth(i) : i \in 2 .. Count}
        <5>1. \A x \in Inp!ToSet(w) : x \in {Nth(i) : i \in 2 .. Count}
          BY <4>3, <4>4, <4>5 DEF Inp!ToSet
        <5>2. ASSUME NEW i \in 2 .. Count PROVE Nth(i) \in Inp!ToSet(w)
          <6>1. w[i - 1] = Nth(i) /\ i - 1 \in DOMAIN w
            BY <4>3, <4>4, <4>5
          <6> QED BY <6>1 DEF Inp!ToSet
        <5> QED BY <5>1, <5>2
      <4> QED BY <4>2, <4>6, <4>7
    <3> QED BY <3>1, <3>2
  <2>5. /\ First \in {1, 2} /\ \A i \in First .. Count : i \in 1 .. Count
        /\ \A i \in 1 .. Count : i \in First .. Count \/ (i = 1 /\ thread = "move")
    BY <2>t DEF First
  <2>6. /\ Inp!ToSet(w) = Unread /\ Inp!ToSet(w) \cap lost = {}
        /\ \A x \in Inp!ToSet(got), y \in Inp!ToSet(w) : x < y
    <3>1. \A i \in First .. Count : Nth(i) \notin Inp!ToSet(got)
      <4>1. SUFFICES ASSUME NEW i \in First .. Count, NEW j \in DOMAIN got, got[j] = Nth(i)
                     PROVE  FALSE
        BY DEF Inp!ToSet
      <4>2. got[j] < Nth(i) /\ got[j] \in Nat
        BY <1>1, <2>p, <2>t DEF RingInv
      <4> QED BY <4>1, <4>2
    <3>2. \A i \in 1 .. Count : Nth(i) # 0 /\ (i \in First .. Count \/ Nth(i) \in Inp!ToSet(got))
      BY <1>1, <2>5, <2>p DEF RingInv
    <3>3. Inp!ToSet(w) = Unread
      BY <2>4, <2>5, <3>1, <3>2 DEF Unread
    <3>4. \A i \in First .. Count : Nth(i) \notin lost /\ \A j \in DOMAIN got : got[j] < Nth(i)
      BY <1>1, <2>p DEF RingInv
    <3>5. Inp!ToSet(w) \cap lost = {}
      BY <2>4, <3>4
    <3>6. \A x \in Inp!ToSet(got), y \in Inp!ToSet(w) : x < y
      BY <2>4, <3>4 DEF Inp!ToSet
    <3> QED BY <3>3, <3>5, <3>6
  <2>7. /\ got \in Seq(Nat) /\ fifo \in Seq(Nat)
    BY <2>t
  <2>8. /\ got \o w \in Seq(Nat)
        /\ \A i, j \in DOMAIN (got \o w) : i < j => (got \o w)[i] < (got \o w)[j]
        /\ Inp!ToSet(got \o w) = Inp!ToSet(got) \cup Inp!ToSet(w)
    BY <2>4, <2>6, <2>7, <2>p, Join DEF PlaceInv
  <2>9. \A x \in Inp!ToSet(got \o w), y \in Inp!ToSet(fifo) : x < y
    <3>1. \A x \in Inp!ToSet(got), y \in Inp!ToSet(fifo) : x < y
      BY <2>p DEF PlaceInv, Inp!ToSet
    <3>2. \A i \in 1 .. Count, j \in DOMAIN fifo : Nth(i) < fifo[j]
      BY <2>p, <2>t DEF PlaceInv, Nth
    <3>3. \A x \in Inp!ToSet(w), y \in Inp!ToSet(fifo) : x < y
      BY <2>4, <2>5, <3>2 DEF Inp!ToSet
    <3> QED BY <2>8, <3>1, <3>3
  <2> DEFINE path == (got \o w) \o fifo
  <2>10. /\ \A i, j \in DOMAIN path : i < j => path[i] < path[j]
         /\ Inp!ToSet(path) = Inp!ToSet(got) \cup Inp!ToSet(w) \cup Inp!ToSet(fifo)
    <3>1. \A i, j \in DOMAIN fifo : i < j => fifo[i] < fifo[j]
      BY <2>p DEF PlaceInv
    <3> DEFINE h == got \o w
    <3>2. /\ h \in Seq(Nat) /\ \A i, j \in DOMAIN h : i < j => h[i] < h[j]
          /\ \A x \in Inp!ToSet(h), y \in Inp!ToSet(fifo) : x < y
      BY <2>8, <2>9
    <3>3. path = h \o fifo
      OBVIOUS
    <3> HIDE DEF h, path
    <3>4. /\ \A i, j \in DOMAIN path : i < j => path[i] < path[j]
          /\ Inp!ToSet(path) = Inp!ToSet(h) \cup Inp!ToSet(fifo)
      BY <2>7, <3>1, <3>2, <3>3, Join
    <3> QED BY <2>8, <3>4 DEF h
  <2> HIDE DEF path
  <2>11. Inp!ToSet(path) \cap lost = {} /\ Inp!ToSet(path) \cup lost = 1 .. arrived
    BY <2>6, <2>10, <2>p DEF PlaceInv
  <2> QED BY <2>10, <2>11 DEF Inp!InputInOrder, path, w
<1> QED BY <1>1 DEF Inp!InputInOrder

----------------------------------------------------------------------------
(* The sum of a function on a finite set *)

\* What SumFunctionOnSet computes on the way to the sum.
Pick(s) == CHOOSE x \in s : TRUE
Sums(f, A, it) ==
    it = [s \in SUBSET A |-> IF s = {} THEN 0 ELSE f[Pick(s)] + it[s \ {Pick(s)}]]

\* What holds of the empty set, and of a set if it holds without the element the
\* sum picks, holds of every subset.
LEMMA EverySubset ==
    ASSUME NEW A, IsFiniteSet(A), NEW Good, {} \in Good,
           \A s \in SUBSET A : s # {} /\ s \ {Pick(s)} \in Good => s \in Good
    PROVE  \A s \in SUBSET A : s \in Good
<1> DEFINE R == {n \in Nat : \E s \in SUBSET A : Cardinality(s) = n /\ s \notin Good}
<1>1. \A s \in SUBSET A : IsFiniteSet(s) /\ Cardinality(s) \in Nat
  BY FS_Subset, FS_CardinalityType
<1>2. ASSUME R # {} PROVE FALSE
  <2>1. R \subseteq Nat
    OBVIOUS
  <2>2. PICK n \in R : \A k \in R : <<k, n>> \notin OpToRel(<, Nat)
    <3> HIDE DEF R
    <3> QED BY <1>2, <2>1, NatLessThanWellFounded, WFMin
  <2>3. PICK s \in SUBSET A : Cardinality(s) = n /\ s \notin Good
    OBVIOUS
  <2>4. s # {} /\ Pick(s) \in s
    BY <2>3 DEF Pick
  <2>5. /\ s \ {Pick(s)} \in SUBSET A /\ Cardinality(s \ {Pick(s)}) = n - 1
        /\ n \in Nat /\ n - 1 \in Nat /\ n - 1 < n
    <3>1. Cardinality(s \ {Pick(s)}) = n - 1 /\ s \ {Pick(s)} \in SUBSET A
      BY <1>1, <2>3, <2>4, FS_RemoveElement
    <3>2. Cardinality(s \ {Pick(s)}) \in Nat /\ n \in Nat
      BY <1>1, <2>3, <3>1
    <3> QED BY <3>1, <3>2
  <2>6. n - 1 \notin R
    <3> HIDE DEF R
    <3> QED BY <2>2, <2>5 DEF OpToRel
  <2>7. s \ {Pick(s)} \in Good
    BY <2>5, <2>6
  <2> QED BY <2>3, <2>4, <2>7
<1> QED BY <1>1, <1>2

\* There is such a computation.
LEMMA SumExists ==
    ASSUME NEW A, IsFiniteSet(A), NEW f
    PROVE  \E it : Sums(f, A, it)
<1> DEFINE Upto(n) == {s \in SUBSET A : Cardinality(s) <= n}
           Makes(it, n) == it = [s \in Upto(n) |->
               IF s = {} THEN 0 ELSE f[Pick(s)] + it[s \ {Pick(s)}]]
           R == {n \in Nat : ~\E it : Makes(it, n)}
<1>1. \A s \in SUBSET A : IsFiniteSet(s) /\ Cardinality(s) \in Nat
  BY FS_Subset, FS_CardinalityType
<1>2. ASSUME NEW s \in SUBSET A, s # {}
      PROVE  /\ s \ {Pick(s)} \in SUBSET A
             /\ Cardinality(s \ {Pick(s)}) = Cardinality(s) - 1
  <2>1. Pick(s) \in s
    BY <1>2 DEF Pick
  <2> QED BY <1>1, <2>1, FS_RemoveElement
<1>3. ASSUME R # {} PROVE FALSE
  <2>1. R \subseteq Nat
    OBVIOUS
  <2>2. PICK n \in R : \A k \in R : <<k, n>> \notin OpToRel(<, Nat)
    <3> HIDE DEF R
    <3> QED BY <1>3, <2>1, NatLessThanWellFounded, WFMin
  <2>3. CASE n = 0
    <3>1. \A s \in Upto(0) : s = {}
      BY <1>1, FS_EmptySet
    <3>2. [s \in Upto(0) |-> 0] = [s \in Upto(0) |-> IF s = {} THEN 0
              ELSE f[Pick(s)] + [t \in Upto(0) |-> 0][s \ {Pick(s)}]]
      BY <3>1
    <3>3. Makes([s \in Upto(0) |-> 0], 0)
      BY <3>2
    <3> QED BY <2>3, <3>3
  <2>4. CASE n # 0
    <3>1. n \in Nat /\ n - 1 \in Nat /\ n - 1 < n
      BY <2>4
    <3>2. n - 1 \notin R
      BY <2>2, <3>1 DEF OpToRel
    <3>3. PICK old : Makes(old, n - 1)
      BY <3>1, <3>2
    <3> DEFINE new == [s \in Upto(n) |->
                   IF s = {} THEN 0 ELSE f[Pick(s)] + old[s \ {Pick(s)}]]
    <3>4. \A t \in Upto(n - 1) : new[t] = old[t]
      <4>1. Upto(n - 1) \subseteq Upto(n)
        BY <1>1, <3>1
      <4>2. SUFFICES ASSUME NEW t \in Upto(n - 1) PROVE new[t] = old[t]
        OBVIOUS
      <4>3. old[t] = IF t = {} THEN 0 ELSE f[Pick(t)] + old[t \ {Pick(t)}]
        BY <3>3
      <4>4. new[t] = IF t = {} THEN 0 ELSE f[Pick(t)] + old[t \ {Pick(t)}]
        BY <4>1
      <4> QED BY <4>3, <4>4
    <3>5. \A s \in Upto(n) : s # {} => s \ {Pick(s)} \in Upto(n - 1)
      BY <1>1, <1>2, <3>1
    <3>6. \A s \in Upto(n) : s # {} => new[s \ {Pick(s)}] = old[s \ {Pick(s)}]
      BY <3>4, <3>5
    <3>7. new = [s \in Upto(n) |-> IF s = {} THEN 0 ELSE f[Pick(s)] + new[s \ {Pick(s)}]]
      <4> HIDE DEF Upto
      <4> QED BY <3>6
    <3>8. Makes(new, n)
      BY <3>7
    <3> QED BY <3>8
  <2> QED BY <2>3, <2>4
<1>4. Cardinality(A) \in Nat /\ Upto(Cardinality(A)) = SUBSET A
  BY FS_Subset, FS_CardinalityType
<1>5. PICK it : Makes(it, Cardinality(A))
  BY <1>3, <1>4
<1>6. Sums(f, A, it)
  BY <1>4, <1>5 DEF Sums
<1> QED BY <1>6

LEMMA SumStep ==
    ASSUME NEW A, NEW f, NEW it, Sums(f, A, it)
    PROVE  /\ it[{}] = 0
           /\ \A s \in SUBSET A : s # {} =>
                  /\ it[s] = f[Pick(s)] + it[s \ {Pick(s)}]
                  /\ Pick(s) \in s /\ Pick(s) \in A /\ s \ {Pick(s)} \in SUBSET A
<1>1. \A s \in SUBSET A : it[s] = IF s = {} THEN 0 ELSE f[Pick(s)] + it[s \ {Pick(s)}]
  BY DEF Sums
<1>2. \A s \in SUBSET A : s # {} => Pick(s) \in s
  BY DEF Pick
<1> QED BY <1>1, <1>2

\* A sum of integers is an integer.
LEMMA SumType ==
    ASSUME NEW A, IsFiniteSet(A), NEW f \in [A -> Int], NEW it, Sums(f, A, it)
    PROVE  \A s \in SUBSET A : it[s] \in Int
<1> DEFINE Good == {s \in SUBSET A : it[s] \in Int}
<1>1. {} \in Good
  BY SumStep
<1>2. ASSUME NEW s \in SUBSET A, s # {}, s \ {Pick(s)} \in Good PROVE s \in Good
  <2>1. /\ it[s] = f[Pick(s)] + it[s \ {Pick(s)}] /\ Pick(s) \in A
        /\ it[s \ {Pick(s)}] \in Int
    BY <1>2, SumStep
  <2>2. f[Pick(s)] \in Int
    BY <2>1
  <2> QED BY <2>1, <2>2
<1>3. \A s \in SUBSET A : s \in Good
  <2> HIDE DEF Good
  <2> QED BY <1>1, <1>2, EverySubset
<1> QED BY <1>3

\* Every term is part of a sum of natural numbers.
LEMMA SumBound ==
    ASSUME NEW A, IsFiniteSet(A), NEW f \in [A -> Nat], NEW it, Sums(f, A, it)
    PROVE  \A s \in SUBSET A : it[s] \in Nat /\ \A a \in s : f[a] <= it[s]
<1> DEFINE Good == {s \in SUBSET A : it[s] \in Nat /\ \A a \in s : f[a] <= it[s]}
<1>1. {} \in Good
  BY SumStep
<1>2. ASSUME NEW s \in SUBSET A, s # {}, s \ {Pick(s)} \in Good PROVE s \in Good
  <2>0. /\ it[s] = f[Pick(s)] + it[s \ {Pick(s)}] /\ Pick(s) \in A
    BY <1>2, SumStep
  <2>1. /\ it[s] = f[Pick(s)] + it[s \ {Pick(s)}] /\ it[s \ {Pick(s)}] \in Nat
        /\ f[Pick(s)] \in Nat
    BY <1>2, <2>0
  <2>2. \A a \in s : f[a] \in Nat /\ (a = Pick(s) \/ f[a] <= it[s \ {Pick(s)}])
    BY <1>2
  <2> QED BY <2>1, <2>2
<1>3. \A s \in SUBSET A : s \in Good
  <2> HIDE DEF Good
  <2> QED BY <1>1, <1>2, EverySubset
<1> QED BY <1>3

\* One term more or less makes the sum that much more or less.
LEMMA SumChange ==
    ASSUME NEW A, IsFiniteSet(A), NEW f \in [A -> Int], NEW g \in [A -> Int],
           NEW i, Sums(f, A, i), NEW j, Sums(g, A, j),
           NEW a \in A, NEW d \in Int, g[a] = f[a] + d, \A x \in A \ {a} : g[x] = f[x]
    PROVE  j[A] = i[A] + d
<1> DEFINE Good == {s \in SUBSET A : j[s] = i[s] + (IF a \in s THEN d ELSE 0)}
<1>1. {} \in Good
  BY SumStep
<1>2. ASSUME NEW s \in SUBSET A, s # {}, s \ {Pick(s)} \in Good PROVE s \in Good
  <2>1. /\ i[s] = f[Pick(s)] + i[s \ {Pick(s)}] /\ j[s] = g[Pick(s)] + j[s \ {Pick(s)}]
        /\ Pick(s) \in s /\ Pick(s) \in A /\ s \ {Pick(s)} \in SUBSET A
    <3>1. /\ i[s] = f[Pick(s)] + i[s \ {Pick(s)}]
          /\ Pick(s) \in s /\ Pick(s) \in A /\ s \ {Pick(s)} \in SUBSET A
      BY <1>2, SumStep
    <3>2. j[s] = g[Pick(s)] + j[s \ {Pick(s)}]
      BY <1>2, SumStep
    <3> QED BY <3>1, <3>2
  <2>2. /\ i[s \ {Pick(s)}] \in Int /\ j[s \ {Pick(s)}] \in Int
        /\ f[Pick(s)] \in Int /\ g[Pick(s)] \in Int
    BY <2>1, SumType
  <2>3. j[s \ {Pick(s)}] = i[s \ {Pick(s)}] + (IF a \in s \ {Pick(s)} THEN d ELSE 0)
    BY <1>2
  <2>4. CASE Pick(s) = a
    BY <2>1, <2>2, <2>3, <2>4
  <2>5. CASE Pick(s) # a
    BY <2>1, <2>2, <2>3, <2>5
  <2> QED BY <2>4, <2>5
<1>3. \A s \in SUBSET A : s \in Good
  <2> HIDE DEF Good
  <2> QED BY <1>1, <1>2, EverySubset
<1> QED BY <1>3

\* SumFunctionOnSet is such a sum.
LEMMA SumIs ==
    ASSUME NEW A, IsFiniteSet(A), NEW f
    PROVE  \E it : Sums(f, A, it) /\ Mem!SumFunctionOnSet(f, A) = it[A]
<1> DEFINE it == CHOOSE it : it = [s \in SUBSET A |->
               IF s = {} THEN 0
               ELSE f[CHOOSE x \in s : TRUE] + it[s \ {CHOOSE x \in s : TRUE}]]
<1>1. Sums(f, A, it)
  <2>1. \E i : i = [s \in SUBSET A |->
               IF s = {} THEN 0
               ELSE f[CHOOSE x \in s : TRUE] + i[s \ {CHOOSE x \in s : TRUE}]]
    <3>1. PICK i : Sums(f, A, i)
      BY SumExists
    <3>2. i = [s \in SUBSET A |->
               IF s = {} THEN 0
               ELSE f[CHOOSE x \in s : TRUE] + i[s \ {CHOOSE x \in s : TRUE}]]
      BY <3>1 DEF Sums, Pick
    <3> QED BY <3>2, Zenon
  <2>2. it = [s \in SUBSET A |->
               IF s = {} THEN 0
               ELSE f[CHOOSE x \in s : TRUE] + it[s \ {CHOOSE x \in s : TRUE}]]
    BY <2>1, Zenon
  <2> QED BY <2>2 DEF Sums, Pick
<1>2. Mem!SumFunctionOnSet(f, A) = it[A]
  BY DEF Mem!SumFunctionOnSet, Mem!FoldFunctionOnSet, Mem!MapThenFoldSet
<1> QED BY <1>1, <1>2

----------------------------------------------------------------------------
(* NUMA allocation *)

\* A node's counter and what is charged to it are together never less than what
\* it has, whatever numa_free has credited to it for the others.
MemInv ==
    /\ Mem!TypeOK
    /\ Mem!InUse <= Mem!Pages
    /\ \A n \in Mem!Nodes : Total[n] <= free[n] + Mem!Charged(n)
    /\ Mem!RefusedWhenFull

\* The sums of the blocks h.
Counts == [Mem!Nodes \X Mem!Sizes -> Nat]
ChargedOf(h, n) == Mem!SumFunctionOnSet([s \in Mem!Sizes |-> s * h[<<n, s>>]], Mem!Sizes)
InUseOf(h) == Mem!SumFunctionOnSet([n \in Mem!Nodes |-> ChargedOf(h, n)], Mem!Nodes)

LEMMA MemSets ==
    /\ NumNodes \in Nat \ {0} /\ MaxSize \in Nat /\ CAP \in Nat
    /\ IsFiniteSet(Mem!Nodes) /\ IsFiniteSet(Mem!Sizes)
    /\ \A n \in Mem!Nodes : n \in Nat /\ n < NumNodes
    /\ \A s \in Mem!Sizes : s \in Nat /\ s >= 1 /\ s \in Int
    /\ 0 \in Mem!Nodes
<1>1. NumNodes \in Nat \ {0} /\ MaxSize \in Nat /\ CAP \in Nat
  BY X86Assumption
<1>2. IsFiniteSet(0 .. NumNodes - 1) /\ IsFiniteSet(1 .. MaxSize)
  BY <1>1, FS_Interval
<1> QED BY <1>1, <1>2 DEF Mem!Nodes, Mem!Sizes

LEMMA TotalIs ==
    /\ Total \in [Mem!Nodes -> 0 .. CAP] /\ Total \in [Mem!Nodes -> Nat]
    /\ Mem!Pages \in Nat
<1>1. Total \in [Mem!Nodes -> 0 .. CAP] /\ Total \in [Mem!Nodes -> Nat]
  BY X86Assumption DEF Mem!Nodes
<1>2. PICK it : Sums(Total, Mem!Nodes, it)
              /\ Mem!SumFunctionOnSet(Total, Mem!Nodes) = it[Mem!Nodes]
  BY MemSets, SumIs
<1>3. it[Mem!Nodes] \in Nat
  BY <1>1, <1>2, MemSets, SumBound
<1> QED BY <1>1, <1>2, <1>3 DEF Mem!Pages

\* The pairs of a node and a size, for provers that look no further.
LEMMA CountIn ==
    ASSUME NEW h \in Counts, NEW n \in Mem!Nodes, NEW s \in Mem!Sizes
    PROVE  h[<<n, s>>] \in Nat
  BY DEF Counts

LEMMA ChargedIs ==
    ASSUME NEW h \in Counts, NEW n \in Mem!Nodes
    PROVE  /\ ChargedOf(h, n) \in Nat
           /\ \A s \in Mem!Sizes : s * h[<<n, s>>] <= ChargedOf(h, n)
<1> DEFINE f == [s \in Mem!Sizes |-> s * h[<<n, s>>]]
<1>1. \A s \in Mem!Sizes : s * h[<<n, s>>] \in Nat
  <2>1. SUFFICES ASSUME NEW s \in Mem!Sizes PROVE s * h[<<n, s>>] \in Nat
    OBVIOUS
  <2> DEFINE x == h[<<n, s>>]
  <2>2. x \in Nat
    BY CountIn
  <2>3. s \in Nat
    BY MemSets
  <2> HIDE DEF f, x
  <2>4. s * x \in Nat
    BY <2>2, <2>3
  <2> QED BY <2>4 DEF x
<1>2. f \in [Mem!Sizes -> Nat] /\ \A s \in Mem!Sizes : f[s] = s * h[<<n, s>>]
  BY <1>1
<1>3. PICK it : Sums(f, Mem!Sizes, it) /\ ChargedOf(h, n) = it[Mem!Sizes]
  BY MemSets, SumIs DEF ChargedOf
<1>4. it[Mem!Sizes] \in Nat /\ \A s \in Mem!Sizes : f[s] <= it[Mem!Sizes]
  <2> HIDE DEF f
  <2> QED BY <1>2, <1>3, MemSets, SumBound
<1> QED BY <1>2, <1>3, <1>4

LEMMA InUseIs ==
    ASSUME NEW h \in Counts
    PROVE  InUseOf(h) \in Nat /\ \A n \in Mem!Nodes : ChargedOf(h, n) <= InUseOf(h)
<1> DEFINE f == [n \in Mem!Nodes |-> ChargedOf(h, n)]
<1>1. f \in [Mem!Nodes -> Nat] /\ \A n \in Mem!Nodes : f[n] = ChargedOf(h, n)
  BY ChargedIs
<1>2. PICK it : Sums(f, Mem!Nodes, it) /\ InUseOf(h) = it[Mem!Nodes]
  BY MemSets, SumIs DEF InUseOf
<1>3. it[Mem!Nodes] \in Nat /\ \A n \in Mem!Nodes : f[n] <= it[Mem!Nodes]
  <2> HIDE DEF f
  <2> QED BY <1>1, <1>2, MemSets, SumBound
<1> QED BY <1>1, <1>2, <1>3

\* A block fits among the pages in use.
LEMMA CountFits ==
    ASSUME NEW h \in Counts, InUseOf(h) <= Mem!Pages
    PROVE  h \in [Mem!Nodes \X Mem!Sizes -> 0 .. Mem!Pages]
<1>1. ASSUME NEW n \in Mem!Nodes, NEW s \in Mem!Sizes PROVE h[<<n, s>>] \in 0 .. Mem!Pages
  <2> DEFINE x == h[<<n, s>>]
             p == Mem!Pages
  <2>0. x \in Nat
    BY CountIn
  <2>1. x \in Nat /\ s \in Nat /\ s >= 1 /\ p \in Nat
    <3> HIDE DEF x
    <3> QED BY <2>0, MemSets, TotalIs
  <2>2. s * x <= p
    <3>1. s * x <= ChargedOf(h, n) /\ ChargedOf(h, n) \in Nat
      BY ChargedIs
    <3>2. ChargedOf(h, n) <= InUseOf(h) /\ InUseOf(h) \in Nat
      BY InUseIs
    <3>3. s * x \in Nat
      <4> HIDE DEF x
      <4> QED BY <2>1
    <3> HIDE DEF x, p
    <3>4. InUseOf(h) <= p
      BY DEF p
    <3> DEFINE sx == s * x
    <3> HIDE DEF sx
    <3>5. sx <= p
      <4>1. sx \in Nat /\ sx <= ChargedOf(h, n)
        BY <3>1, <3>3 DEF sx
      <4> QED BY <2>1, <3>1, <3>2, <3>4, <4>1
    <3> QED BY <3>5 DEF sx
  <2> HIDE DEF x, p
  <2>3. x <= s * x
    BY <2>1
  <2>4. x \in 0 .. p
    <3>1. s * x \in Nat
      BY <2>1
    <3> DEFINE sx == s * x
    <3> HIDE DEF sx
    <3>2. sx \in Nat /\ x <= sx /\ sx <= p
      BY <2>2, <2>3, <3>1 DEF sx
    <3> QED BY <2>1, <3>2
  <2> QED BY <2>4 DEF x, p
<1>2. ASSUME NEW y \in Mem!Nodes \X Mem!Sizes PROVE h[y] \in 0 .. Mem!Pages
  <2>1. PICK n \in Mem!Nodes, s \in Mem!Sizes : y = <<n, s>>
    OBVIOUS
  <2> QED BY <1>1, <2>1
<1> QED BY <1>2 DEF Counts

\* A block more or less.
LEMMA BlockChange ==
    ASSUME NEW h \in Counts, NEW g \in Counts, NEW n \in Mem!Nodes, NEW size \in Mem!Sizes,
           NEW d \in Int, g[<<n, size>>] = h[<<n, size>>] + d,
           \A m \in Mem!Nodes, s \in Mem!Sizes : m # n \/ s # size => g[<<m, s>>] = h[<<m, s>>]
    PROVE  /\ ChargedOf(g, n) = ChargedOf(h, n) + d * size
           /\ \A m \in Mem!Nodes \ {n} : ChargedOf(g, m) = ChargedOf(h, m)
           /\ InUseOf(g) = InUseOf(h) + d * size
<1>0. d \in Int /\ size \in Int /\ d * size \in Int
  <2>1. size \in Int
    BY MemSets
  <2> QED BY <2>1
<1> DEFINE e == d * size
<1>1. ChargedOf(g, n) = ChargedOf(h, n) + e
  <2> DEFINE fh == [s \in Mem!Sizes |-> s * h[<<n, s>>]]
             fg == [s \in Mem!Sizes |-> s * g[<<n, s>>]]
  <2>1. fh \in [Mem!Sizes -> Int] /\ fg \in [Mem!Sizes -> Int]
    <3>1. ASSUME NEW k \in Counts, NEW s \in Mem!Sizes PROVE s * k[<<n, s>>] \in Int
      <4> DEFINE x == k[<<n, s>>]
      <4>1. x \in Int
        BY CountIn
      <4>2. s \in Int
        BY MemSets
      <4> HIDE DEF x, fh, fg
      <4>3. s * x \in Int
        BY <4>1, <4>2
      <4> QED BY <4>3 DEF x
    <3> QED BY <3>1
  <2>2. PICK i : Sums(fh, Mem!Sizes, i) /\ ChargedOf(h, n) = i[Mem!Sizes]
    BY MemSets, SumIs DEF ChargedOf
  <2>3. PICK j : Sums(fg, Mem!Sizes, j) /\ ChargedOf(g, n) = j[Mem!Sizes]
    BY MemSets, SumIs DEF ChargedOf
  <2>4. fg[size] = fh[size] + e
    <3> DEFINE a == h[<<n, size>>]
               b == g[<<n, size>>]
    <3>1. a \in Int
      BY CountIn
    <3>2. b = a + d
      OBVIOUS
    <3>3. fg[size] = size * b /\ fh[size] = size * a
      OBVIOUS
    <3> HIDE DEF a, b, fh, fg
    <3>4. size * (a + d) = size * a + d * size
      BY <1>0, <3>1
    <3> QED BY <3>2, <3>3, <3>4
  <2>5. \A s \in Mem!Sizes \ {size} : fg[s] = fh[s]
    OBVIOUS
  <2>6. e \in Int /\ IsFiniteSet(Mem!Sizes)
    BY <1>0, MemSets
  <2> HIDE DEF fh, fg, e
  <2> QED BY <2>1, <2>2, <2>3, <2>4, <2>5, <2>6, SumChange
<1>2. \A m \in Mem!Nodes \ {n} : ChargedOf(g, m) = ChargedOf(h, m)
  <2>1. SUFFICES ASSUME NEW m \in Mem!Nodes \ {n} PROVE ChargedOf(g, m) = ChargedOf(h, m)
    OBVIOUS
  <2>2. [s \in Mem!Sizes |-> s * g[<<m, s>>]] = [s \in Mem!Sizes |-> s * h[<<m, s>>]]
    OBVIOUS
  <2> QED BY <2>2 DEF ChargedOf
<1>3. InUseOf(g) = InUseOf(h) + e
  <2> DEFINE fh == [m \in Mem!Nodes |-> ChargedOf(h, m)]
             fg == [m \in Mem!Nodes |-> ChargedOf(g, m)]
  <2>1. PICK i : Sums(fh, Mem!Nodes, i) /\ InUseOf(h) = i[Mem!Nodes]
    BY MemSets, SumIs DEF InUseOf
  <2>2. PICK j : Sums(fg, Mem!Nodes, j) /\ InUseOf(g) = j[Mem!Nodes]
    BY MemSets, SumIs DEF InUseOf
  <2>3. fh \in [Mem!Nodes -> Int] /\ fg \in [Mem!Nodes -> Int]
    <3>1. \A m \in Mem!Nodes : ChargedOf(h, m) \in Int /\ ChargedOf(g, m) \in Int
      <4>1. \A m \in Mem!Nodes : ChargedOf(h, m) \in Nat /\ ChargedOf(g, m) \in Nat
        BY ChargedIs
      <4> QED BY <4>1
    <3> QED BY <3>1
  <2>4. fg[n] = fh[n] + e /\ \A m \in Mem!Nodes \ {n} : fg[m] = fh[m]
    <3> HIDE DEF e
    <3> QED BY <1>1, <1>2
  <2>5. e \in Int /\ IsFiniteSet(Mem!Nodes)
    BY <1>0, MemSets
  <2> HIDE DEF fh, fg, e
  <2> QED BY <2>1, <2>2, <2>3, <2>4, <2>5, SumChange
<1> QED BY <1>1, <1>2, <1>3

\* The invariant of the model, by the sums of held.
LEMMA MemSums ==
    /\ \A n : Mem!Charged(n) = ChargedOf(held, n)
    /\ Mem!InUse = InUseOf(held)
    /\ Mem!PagesFree = Mem!Pages - InUseOf(held)
  BY DEF Mem!Charged, Mem!InUse, Mem!PagesFree, ChargedOf, InUseOf

LEMMA MemSumsNext ==
    /\ \A n : Mem!Charged(n)' = ChargedOf(held', n)
    /\ Mem!InUse' = InUseOf(held')
  BY DEF Mem!Charged, Mem!InUse, ChargedOf, InUseOf

LEMMA MemInit == ASSUME Mem!Init PROVE MemInv
<1>1. held \in Counts
  BY DEF Mem!Init, Counts
<1>2. InUseOf(held) = 0 /\ \A n \in Mem!Nodes : ChargedOf(held, n) = 0
  <2>1. ASSUME NEW A, IsFiniteSet(A) PROVE Mem!SumFunctionOnSet([a \in A |-> 0], A) = 0
    <3> DEFINE f == [a \in A |-> 0]
    <3>1. PICK it : Sums(f, A, it) /\ Mem!SumFunctionOnSet(f, A) = it[A]
      BY <2>1, SumIs
    <3> DEFINE Good == {s \in SUBSET A : it[s] = 0}
    <3>2. {} \in Good
      BY <3>1, SumStep
    <3>3. ASSUME NEW s \in SUBSET A, s # {}, s \ {Pick(s)} \in Good PROVE s \in Good
      <4>1. it[s] = f[Pick(s)] + it[s \ {Pick(s)}] /\ Pick(s) \in A
        BY <3>1, <3>3, SumStep
      <4> QED BY <3>3, <4>1
    <3>4. A \in Good
      <4> HIDE DEF Good
      <4> QED BY <2>1, <3>2, <3>3, EverySubset
    <3> QED BY <3>1, <3>4
  <2>2. \A n \in Mem!Nodes : ChargedOf(held, n) = 0
    <3>1. SUFFICES ASSUME NEW n \in Mem!Nodes PROVE ChargedOf(held, n) = 0
      OBVIOUS
    <3>2. \A s \in Mem!Sizes : s * held[<<n, s>>] = 0
      <4>1. \A s \in Mem!Sizes : held[<<n, s>>] = 0
        BY DEF Mem!Init
      <4>2. \A s \in Mem!Sizes : s * 0 = 0
        BY MemSets
      <4> QED BY <4>1, <4>2
    <3>3. [s \in Mem!Sizes |-> s * held[<<n, s>>]] = [s \in Mem!Sizes |-> 0]
      BY <3>2
    <3> QED BY <2>1, <3>3, MemSets DEF ChargedOf
  <2>3. [n \in Mem!Nodes |-> ChargedOf(held, n)] = [n \in Mem!Nodes |-> 0]
    BY <2>2
  <2> QED BY <2>1, <2>2, <2>3, MemSets DEF InUseOf
<1>3. InUseOf(held) <= Mem!Pages
  BY <1>2, TotalIs
<1>4. Mem!TypeOK
  <2>1. held \in [Mem!Nodes \X Mem!Sizes -> 0 .. Mem!Pages]
    BY <1>1, <1>3, CountFits
  <2>2. free = Total
    BY TotalIs DEF Mem!Init
  <2> QED BY <2>1, <2>2, MemSets, TotalIs DEF Mem!Init, Mem!TypeOK, Mem!Policies
<1>5. \A n \in Mem!Nodes : Total[n] <= free[n] + Mem!Charged(n)
  <2>1. \A n \in Mem!Nodes : free[n] = Total[n] /\ Total[n] \in Nat
    BY TotalIs DEF Mem!Init
  <2> QED BY <1>2, <2>1, MemSums
<1>6. Mem!RefusedWhenFull
  BY DEF Mem!Init, Mem!RefusedWhenFull
<1> QED BY <1>3, <1>4, <1>5, <1>6, MemSums DEF MemInv

\* Of the nodes that may be charged one is asked first.
LEMMA FirstExists ==
    ASSUME MemInv, NEW S \in SUBSET Mem!Nodes, S # {}
    PROVE  Mem!First(S) \in S
<1>1. \A n \in Mem!Nodes : Mem!Rank(n) \in Nat
  <2>1. SUFFICES ASSUME NEW n \in Mem!Nodes PROVE Mem!Rank(n) \in Nat
    OBVIOUS
  <2>2. nextNode \in Mem!Nodes /\ current \in Mem!Nodes
    BY DEF MemInv, Mem!TypeOK
  <2>3. n \in Nat /\ nextNode \in Nat /\ nextNode < NumNodes /\ NumNodes \in Nat \ {0}
    BY <2>2, MemSets
  <2>4. (n + NumNodes - nextNode) % NumNodes \in Nat
    <3>1. n + NumNodes - nextNode \in Int
      BY <2>3
    <3> DEFINE x == n + NumNodes - nextNode
    <3> HIDE DEF x
    <3>2. x % NumNodes \in Nat
      BY <2>3, <3>1 DEF x
    <3> QED BY <3>2 DEF x
  <2>5. NumNodes * Distance[current][n] + n \in Nat
    <3> DEFINE d == Distance[current][n]
    <3>0. Distance[current][n] \in 0 .. 255
      <4>1. n \in 0 .. NumNodes - 1 /\ current \in 0 .. NumNodes - 1
        BY <2>2 DEF Mem!Nodes
      <4>2. Distance[current] \in [0 .. NumNodes - 1 -> 0 .. 255]
        BY <4>1, X86Assumption
      <4> HIDE DEF d
      <4> QED BY <4>1, <4>2
    <3>1. d \in Nat
      BY <3>0
    <3> HIDE DEF d
    <3>2. NumNodes * d + n \in Nat
      BY <2>3, <3>1
    <3> QED BY <3>2 DEF d
  <2> QED BY <2>4, <2>5 DEF Mem!Rank
<1> DEFINE R == {Mem!Rank(n) : n \in S}
<1>2. PICK r \in R : \A q \in R : <<q, r>> \notin OpToRel(<, Nat)
  <2>1. R \subseteq Nat /\ R # {}
    BY <1>1
  <2> HIDE DEF R
  <2> QED BY <2>1, NatLessThanWellFounded, WFMin
<1>3. PICK m \in S : r = Mem!Rank(m)
  BY <1>2
<1>4. ASSUME NEW k \in S PROVE Mem!Rank(m) <= Mem!Rank(k)
  <2>1. ~(Mem!Rank(k) < Mem!Rank(m)) /\ Mem!Rank(k) \in Nat /\ Mem!Rank(m) \in Nat
    BY <1>1, <1>2, <1>3 DEF OpToRel
  <2> QED BY <2>1
<1> QED BY <1>4 DEF Mem!First

\* What an invariant needs of the new counters and blocks, if nothing is refused.
LEMMA MemFrom ==
    ASSUME MemInv, UNCHANGED <<policy, mask, current>>, nextNode' \in Mem!Nodes, refused' = 0,
           free' \in [Mem!Nodes -> 0 .. CAP], held' \in Counts,
           InUseOf(held') <= Mem!Pages,
           \A n \in Mem!Nodes : Total[n] <= free'[n] + ChargedOf(held', n)
    PROVE  MemInv'
<1>1. Mem!TypeOK'
  <2>1. held' \in [Mem!Nodes \X Mem!Sizes -> 0 .. Mem!Pages]
    BY CountFits
  <2> QED BY <2>1, MemSets DEF MemInv, Mem!TypeOK
<1>2. Mem!RefusedWhenFull'
  BY DEF Mem!RefusedWhenFull
<1> QED BY <1>1, <1>2, MemSumsNext DEF MemInv, Mem!Pages

\* The counters and the blocks as they were.
LEMMA MemSame ==
    ASSUME MemInv, UNCHANGED <<free, held>>, policy' \in Mem!Policies,
           mask' \in SUBSET Mem!Nodes, current' \in Mem!Nodes,
           nextNode' \in Mem!Nodes, refused' \in 0 .. MaxSize, Mem!RefusedWhenFull'
    PROVE  MemInv'
<1>1. Mem!TypeOK'
  BY DEF MemInv, Mem!TypeOK, Mem!Pages
<1>2. Mem!InUse' = Mem!InUse /\ \A n : Mem!Charged(n)' = Mem!Charged(n)
  BY MemSums, MemSumsNext
<1>3. Mem!InUse' <= Mem!Pages /\ \A n \in Mem!Nodes : Total[n] <= free'[n] + Mem!Charged(n)'
  BY <1>2 DEF MemInv
<1> QED BY <1>1, <1>3 DEF MemInv, Mem!Pages

\* A block is charged to a node whose counter covers it, the pager having it.
LEMMA TakeBlock ==
    ASSUME MemInv, NEW n \in Mem!Nodes, NEW size \in Mem!Sizes,
           size <= Mem!PagesFree, free[n] >= size,
           free' = [free EXCEPT ![n] = @ - size],
           held' = [held EXCEPT ![<<n, size>>] = @ + 1],
           UNCHANGED <<policy, mask, current>>, nextNode' \in Mem!Nodes, refused' = 0
    PROVE  MemInv'
<1>1. held \in Counts /\ InUseOf(held) \in Nat /\ Mem!Pages \in Nat /\ size \in Nat /\ size >= 1
  <2>1. held \in Counts
    BY TotalIs DEF MemInv, Mem!TypeOK, Counts
  <2> QED BY <2>1, InUseIs, MemSets, TotalIs
<1>2. held' \in Counts
  <2> DEFINE x == held[<<n, size>>] + 1
  <2>1. x \in Nat
    BY <1>1, CountIn
  <2> HIDE DEF x
  <2>2. held' = [held EXCEPT ![<<n, size>>] = x]
    BY DEF x
  <2> QED BY <1>1, <2>1, <2>2 DEF Counts
<1>3. /\ held'[<<n, size>>] = held[<<n, size>>] + 1
      /\ \A m \in Mem!Nodes, s \in Mem!Sizes :
             m # n \/ s # size => held'[<<m, s>>] = held[<<m, s>>]
  BY <1>1 DEF Counts
<1> DEFINE d == 1
<1>4. d \in Int /\ d * size = size
  BY <1>1
<1>5. /\ ChargedOf(held', n) = ChargedOf(held, n) + size
      /\ \A m \in Mem!Nodes \ {n} : ChargedOf(held', m) = ChargedOf(held, m)
      /\ InUseOf(held') = InUseOf(held) + size
  <2>1. held'[<<n, size>>] = held[<<n, size>>] + d
    BY <1>3
  <2> HIDE DEF d
  <2>2. /\ ChargedOf(held', n) = ChargedOf(held, n) + d * size
        /\ \A m \in Mem!Nodes \ {n} : ChargedOf(held', m) = ChargedOf(held, m)
        /\ InUseOf(held') = InUseOf(held) + d * size
    BY <1>1, <1>2, <1>3, <1>4, <2>1, BlockChange
  <2> QED BY <1>4, <2>2
<1>6. InUseOf(held') <= Mem!Pages
  BY <1>1, <1>5, MemSums
<1>7. free' \in [Mem!Nodes -> 0 .. CAP] /\ free \in [Mem!Nodes -> 0 .. CAP]
  <2>1. free \in [Mem!Nodes -> 0 .. CAP]
    BY DEF MemInv, Mem!TypeOK
  <2>2. free[n] - size \in 0 .. CAP
    BY <1>1, <2>1, MemSets
  <2> QED BY <2>1, <2>2
<1>8. ASSUME NEW m \in Mem!Nodes PROVE Total[m] <= free'[m] + ChargedOf(held', m)
  <2>1. Total[m] <= free[m] + ChargedOf(held, m) /\ Total[m] \in Nat
        /\ ChargedOf(held, m) \in Nat /\ free[m] \in Nat
    <3>1. Total[m] <= free[m] + ChargedOf(held, m)
      BY MemSums DEF MemInv
    <3>2. ChargedOf(held, m) \in Nat
      BY <1>1, ChargedIs
    <3>3. Total[m] \in Nat /\ free[m] \in Nat
      BY <1>7, MemSets, TotalIs
    <3> QED BY <3>1, <3>2, <3>3
  <2>2. CASE m = n
    <3>1. free'[m] = free[m] - size
      BY <1>7, <2>2
    <3> QED BY <1>1, <1>5, <2>1, <2>2, <3>1
  <2>3. CASE m # n
    <3>1. free'[m] = free[m]
      BY <1>7, <2>3
    <3> QED BY <1>5, <2>1, <2>3, <3>1
  <2> QED BY <2>2, <2>3
<1> QED BY <1>2, <1>6, <1>7, <1>8, MemFrom

\* numa_free credits every node, the one that was charged among them.
LEMMA GiveBlock == ASSUME MemInv, Mem!Free PROVE MemInv'
<1>1. PICK n \in Mem!Nodes, size \in Mem!Sizes :
          /\ held[<<n, size>>] > 0
          /\ \A m \in Mem!Nodes : free[m] + size <= CAP
          /\ held' = [held EXCEPT ![<<n, size>>] = @ - 1]
          /\ free' = [m \in Mem!Nodes |-> free[m] + size]
          /\ refused' = 0 /\ UNCHANGED <<policy, mask, current, nextNode>>
  BY DEF Mem!Free
<1>2. held \in Counts /\ InUseOf(held) \in Nat /\ Mem!Pages \in Nat /\ size \in Nat /\ size >= 1
      /\ nextNode \in Mem!Nodes
  <2>1. held \in Counts
    BY TotalIs DEF MemInv, Mem!TypeOK, Counts
  <2>2. nextNode \in Mem!Nodes /\ current \in Mem!Nodes
    BY DEF MemInv, Mem!TypeOK
  <2> QED BY <2>1, <2>2, InUseIs, MemSets, TotalIs
<1>3. held' \in Counts
  <2> DEFINE x == held[<<n, size>>] - 1
  <2>1. x \in Nat
    <3>1. held[<<n, size>>] \in Nat
      BY <1>2, CountIn
    <3> QED BY <1>1, <3>1
  <2> HIDE DEF x
  <2>2. held' = [held EXCEPT ![<<n, size>>] = x]
    BY <1>1 DEF x
  <2> QED BY <1>2, <2>1, <2>2 DEF Counts
<1> DEFINE d == 0 - 1
<1>4. /\ held'[<<n, size>>] = held[<<n, size>>] - 1 /\ held[<<n, size>>] \in Nat
      /\ \A m \in Mem!Nodes, s \in Mem!Sizes :
             m # n \/ s # size => held'[<<m, s>>] = held[<<m, s>>]
  BY <1>1, <1>2 DEF Counts
<1>5. d \in Int /\ d * size = 0 - size
  BY <1>2
<1>6. /\ ChargedOf(held', n) = ChargedOf(held, n) - size
      /\ \A m \in Mem!Nodes \ {n} : ChargedOf(held', m) = ChargedOf(held, m)
      /\ InUseOf(held') = InUseOf(held) - size
  <2>1. held'[<<n, size>>] = held[<<n, size>>] + d
    BY <1>4
  <2> HIDE DEF d
  <2>2. /\ ChargedOf(held', n) = ChargedOf(held, n) + d * size
        /\ \A m \in Mem!Nodes \ {n} : ChargedOf(held', m) = ChargedOf(held, m)
        /\ InUseOf(held') = InUseOf(held) + d * size
    BY <1>2, <1>3, <1>4, <1>5, <2>1, BlockChange
  <2>3. ChargedOf(held, n) \in Nat
    BY <1>2, ChargedIs
  <2> QED BY <1>2, <1>5, <2>2, <2>3
<1>7. InUseOf(held') <= Mem!Pages
  BY <1>2, <1>6, MemSums DEF MemInv
<1>8. free \in [Mem!Nodes -> 0 .. CAP] /\ \A m \in Mem!Nodes : free[m] \in Nat
  <2>1. free \in [Mem!Nodes -> 0 .. CAP]
    BY DEF MemInv, Mem!TypeOK
  <2> QED BY <2>1, MemSets
<1>9. free' \in [Mem!Nodes -> 0 .. CAP]
  BY <1>1, <1>2, <1>8, MemSets
<1>10. ASSUME NEW m \in Mem!Nodes PROVE Total[m] <= free'[m] + ChargedOf(held', m)
  <2>1. Total[m] <= free[m] + ChargedOf(held, m)
    BY MemSums DEF MemInv
  <2>2. ChargedOf(held, m) \in Nat
    BY <1>2, ChargedIs
  <2>3. Total[m] \in Nat /\ free'[m] = free[m] + size
    BY <1>1, TotalIs
  <2> QED BY <1>2, <1>6, <1>8, <2>1, <2>2, <2>3
<1> QED BY <1>1, <1>2, <1>3, <1>7, <1>9, <1>10, MemFrom

\* numa_alloc: the block is charged to the first node with room, or refused.
LEMMA AllocBlock == ASSUME MemInv, Mem!Alloc PROVE MemInv'
<1>t. /\ policy \in Mem!Policies /\ mask \in SUBSET Mem!Nodes /\ nextNode \in Mem!Nodes
      /\ current \in Mem!Nodes /\ free \in [Mem!Nodes -> 0 .. CAP]
  BY DEF MemInv, Mem!TypeOK
<1>1. Mem!Candidates \subseteq Mem!Nodes
  BY <1>t, MemSets DEF Mem!Candidates
<1>2. PICK size \in Mem!Sizes, fragmented \in BOOLEAN :
          LET given == size <= Mem!PagesFree /\ ~(fragmented /\ size > 1)
          IN  \/ /\ given /\ Mem!WithRoom(size) # {}
                 /\ LET n == Mem!First(Mem!WithRoom(size))
                    IN  /\ free' = [free EXCEPT ![n] = @ - size]
                        /\ held' = [held EXCEPT ![<<n, size>>] = @ + 1]
                        /\ nextNode' = IF policy = "interleave"
                                       THEN (n + 1) % NumNodes ELSE nextNode
                 /\ refused' = 0
                 /\ UNCHANGED <<policy, mask, current>>
              \/ /\ ~given \/ Mem!WithRoom(size) = {}
                 /\ refused' = IF given THEN size ELSE 0
                 /\ UNCHANGED <<free, policy, mask, current, nextNode, held>>
  BY DEF Mem!Alloc
<1> DEFINE n == Mem!First(Mem!WithRoom(size))
<1>3. CASE /\ size <= Mem!PagesFree /\ Mem!WithRoom(size) # {}
           /\ free' = [free EXCEPT ![n] = @ - size]
           /\ held' = [held EXCEPT ![<<n, size>>] = @ + 1]
           /\ nextNode' = IF policy = "interleave" THEN (n + 1) % NumNodes ELSE nextNode
           /\ refused' = 0 /\ UNCHANGED <<policy, mask, current>>
  <2>1. n \in Mem!WithRoom(size)
    BY <1>1, <1>3, FirstExists DEF Mem!WithRoom
  <2>2. n \in Mem!Nodes /\ free[n] >= size
    BY <1>1, <2>1 DEF Mem!WithRoom
  <2> HIDE DEF n
  <2>3. (n + 1) % NumNodes \in Mem!Nodes
    <3>1. n \in Nat /\ NumNodes \in Nat \ {0}
      BY <2>2, MemSets
    <3> QED BY <3>1 DEF Mem!Nodes
  <2>4. nextNode' \in Mem!Nodes
    BY <1>t, <1>3, <2>3
  <2> QED BY <1>3, <2>2, <2>4, TakeBlock
<1>4. CASE /\ refused' \in {0, size}
           /\ refused' = size => Mem!WithRoom(size) = {}
           /\ UNCHANGED <<free, policy, mask, current, nextNode, held>>
  <2>1. size \in Nat /\ size >= 1 /\ size \in 0 .. MaxSize /\ 0 \in 0 .. MaxSize
    BY MemSets DEF Mem!Sizes
  <2>2. Mem!Candidates' = Mem!Candidates
    BY <1>4 DEF Mem!Candidates
  <2>3. ASSUME refused' > 0, NEW m \in Mem!Candidates
        PROVE  ChargedOf(held', m) + refused' > Total[m]
    <3>1. refused' = size /\ Mem!WithRoom(size) = {}
      BY <1>4, <2>1, <2>3
    <3>2. m \in Mem!Nodes /\ ~(free[m] >= size)
      BY <1>1, <3>1 DEF Mem!WithRoom
    <3>3. Total[m] <= free[m] + ChargedOf(held, m)
      BY <3>2, MemSums DEF MemInv
    <3>4. held \in Counts
      BY TotalIs DEF MemInv, Mem!TypeOK, Counts
    <3>5. Total[m] \in Nat /\ ChargedOf(held, m) \in Nat
      BY <3>2, <3>4, ChargedIs, TotalIs
    <3>6. free[m] \in Nat /\ held' = held
      BY <1>t, <1>4, <3>2, MemSets
    <3> QED BY <2>1, <3>1, <3>2, <3>3, <3>5, <3>6
  <2>4. Mem!RefusedWhenFull'
    BY <2>2, <2>3, MemSumsNext DEF Mem!RefusedWhenFull
  <2>5. refused' \in 0 .. MaxSize
    BY <1>4, <2>1
  <2> QED BY <1>t, <1>4, <2>4, <2>5, MemSame
<1>5. \/ /\ size <= Mem!PagesFree /\ Mem!WithRoom(size) # {}
         /\ free' = [free EXCEPT ![n] = @ - size]
         /\ held' = [held EXCEPT ![<<n, size>>] = @ + 1]
         /\ nextNode' = IF policy = "interleave" THEN (n + 1) % NumNodes ELSE nextNode
         /\ refused' = 0 /\ UNCHANGED <<policy, mask, current>>
      \/ /\ refused' \in {0, size}
         /\ refused' = size => Mem!WithRoom(size) = {}
         /\ UNCHANGED <<free, policy, mask, current, nextNode, held>>
  <2>1. size # 0
    BY MemSets
  <2> QED BY <1>2, <2>1
<1> QED BY <1>3, <1>4, <1>5

LEMMA MemKeeps == ASSUME MemInv, Mem!Next \/ UNCHANGED numaVars PROVE MemInv'
<1>1. CASE UNCHANGED numaVars
  <2>1. UNCHANGED <<free, held, policy, mask, current, nextNode, refused>>
    BY <1>1 DEF numaVars
  <2>2. Mem!RefusedWhenFull'
    <3>1. Mem!Candidates' = Mem!Candidates /\ \A n : Mem!Charged(n)' = Mem!Charged(n)
      BY <2>1, MemSums, MemSumsNext DEF Mem!Candidates
    <3> QED BY <2>1, <3>1 DEF MemInv, Mem!RefusedWhenFull
  <2> QED BY <2>1, <2>2, MemSame DEF MemInv, Mem!TypeOK
<1>2. CASE Mem!SetPolicy \/ Mem!SetMask \/ Mem!SetCurrent
  <2>1. refused' = 0 /\ Mem!RefusedWhenFull' /\ 0 \in 0 .. MaxSize
    BY <1>2, MemSets DEF Mem!SetPolicy, Mem!SetMask, Mem!SetCurrent, Mem!RefusedWhenFull
  <2> QED BY <1>2, <2>1, MemSame DEF Mem!SetPolicy, Mem!SetMask, Mem!SetCurrent, MemInv, Mem!TypeOK
<1> QED BY <1>1, <1>2, AllocBlock, GiveBlock DEF Mem!Next

----------------------------------------------------------------------------
(* The PC *)

\* The invariant of each part, whichever of them a behaviour is about.
X86Inv == unit \in Units /\ InpInv /\ RtlInv /\ MemInv /\ IrqInv

\* Every part of the PC keeps its invariant, for all sizes of the ring and of the
\* FIFO, all numbers of frames, descriptors and nodes, and all sets of devices.
THEOREM X86Invariant == Spec => []X86Inv
<1>1. Init => X86Inv
  BY InpInit, RtlInit, MemInit, IrqInit DEF Init, X86Inv
<1>2. X86Inv /\ [Next]_<<unit, inputVars, netVars, numaVars, picVars>> => X86Inv'
  <2> SUFFICES ASSUME X86Inv, Next \/ UNCHANGED <<unit, inputVars, netVars, numaVars, picVars>>
               PROVE  X86Inv'
    OBVIOUS
  <2>1. /\ unit' = unit
        /\ Inp!Next \/ UNCHANGED inputVars
        /\ Net!Next \/ UNCHANGED netVars
        /\ Mem!Next \/ UNCHANGED numaVars
        /\ Irq!Next \/ UNCHANGED picVars
    <3>1. CASE Next
      BY <3>1 DEF Next
    <3>2. CASE UNCHANGED <<unit, inputVars, netVars, numaVars, picVars>>
      BY <3>2
    <3> QED BY <3>1, <3>2
  <2> QED BY <2>1, InpKeeps, RtlKeeps, MemKeeps, IrqKeeps DEF X86Inv
<1> QED BY <1>1, <1>2, PTL DEF Spec

\* The variables of every part keep their types.
THEOREM X86TypeOK == Spec => []TypeOK
<1>1. X86Inv => TypeOK
  BY DEF X86Inv, InpInv, RtlInv, MemInv, IrqInv, TypeOK
<1> QED BY <1>1, X86Invariant, PTL

\* What the UART's and the keyboard's readers get comes in the order of arrival,
\* none of it twice, and what they do not get is known to be lost: with an
\* interrupt handler that fills the ring between any two steps of the reader.
THEOREM X86InputInOrder == Spec => []InputInOrder
<1>1. X86Inv => InputInOrder
  BY InpSafe DEF X86Inv, InputInOrder
<1> QED BY <1>1, X86Invariant, PTL

\* The card sends one frame for each call of rtl8139_send_packet that returned 1,
\* in the order of the calls and with its length, for every number of descriptors.
THEOREM X86FramesInOrder == Spec => []FramesInOrder
<1>1. X86Inv => FramesInOrder
  BY RtlSent DEF X86Inv, FramesInOrder
<1> QED BY <1>1, X86Invariant, PTL

\* A NUMA request that the pager could have served is refused for the counters
\* only if no node the policy allows has that much memory not charged to it,
\* although numa_free credits every node with what one was charged.
THEOREM X86RefusedWhenFull == Spec => []RefusedWhenFull
<1>1. X86Inv => RefusedWhenFull
  BY DEF X86Inv, MemInv, RefusedWhenFull
<1> QED BY <1>1, X86Invariant, PTL

\* Only lines that clock_init enabled are in service, and outside of a handler
\* none is, although irq_handler never learns which line it serves.
THEOREM X86InService == Spec => []InService
<1>1. X86Inv => InService
  BY DEF X86Inv, IrqInv, ServiceInv, InService, Irq!InService
<1> QED BY <1>1, X86Invariant, PTL

\* No driver has run, and a boot that waits for the floppy's is not past its wait.
BootStops ==
    /\ driver = 16
    /\ waits => phase \in {"pic", "apic", "floppy", "wait"}

\* What irq_common_stub leaves on top of the stack is never the number of a line,
\* so that irq_handler calls no driver, ever; and where clock_init waits for the
\* floppy's handler, with interrupts still disabled, it waits for ever.
THEOREM X86BootStops == Spec => []BootStops
<1>1. Init => BootStops
  BY DEF Init, Irq!Init, BootStops
<1>2. BootStops /\ [Next]_<<unit, inputVars, netVars, numaVars, picVars>>
      => BootStops'
  <2> SUFFICES ASSUME BootStops, Irq!Next PROVE BootStops'
    BY DEF Next, picVars, BootStops
  <2> USE DEF BootStops
  <2>1. CASE Irq!Booting
    BY <2>1 DEF Irq!Booting, Irq!pic_init, Irq!ApicSetup, Irq!floppy_init, Irq!floppy_wait_irq,
       Irq!pic_enable_irq, Irq!enable_interrupts, Irq!Floppy, Irq!cpuVars
  <2>2. CASE Irq!Processor
    <3>1. CASE Irq!irq_handler
      BY <3>1 DEF Irq!irq_handler, Irq!Numbers, Irq!Drivers, Irq!bootVars
    <3>2. CASE ~Irq!irq_handler
      BY <2>2, <3>2 DEF Irq!Processor, Irq!Accept, Irq!Acknowledge, Irq!EoiSlave,
         Irq!EoiMaster, Irq!Iret, Irq!bootVars
    <3> QED BY <3>1, <3>2
  <2>3. CASE Irq!Quiet \/ \E l \in Devices : Irq!Raise(l) \/ Irq!Withdraw(l)
    BY <2>3 DEF Irq!Quiet, Irq!Raise, Irq!Withdraw, Irq!bootVars, Irq!cpuVars
  <2> QED BY <2>1, <2>2, <2>3 DEF Irq!Next
<1> QED BY <1>1, <1>2, PTL DEF Spec
=============================================================================
