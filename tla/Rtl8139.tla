------------------------------ MODULE Rtl8139 ------------------------------
(****************************************************************************)
(* Transmission by the RTL8139 driver (src/drivers/rtl8139.c): send_packet  *)
(* waits a bounded time for the next of the transmit descriptors, copies    *)
(* the packet and hands the descriptor to the card, which goes through them *)
(* in the same order at its own pace.                                       *)
(*                                                                          *)
(* The model is of the descriptors, not of the bytes.  The driver gives the *)
(* card the VIRTUAL addresses of its buffers (rtl8139_init, lines 182-185), *)
(* and the card reads the physical memory of that number: what it puts on   *)
(* the wire is not the packet.  Which descriptor is handed over, when, and  *)
(* with which length does not depend on the addresses; the copy touches     *)
(* nothing the card sees and is left out.                                   *)
(*                                                                          *)
(* External: the card sends a frame for each descriptor it owns and then    *)
(* gives it back; it may stop for good (an abort, a link that is down).     *)
(****************************************************************************)
EXTENDS Naturals, Sequences, SequencesExt

CONSTANTS
    DESCS,       \* transmit descriptors: 4
    MaxFrames    \* bound: frames a behaviour tries to send

Descs  == 0 .. DESCS - 1
Frames == 1 .. MaxFrames

VARIABLES
    tsdOwn,      \* TSD_OWN: the driver may use the descriptor
    tsdLen,      \* the call whose length its TSD holds, 0 for none
    txCurrent,   \* tx_current
    sending,     \* the call of send_packet, numbered in order
    txStep,      \* its next step
    cardNext,    \* the descriptor the card comes to next
    stopped,     \* the card has stopped
    accepted,    \* history: the calls that handed a descriptor over
    sent         \* history: the calls whose frames the card has sent
cardVars == <<cardNext, stopped, sent>>
rtlVars  == <<tsdOwn, tsdLen, txCurrent, sending, txStep, cardVars, accepted>>

TypeOK ==
    /\ tsdOwn \in [Descs -> BOOLEAN]
    /\ tsdLen \in [Descs -> Frames \cup {0}]
    /\ txCurrent \in Descs /\ cardNext \in Descs
    /\ sending \in 0 .. MaxFrames
    /\ txStep \in {"idle", "wait", "start", "advance"}
    /\ stopped \in BOOLEAN
    /\ accepted \in Seq(Frames) /\ sent \in Seq(Frames \cup {0})

\* After rtl8139_init.
Init ==
    /\ tsdOwn = [d \in Descs |-> TRUE] /\ tsdLen = [d \in Descs |-> 0]
    /\ txCurrent = 0 /\ sending = 0 /\ txStep = "idle"
    /\ cardNext = 0 /\ stopped = FALSE
    /\ accepted = <<>> /\ sent = <<>>

----------------------------------------------------------------------------
(* rtl8139_send_packet *)

Call ==
    /\ txStep = "idle" /\ sending < MaxFrames
    /\ txStep' = "wait" /\ sending' = sending + 1
    /\ UNCHANGED <<tsdOwn, tsdLen, txCurrent, cardVars, accepted>>

Available ==
    /\ txStep = "wait" /\ tsdOwn[txCurrent]
    /\ txStep' = "start"
    /\ UNCHANGED <<tsdOwn, tsdLen, txCurrent, sending, cardVars, accepted>>

\* The polls run out: the call returns 0.  (As mutated: it goes on.)
TimeoutIgnored ==
    /\ txStep = "wait" /\ ~tsdOwn[txCurrent]
    /\ txStep' = "start"
    /\ UNCHANGED <<tsdOwn, tsdLen, txCurrent, sending, cardVars, accepted>>
Timeout ==
    /\ txStep = "wait" /\ ~tsdOwn[txCurrent]
    /\ txStep' = "idle"
    /\ UNCHANGED <<tsdOwn, tsdLen, txCurrent, sending, cardVars, accepted>>

\* The length goes to the TSD, which clears OWN.
Start ==
    /\ txStep = "start"
    /\ tsdLen' = [tsdLen EXCEPT ![txCurrent] = sending]
    /\ tsdOwn' = [tsdOwn EXCEPT ![txCurrent] = FALSE]
    /\ accepted' = Append(accepted, sending)
    /\ txStep' = "advance"
    /\ UNCHANGED <<txCurrent, sending, cardVars>>

Advance ==
    /\ txStep = "advance"
    /\ txCurrent' = (txCurrent + 1) % DESCS
    /\ txStep' = "idle"
    /\ UNCHANGED <<tsdOwn, tsdLen, sending, cardVars, accepted>>

----------------------------------------------------------------------------
(* The card *)

Transmit ==
    /\ ~stopped /\ ~tsdOwn[cardNext]
    /\ sent' = Append(sent, tsdLen[cardNext])
    /\ tsdOwn' = [tsdOwn EXCEPT ![cardNext] = TRUE]
    /\ cardNext' = (cardNext + 1) % DESCS
    /\ UNCHANGED <<stopped, tsdLen, txCurrent, sending, txStep, accepted>>

Stop ==
    /\ ~stopped
    /\ stopped' = TRUE
    /\ UNCHANGED <<cardNext, sent, tsdOwn, tsdLen, txCurrent, sending, txStep, accepted>>

Next == Call \/ Available \/ Timeout \/ Start \/ Advance \/ Transmit \/ Stop

----------------------------------------------------------------------------
(* Properties *)

\* The card sends one frame for each call that handed a descriptor over, with
\* that call's length and in the order of the calls, whenever descriptors run
\* out and the card falls behind or stops; and the calls that are not out yet
\* fit the descriptors.
FramesInOrder ==
    /\ IsPrefix(sent, accepted)
    /\ Len(accepted) - Len(sent) <= DESCS

Spec == Init /\ [][Next]_rtlVars
=============================================================================
