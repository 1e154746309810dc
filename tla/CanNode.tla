------------------------------- MODULE CanNode -------------------------------
(****************************************************************************)
(* Reception of CAN frames: the bxCAN driver of src/kernel/can.c over the   *)
(* message queue, and isotp_recv of src/kernel/isotp.c on top of it.        *)
(*                                                                          *)
(* Two contexts share one core.  The task runs can_init, sends with         *)
(* can_send and polls isotp_recv; CEC_CAN_IRQHandler interrupts it between  *)
(* any two of its memory accesses once can_init enabled it, and the task    *)
(* does not move until the handler returned.  Both use the queue through    *)
(* the plain spin_lock, steps and all, of module MsgQueue.                  *)
(*                                                                          *)
(* The handler means to test and to release the receive FIFO (RF0R, offset  *)
(* 0x0C) but addresses offset 0x08, the transmit status register: it tests  *)
(* whether the request of transmit mailbox 0 completed (RQCP0), and its     *)
(* last store clears that bit.  The FIFO is never released, so every        *)
(* activation copies whatever the FIFO shows first.  A message of the queue *)
(* is therefore named by the number of the activation that made the copy,   *)
(* and shows[k] is the frame copy k holds.                                  *)
(****************************************************************************)
EXTENDS Naturals, Sequences, FiniteSets, SequencesExt

CONSTANTS
    DEPTH,         \* MSG_DEPTH
    HwDepth,       \* frames the controller's receive FIFO holds
    MaxFrames,     \* bound: frames that arrive in a behaviour
    MaxCopies,     \* bound: frames the handler copies in a behaviour
    SingleFrames   \* the frames isotp_recv takes for a single frame

ASSUME CanAssumption ==
    /\ DEPTH \in Nat \ {0} /\ HwDepth \in Nat \ {0}
    /\ MaxFrames \in Nat /\ MaxCopies \in Nat
    /\ SingleFrames \subseteq 0 .. MaxFrames

VARIABLES
    buf, head, tail, count, lock, pc, op, msg, ret,   \* can_rx_q and its callers
    boot,        \* how far the task is in can_init
    hwFifo,      \* frames the controller holds
    arrived,     \* frames that arrived so far
    txrq,        \* TIR bit 0: mailbox 0 has a frame to transmit
    rqcp,        \* TSR bit 0: the request of mailbox 0 completed
    irq,         \* where the handler is: "off", "send" or "clear"
    shows,       \* the frame each copy holds, in order of activation
    delivered,   \* the copies isotp_recv returned, in order (history)
    refused,     \* copies the handler dropped on a full queue (history)
    consumed     \* copies isotp_recv took from the queue (history)

queueVars  == <<buf, head, tail, count, lock, pc, op, msg, ret>>
controller == <<hwFifo, arrived, txrq, rqcp>>
history    == <<delivered, refused, consumed>>
vars       == <<queueVars, boot, controller, irq, shows, history>>

Contexts == {"task", "irq"}
Frames   == 1 .. MaxFrames
NoFrame  == 0
Copies   == 1 .. MaxCopies
NoCopy   == 0

Q == INSTANCE MsgQueue WITH Threads <- Contexts, Msgs <- Copies, NoMsg <- NoCopy

BootSteps == {"clocks", "irqOn", "count0", "tail0", "head0", "ready"}

TypeOK ==
    /\ Q!TypeOK
    /\ boot \in BootSteps
    /\ hwFifo \in Seq(Frames) /\ Len(hwFifo) <= HwDepth
    /\ arrived \in 0 .. MaxFrames
    /\ txrq \in BOOLEAN /\ rqcp \in BOOLEAN
    /\ irq \in {"off", "send", "clear"}
    /\ shows \in Seq(Frames \cup {NoFrame}) /\ Len(shows) <= MaxCopies
    /\ delivered \in Seq(Copies \cup {NoCopy})
    /\ refused \subseteq Copies
    /\ consumed \subseteq Copies \cup {NoCopy}

\* Power-on: the queue lies in zeroed memory, the interrupt is not enabled.
Init ==
    /\ Q!Init
    /\ boot = "clocks"
    /\ hwFifo = <<>> /\ arrived = 0
    /\ txrq = FALSE /\ rqcp = FALSE
    /\ irq = "off"
    /\ shows = <<>> /\ delivered = <<>>
    /\ refused = {} /\ consumed = {}

----------------------------------------------------------------------------
\* The controller takes a frame from the bus, or loses it when its FIFO is full.
Arrive ==
    /\ arrived < MaxFrames
    /\ arrived' = arrived + 1
    /\ hwFifo' = IF Len(hwFifo) < HwDepth THEN Append(hwFifo, arrived') ELSE hwFifo
    /\ UNCHANGED <<queueVars, boot, txrq, rqcp, irq, shows, history>>

\* It is done with the frame in mailbox 0.
TxDone ==
    /\ txrq
    /\ txrq' = FALSE
    /\ rqcp' = TRUE
    /\ UNCHANGED <<queueVars, boot, hwFifo, arrived, irq, shows, history>>

----------------------------------------------------------------------------
\* The task runs only while the handler does not.
TaskRuns == irq = "off"

BootStep(from, to) ==
    /\ TaskRuns
    /\ boot = from
    /\ boot' = to
    /\ UNCHANGED <<pc, op, msg, ret, controller, irq, shows, history>>

\* can_init enables the interrupt before msg_init empties the queue, one store
\* after the other: count, tail, head, lock.
EnableIrq == BootStep("clocks", "irqOn") /\ UNCHANGED <<buf, head, tail, count, lock>>
MsgInit ==
    \/ BootStep("irqOn", "count0") /\ count' = 0 /\ UNCHANGED <<buf, head, tail, lock>>
    \/ BootStep("count0", "tail0") /\ tail' = 0 /\ UNCHANGED <<buf, head, count, lock>>
    \/ BootStep("tail0", "head0") /\ head' = 0 /\ UNCHANGED <<buf, tail, count, lock>>
    \/ BootStep("head0", "ready") /\ lock' = 0 /\ UNCHANGED <<buf, head, tail, count>>

\* can_send: mailbox 0 takes the frame unless it still has one.  The request
\* clears RQCP0.
CanSend ==
    /\ TaskRuns
    /\ boot = "ready" /\ pc["task"] = "idle"
    /\ ~txrq
    /\ txrq' = TRUE
    /\ rqcp' = FALSE
    /\ UNCHANGED <<queueVars, boot, hwFifo, arrived, irq, shows, history>>

\* isotp_recv calls can_recv, which calls msg_recv.
TaskPolls ==
    /\ TaskRuns
    /\ boot = "ready"
    /\ Q!CallRecv("task")
    /\ UNCHANGED <<boot, controller, irq, shows, history>>

TaskInQueue ==
    /\ TaskRuns
    /\ Q!InnerStep("task")
    /\ UNCHANGED <<boot, controller, irq, shows, history>>

\* A copy isotp_recv hands to its caller: a single frame, or the zeroes of a slot
\* that no copy was ever written to.
ForCaller(k) == k = NoCopy \/ shows[k] \in SingleFrames

\* can_recv returns: isotp_recv drops any other frame it got.
TaskReturns ==
    /\ TaskRuns
    /\ Q!Unlock("task")
    /\ consumed' = IF ret["task"] = "ok" THEN consumed \cup {msg["task"]} ELSE consumed
    /\ delivered' = IF ret["task"] = "ok" /\ ForCaller(msg["task"])
                    THEN Append(delivered, msg["task"]) ELSE delivered
    /\ UNCHANGED <<boot, controller, irq, shows, refused>>

----------------------------------------------------------------------------
\* CEC_CAN_IRQHandler: RQCP0 is set, the frame the FIFO shows is read and
\* msg_send called.  The handler cannot interrupt itself; without RQCP0 it
\* returns and nothing changes.  (The four reads of the mailbox are one step: no
\* property looks inside a copy.)
IrqEnter ==
    /\ irq = "off"
    /\ boot # "clocks"
    /\ rqcp
    /\ Len(shows) < MaxCopies
    /\ shows' = Append(shows, IF hwFifo = <<>> THEN NoFrame ELSE Head(hwFifo))
    /\ Q!CallSend("irq", Len(shows) + 1)
    /\ irq' = "send"
    /\ UNCHANGED <<boot, controller, history>>

IrqInQueue ==
    /\ irq = "send"
    /\ Q!InnerStep("irq")
    /\ UNCHANGED <<boot, controller, irq, shows, history>>

\* msg_send returns and its result is not looked at: a refused copy is gone.
IrqSent ==
    /\ irq = "send"
    /\ Q!Unlock("irq")
    /\ irq' = "clear"
    /\ refused' = IF ret["irq"] = "fail" THEN refused \cup {msg["irq"]} ELSE refused
    /\ UNCHANGED <<boot, controller, shows, delivered, consumed>>

\* The store to TSR writes the set RQCP0 back, which clears it, and the handler
\* returns.  The FIFO stays as it is.
IrqLeave ==
    /\ irq = "clear"
    /\ irq' = "off"
    /\ rqcp' = FALSE
    /\ UNCHANGED <<queueVars, boot, hwFifo, arrived, txrq, shows, history>>

----------------------------------------------------------------------------
TaskStep == EnableIrq \/ MsgInit \/ CanSend \/ TaskPolls \/ TaskInQueue \/ TaskReturns
IrqStep  == IrqEnter \/ IrqInQueue \/ IrqSent \/ IrqLeave

Next == Arrive \/ TxDone \/ TaskStep \/ IrqStep

Spec == Init /\ [][Next]_vars

\* The core executes: whichever context has it goes on.
FairSpec == Spec /\ WF_vars(TaskStep) /\ WF_vars(IrqStep)

----------------------------------------------------------------------------
\* What the handler copied reaches the application in the order of the copies,
\* none twice and none that was never made.
CopiesInOrder ==
    /\ \A i \in 1 .. Len(delivered) : delivered[i] \in 1 .. Len(shows)
    /\ \A i \in 1 .. Len(delivered) - 1 : delivered[i] < delivered[i + 1]

Queued == ToSet(Q!Contents)
\* A copy on its way: made and not yet in the queue, refused by msg_send or taken
\* by msg_recv.
InHand == {msg[c] : c \in {x \in Contexts :
             \/ x = "irq" /\ irq = "send" /\ ret[x] # "ok"
             \/ x = "task" /\ ret[x] = "ok"}}

\* Every copy is in exactly one place: in a caller's hands, in the queue, taken by
\* the application, or refused.  The queue loses no copy and duplicates none.
EveryCopyAccounted ==
    LET places == <<Queued, InHand, consumed, refused>>
    IN  /\ UNION Range(places) = 1 .. Len(shows)
        /\ \A i, j \in DOMAIN places : i # j => places[i] \cap places[j] = {}
        /\ Cardinality(Queued) = Len(Q!Contents)

\* The handler gives up a copy only while the queue holds DEPTH others.
RefusedOnlyWhenFull ==
    [][refused' # refused => Len(Q!Contents) = DEPTH]_vars

\* can.c: "release FIFO".  A frame from the bus reaches the application once.
EachFrameOnce ==
    \A i, j \in 1 .. Len(delivered) :
        i # j /\ delivered[i] # NoCopy /\ delivered[j] # NoCopy
              /\ shows[delivered[i]] # NoFrame
          => shows[delivered[i]] # shows[delivered[j]]

\* msg.c: "lock-free ring buffer".  A lock-free queue never makes the handler
\* wait for the task it interrupted: every activation returns.
HandlerReturns == irq # "off" ~> irq = "off"
=============================================================================
