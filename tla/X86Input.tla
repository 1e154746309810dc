------------------------------ MODULE X86Input ------------------------------
(****************************************************************************)
(* An input device of the PC and its reader: the first serial port          *)
(* (src/drivers/serial.c) or the keyboard (src/drivers/ps2_kbd.c), whose    *)
(* interrupt handler fills a ring that a thread empties in its blocking     *)
(* getchar.  There is one CPU: the thread runs between interrupts, and the  *)
(* handler may run between any two of its accesses to the ring.             *)
(*                                                                          *)
(* Who calls the handler is not modelled: as the stub is, irq_handler calls *)
(* no driver (Interrupts).  Once interrupts are on it may be called at any  *)
(* time, also when the device has not asked for it, or never, and nothing   *)
(* here is fair.                                                            *)
(*                                                                          *)
(* External: the device queues what arrives (the FIFO of the UART, the      *)
(* buffer of the keyboard).                                                 *)
(****************************************************************************)
EXTENDS Naturals, Sequences, SequencesExt

CONSTANTS
    SIZE,        \* slots of the ring: 256
    FIFO,        \* what the device can queue
    MaxInput     \* bound: the bytes that arrive in a behaviour

VARIABLES
    kind,        \* "uart" or "kbd"
    arrived,     \* bytes arrived so far: they are numbered in this order
    fifo,        \* those the device holds
    lineError,   \* LSR reports an overrun, parity or framing error
    ring, rxHead, rxTail,
    initialized, \* the field of serial_port_t; serial_init runs with
    boot,        \* interrupts off: its next step, or "done"
    isr,         \* the handler's next step, "none" outside it
    thread,      \* the thread's next step
    got,         \* history: the bytes it read
    lost         \* history: the bytes that will never be read
deviceVars == <<kind, arrived, fifo, lineError>>
ringVars   == <<ring, rxHead, rxTail>>
inputVars  == <<deviceVars, ringVars, initialized, boot, isr, thread, got, lost>>

Slots  == 0 .. SIZE - 1
Inputs == 1 .. MaxInput

TypeOK ==
    /\ kind \in {"uart", "kbd"}
    /\ arrived \in 0 .. MaxInput
    /\ fifo \in Seq(Inputs) /\ Len(fifo) <= FIFO
    /\ lineError \in BOOLEAN
    /\ initialized \in BOOLEAN
    /\ ring \in [Slots -> Inputs \cup {0}]
    /\ rxHead \in Slots /\ rxTail \in Slots
    /\ boot \in {"enable", "clear", "mark", "sti", "done"}
    /\ isr \in {"none", "cause", "data"}
    /\ thread \in {"idle", "test", "hlt", "asleep", "read", "move", "flush"}
    /\ got \in Seq(Inputs)
    /\ lost \subseteq Inputs

Init ==
    /\ kind \in {"uart", "kbd"}
    /\ arrived = 0 /\ fifo = <<>> /\ lineError = FALSE
    /\ ring = [i \in Slots |-> 0] /\ rxHead = 0 /\ rxTail = 0
    /\ initialized = FALSE
    /\ boot = IF kind = "uart" THEN "enable" ELSE "sti"
    /\ isr = "none" /\ thread = "idle" /\ got = <<>>
    /\ lost = {}

\* (As mutated: the index does not wrap.)
AfterUnwrapped(i) == i + 1
After(i) == (i + 1) % SIZE

----------------------------------------------------------------------------
(* The device *)

\* A byte arrives.  A full UART drops it and reports the overrun; the keyboard
\* just drops it.
Arrive ==
    /\ arrived < MaxInput
    /\ arrived' = arrived + 1
    /\ \/ /\ Len(fifo) < FIFO
          /\ fifo' = Append(fifo, arrived')
          /\ UNCHANGED <<lineError, lost>>
       \/ /\ Len(fifo) = FIFO
          /\ fifo' = fifo
          /\ lost' = lost \cup {arrived'}
          /\ lineError' = (kind = "uart")
    /\ UNCHANGED <<kind, ringVars, initialized, boot, isr, thread, got>>

----------------------------------------------------------------------------
(* serial_init, called by clock_init before enable_interrupts *)

\* Lines 135-175: IER off, the FIFO cleared, IER on again.
EnableUart ==
    /\ boot = "enable"
    /\ boot' = "clear"
    /\ fifo' = <<>> /\ lost' = lost \cup ToSet(fifo)
    /\ lineError' = lineError
    /\ UNCHANGED <<kind, arrived, ringVars, initialized, isr, thread, got>>

ClearRing ==
    /\ boot = "clear"
    /\ boot' = "mark"
    /\ rxHead' = 0 /\ rxTail' = 0
    /\ UNCHANGED <<deviceVars, ring, initialized, isr, thread, got, lost>>

MarkInitialized ==
    /\ boot = "mark"
    /\ boot' = "sti"
    /\ initialized' = TRUE
    /\ UNCHANGED <<deviceVars, ringVars, isr, thread, got, lost>>

\* enable_interrupts, the last call of clock_init.
EnableInterrupts ==
    /\ boot = "sti"
    /\ boot' = "done"
    /\ UNCHANGED <<deviceVars, ringVars, initialized, isr, thread, got, lost>>

----------------------------------------------------------------------------
(* The handler: serial_irq_handler(0) or ps2_kbd_irq_handler *)

\* It runs with interrupts off, and ends the hlt of a thread that sleeps.  It
\* returns at once from a port that is not initialized; the keyboard's is
\* called only for a code.
Interrupt ==
    /\ boot = "done" /\ isr = "none"
    /\ kind = "kbd" => fifo # <<>>
    /\ isr' = IF kind = "uart" /\ ~initialized THEN "none" ELSE "cause"
    /\ thread' = IF thread = "asleep" THEN "test" ELSE thread
    /\ UNCHANGED <<deviceVars, ringVars, initialized, boot, got, lost>>

\* Put byte c into the ring, unless that would make it look empty.  (As
\* mutated: the bound is not tested.)
PutUnbounded(c) ==
    /\ ring' = [ring EXCEPT ![rxHead] = c]
    /\ rxHead' = After(rxHead)
    /\ lost' = lost
Put(c) ==
    IF After(rxHead) # rxTail
    THEN /\ ring' = [ring EXCEPT ![rxHead] = c]
         /\ rxHead' = After(rxHead)
         /\ lost' = lost
    ELSE UNCHANGED <<ring, rxHead>> /\ lost' = lost \cup {c}

\* IIR names one cause, a line error before received data; for an error the
\* handler reads LSR, which clears it, and returns.
ServeLineError ==
    /\ kind = "uart" /\ isr = "cause" /\ lineError
    /\ lineError' = FALSE
    /\ isr' = "none"
    /\ UNCHANGED <<kind, arrived, fifo, ringVars, initialized, boot, thread, got, lost>>

\* IIR names received data, unless the FIFO is below its trigger level and the
\* time-out of its first byte has not run out: then it names no cause.
ServeData ==
    /\ kind = "uart" /\ isr = "cause" /\ ~lineError
    /\ isr' \in IF fifo = <<>> THEN {"none"} ELSE {"none", "data"}
    /\ UNCHANGED <<deviceVars, ringVars, initialized, boot, thread, got, lost>>

\* One turn of the loop over LSR and the data register; reading LSR clears a
\* line error.
Drain ==
    /\ isr = "data"
    /\ IF fifo = <<>>
       THEN isr' = "none" /\ UNCHANGED <<fifo, ringVars, lost>>
       ELSE isr' = "data" /\ fifo' = Tail(fifo) /\ Put(Head(fifo)) /\ UNCHANGED rxTail
    /\ lineError' = FALSE
    /\ UNCHANGED <<kind, arrived, initialized, boot, thread, got>>

\* The keyboard handler reads one code: a key pressed gives a character, a
\* release or a modifier none.
KeyCode ==
    /\ kind = "kbd" /\ isr = "cause"
    /\ isr' = "none"
    /\ fifo # <<>> /\ fifo' = Tail(fifo)
    /\ \/ Put(Head(fifo))
       \/ UNCHANGED <<ring, rxHead>> /\ lost' = lost \cup {Head(fifo)}
    /\ UNCHANGED <<kind, arrived, lineError, rxTail, initialized, boot, thread, got>>

----------------------------------------------------------------------------
(* The thread: serial_getchar_blocking or ps2_kbd_getchar_blocking *)

ThreadStep(from, to) ==
    boot = "done" /\ isr = "none" /\ thread = from /\ thread' = to

CallGetchar ==
    /\ ThreadStep("idle", "test")
    /\ UNCHANGED <<deviceVars, ringVars, initialized, boot, isr, got, lost>>

\* A port that is not initialized has nothing available.
Available == rxHead # rxTail /\ (kind = "uart" => initialized)

Test ==
    /\ ThreadStep("test", IF Available THEN "read" ELSE "hlt")
    /\ UNCHANGED <<deviceVars, ringVars, initialized, boot, isr, got, lost>>

Hlt ==
    /\ ThreadStep("hlt", "asleep")
    /\ UNCHANGED <<deviceVars, ringVars, initialized, boot, isr, got, lost>>

\* Some other interrupt ends hlt.
Tick ==
    /\ ThreadStep("asleep", "test")
    /\ UNCHANGED <<deviceVars, ringVars, initialized, boot, isr, got, lost>>

ReadSlot ==
    /\ ThreadStep("read", "move")
    /\ got' = Append(got, ring[rxTail])
    /\ UNCHANGED <<deviceVars, ringVars, initialized, boot, isr, lost>>

MoveTail ==
    /\ ThreadStep("move", "idle")
    /\ rxTail' = After(rxTail)
    /\ UNCHANGED <<deviceVars, ring, rxHead, initialized, boot, isr, got, lost>>

\* The bytes the ring holds, oldest first.
InRing == [i \in 1 .. (rxHead + SIZE - rxTail) % SIZE |-> ring[(rxTail + i - 1) % SIZE]]

\* Those among them that nobody has read.
Dropped == (ToSet(InRing) \ ToSet(got)) \ {0}

\* ps2_kbd_flush stores tail, then head: what the handler put in between is
\* gone too.
FlushTail ==
    /\ kind = "kbd"
    /\ ThreadStep("idle", "flush")
    /\ rxTail' = 0
    /\ lost' = lost \cup Dropped
    /\ UNCHANGED <<deviceVars, ring, rxHead, initialized, boot, isr, got>>

FlushHead ==
    /\ ThreadStep("flush", "idle")
    /\ rxHead' = 0
    /\ lost' = lost \cup Dropped
    /\ UNCHANGED <<deviceVars, ring, rxTail, initialized, boot, isr, got>>

----------------------------------------------------------------------------
Handler == ServeLineError \/ ServeData \/ Drain \/ KeyCode
Reading == Test \/ Hlt \/ ReadSlot \/ MoveTail

Next ==
    \/ Arrive
    \/ EnableUart \/ ClearRing \/ MarkInitialized \/ EnableInterrupts
    \/ Interrupt \/ Handler
    \/ CallGetchar \/ Reading \/ Tick \/ FlushTail \/ FlushHead

Spec == Init /\ [][Next]_inputVars

----------------------------------------------------------------------------
(* Properties *)

\* What was read, what waits in the ring and what the device holds come in the
\* order of arrival, none twice, and everything else that arrived is known to
\* be lost.  (While the thread is between the two halves of serial_getc the
\* byte read is still in the ring; between the two stores of ps2_kbd_flush
\* nothing reads the ring.)
Waiting == IF thread = "move" THEN Tail(InRing) ELSE InRing
InputInOrder ==
    thread # "flush" =>
        LET path == got \o Waiting \o fifo
        IN  /\ \A i, j \in DOMAIN path : i < j => path[i] < path[j]
            /\ ToSet(path) \cap lost = {}
            /\ ToSet(path) \cup lost = 1 .. arrived
=============================================================================
