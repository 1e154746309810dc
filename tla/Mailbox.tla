------------------------------- MODULE Mailbox -------------------------------
(****************************************************************************)
(* The mailboxes of arch/stm32h/ipc_mailbox.c: a ring of SIZE bytes in the  *)
(* shared SRAM for each of the two cores, which that core fills             *)
(* (ipc_send_m7, ipc_send_m4: they signal the other one) and the other      *)
(* empties (ipc_recv_m7, ipc_recv_m4).                                      *)
(*                                                                          *)
(* Each core is linked into an image of its own, with RAM of its own        *)
(* (linker_cm7.ld, linker_cm4.ld), and so has its own m7_lock and m4_lock.  *)
(* Only its own calls take them, one at a time: they are always free, keep  *)
(* no core from the other's ring, and do not appear here.                   *)
(*                                                                          *)
(* mbox_send does not look for room (nothing calls mbox_free), and nobody   *)
(* clears the SRAM: head and tail start anywhere.  They are used through a  *)
(* mask only, so that what they are modulo SIZE is all that matters.  The   *)
(* stores of a send have no barrier between them, and the other core may    *)
(* see them in any order, up to the release in spin_unlock.  The bytes are  *)
(* not modelled, only where they go.                                        *)
(*                                                                          *)
(* pc[c]: idle    the core makes no call                                    *)
(*        store   it stores bytes or head (lines 35-39)                     *)
(*        used    it is about to read head and tail (line 45)               *)
(*        load    it loads the next byte (lines 47-50), or stores tail      *)
(*        unlock  it is about to run spin_unlock of a receive               *)
(****************************************************************************)
EXTENDS Integers

CONSTANTS
    M7, M4,      \* the cores
    Lengths,     \* the lengths of what is sent
    MaxRecv,     \* the largest max a receive is called with
    SIZE         \* MAILBOX_SIZE

ASSUME CoresAssumption == M7 # M4
ASSUME SizeAssumption == SIZE \in Nat \ {0}
ASSUME LengthsAssumption == Lengths \subseteq Nat
ASSUME MaxRecvAssumption == MaxRecv \in Nat

VARIABLES
    head, tail,   \* of the mailbox_t that core fills, modulo SIZE
    pc,
    amount,       \* a send: len.  A receive: max, then copy
    pending,      \* a send: its stores that the other core has yet to see;
                  \* store i is that of byte i, and store len that of head
    got           \* a receive: the bytes it has loaded
vars == <<head, tail, pc, amount, pending, got>>

Cores   == {M7, M4}
Peer(c) == IF c = M7 THEN M4 ELSE M7
Slots   == 0 .. SIZE - 1

TypeOK ==
    /\ head \in [Cores -> Slots] /\ tail \in [Cores -> Slots]
    /\ pc \in [Cores -> {"idle", "store", "used", "load", "unlock"}]
    /\ amount \in [Cores -> Nat]
    /\ pending \in [Cores -> SUBSET Nat]
    /\ got \in [Cores -> Nat]

\* The variables of an idle core are kept at 0 and {}.
Init ==
    /\ head \in [Cores -> Slots] /\ tail \in [Cores -> Slots]
    /\ pc = [c \in Cores |-> "idle"]
    /\ amount = [c \in Cores |-> 0]
    /\ pending = [c \in Cores |-> {}]
    /\ got = [c \in Cores |-> 0]

\* (x + i) & (MAILBOX_SIZE - 1).  (As mutated: the mask is forgotten.)
BehindUnmasked(x, i) == x + i
Behind(x, i) == (x + i) % SIZE

\* mbox_used
Used(c) == (head[c] - tail[c]) % SIZE

Goto(c, from, to) == pc[c] = from /\ pc' = [pc EXCEPT ![c] = to]

----------------------------------------------------------------------------
(* mbox_send *)

CallSend(c, len) ==
    /\ Goto(c, "idle", "store")
    /\ amount' = [amount EXCEPT ![c] = len]
    /\ pending' = [pending EXCEPT ![c] = 0 .. len]
    /\ UNCHANGED <<head, tail, got>>

StoreByte(c, i) ==
    /\ pc[c] = "store" /\ i # amount[c]
    /\ pending' = [pending EXCEPT ![c] = @ \ {i}]
    /\ UNCHANGED <<head, tail, pc, amount, got>>

StoreHead(c) ==
    /\ pc[c] = "store" /\ amount[c] \in pending[c]
    /\ head' = [head EXCEPT ![c] = Behind(@, amount[c])]
    /\ pending' = [pending EXCEPT ![c] = @ \ {amount[c]}]
    /\ UNCHANGED <<tail, pc, amount, got>>

\* spin_unlock is a release: every store is seen before it.
SendReturns(c) ==
    /\ pending[c] = {}
    /\ Goto(c, "store", "idle")
    /\ amount' = [amount EXCEPT ![c] = 0]
    /\ UNCHANGED <<head, tail, pending, got>>

----------------------------------------------------------------------------
(* mbox_recv, of the other core's mailbox *)

CallRecv(c, max) ==
    /\ Goto(c, "idle", "used")
    /\ amount' = [amount EXCEPT ![c] = max]
    /\ UNCHANGED <<head, tail, pending, got>>

ReadUsed(c) ==
    /\ Goto(c, "used", "load")
    /\ amount' = [amount EXCEPT ![c] = IF Used(Peer(c)) > @ THEN @ ELSE Used(Peer(c))]
    /\ UNCHANGED <<head, tail, pending, got>>

LoadByte(c) ==
    /\ pc[c] = "load" /\ got[c] < amount[c]
    /\ got' = [got EXCEPT ![c] = @ + 1]
    /\ UNCHANGED <<head, tail, pc, amount, pending>>

\* (As mutated: tail moves to where head is by now, over bytes that arrived
\* during the copy.)
StoreTailHead(c) ==
    /\ got[c] = amount[c]
    /\ Goto(c, "load", "unlock")
    /\ tail' = [tail EXCEPT ![Peer(c)] = head[Peer(c)]]
    /\ UNCHANGED <<head, amount, pending, got>>
StoreTail(c) ==
    /\ got[c] = amount[c]
    /\ Goto(c, "load", "unlock")
    /\ tail' = [tail EXCEPT ![Peer(c)] = Behind(@, amount[c])]
    /\ UNCHANGED <<head, amount, pending, got>>

RecvReturns(c) ==
    /\ Goto(c, "unlock", "idle")
    /\ amount' = [amount EXCEPT ![c] = 0]
    /\ got' = [got EXCEPT ![c] = 0]
    /\ UNCHANGED <<head, tail, pending>>

----------------------------------------------------------------------------
Send(c) ==
    StoreHead(c) \/ SendReturns(c) \/ \E i \in pending[c] : StoreByte(c, i)
Recv(c) == ReadUsed(c) \/ LoadByte(c) \/ StoreTail(c) \/ RecvReturns(c)

Next ==
    \E c \in Cores :
        \/ \E len \in Lengths : CallSend(c, len)
        \/ \E max \in 1 .. MaxRecv : CallRecv(c, max)
        \/ Send(c) \/ Recv(c)

Spec == Init /\ [][Next]_vars

----------------------------------------------------------------------------
(* Properties *)

\* The bytes of core c's mailbox that a receive in progress has claimed: it
\* fixes their number before it copies them, and moves tail over them after.
Claimed(c) == IF pc[Peer(c)] = "load" THEN amount[Peer(c)] ELSE 0

\* The counts the mailboxes stand for, the call each core is in and whether it
\* has taken effect.
AbsUnread == [c \in Cores |-> (head[c] - tail[c] - Claimed(c)) % SIZE]
AbsCall   == [c \in Cores |-> CASE pc[c] = "idle"  -> "none"
                                [] pc[c] = "store" -> "send"
                                [] OTHER           -> "recv"]
AbsDone   == [c \in Cores |-> \/ pc[c] = "store" /\ amount[c] \notin pending[c]
                              \/ pc[c] \in {"load", "unlock"}]
Counts == INSTANCE ByteCount WITH
    unread <- AbsUnread, call <- AbsCall, done <- AbsDone

\* Although no lock keeps the cores apart, the indices count every byte once:
\* a send adds its length when head is stored, whatever is received meanwhile;
\* a receive takes what it found when it read head and tail, whatever is sent
\* while it copies; and all this modulo SIZE, wherever the indices started.
ImplementsCounts == Counts!Spec
=============================================================================
