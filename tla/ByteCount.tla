----------------------------- MODULE ByteCount ------------------------------
(****************************************************************************)
(* What the indices of arch/stm32h/ipc_mailbox.c count: for each core's     *)
(* mailbox the bytes sent and not taken, modulo the size of the ring, since *)
(* nothing keeps a sender from sending more than there is room for.  A call *)
(* takes effect in one step between its start and its return: a send adds   *)
(* its length, a receive takes what is counted, at most its caller's max.   *)
(****************************************************************************)
EXTENDS Naturals

CONSTANTS Cores, Peer(_), Lengths, MaxRecv, SIZE

VARIABLES
    unread,   \* the count of each core's mailbox
    call,     \* what each core is in: "none", "send" or "recv"
    amount,   \* the length of a send, the max of a receive, then what it took
    done      \* has the call taken effect?

vars == <<unread, call, amount, done>>

Init ==
    /\ unread \in [Cores -> 0 .. SIZE - 1]
    /\ call = [c \in Cores |-> "none"]
    /\ amount = [c \in Cores |-> 0]
    /\ done = [c \in Cores |-> FALSE]

Start(c, op, n) ==
    /\ call[c] = "none"
    /\ call' = [call EXCEPT ![c] = op]
    /\ amount' = [amount EXCEPT ![c] = n]
    /\ UNCHANGED <<unread, done>>

Effect(c, op) ==
    /\ call[c] = op /\ ~done[c]
    /\ done' = [done EXCEPT ![c] = TRUE]
    /\ UNCHANGED call

Send(c) ==
    /\ Effect(c, "send")
    /\ unread' = [unread EXCEPT ![c] = (@ + amount[c]) % SIZE]
    /\ UNCHANGED amount

Recv(c) ==
    LET n == IF unread[Peer(c)] > amount[c] THEN amount[c] ELSE unread[Peer(c)]
    IN  /\ Effect(c, "recv")
        /\ unread' = [unread EXCEPT ![Peer(c)] = @ - n]
        /\ amount' = [amount EXCEPT ![c] = n]

Return(c) ==
    /\ call[c] # "none" /\ done[c]
    /\ call' = [call EXCEPT ![c] = "none"]
    /\ amount' = [amount EXCEPT ![c] = 0]
    /\ done' = [done EXCEPT ![c] = FALSE]
    /\ UNCHANGED unread

Next ==
    \E c \in Cores :
        \/ \E n \in Lengths : Start(c, "send", n)
        \/ \E max \in 1 .. MaxRecv : Start(c, "recv", max)
        \/ Send(c) \/ Recv(c) \/ Return(c)

Spec == Init /\ [][Next]_vars
=============================================================================
