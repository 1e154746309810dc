------------------------------ MODULE MsgQueue ------------------------------
(****************************************************************************)
(* The message queue of src/kernel/msg.c under the spinlock of              *)
(* src/kernel/spinklock.c: a ring of DEPTH slots with head, tail and count, *)
(* every access to memory that another context could see a step of its own. *)
(*                                                                          *)
(* pc[t]    the thread is about to                                          *)
(* idle     call msg_send or msg_recv                                       *)
(* tas      run __sync_lock_test_and_set                                    *)
(* spin     read lock->lock in the inner loop of spin_lock                  *)
(* check    compare count with its bound                                    *)
(* copy     copy the message into or out of buf                             *)
(* move     advance head (a send) or tail (a receive)                       *)
(* count    adjust count                                                    *)
(* unlock   run __sync_lock_release and return                              *)
(****************************************************************************)
EXTENDS Naturals, Sequences, FiniteSets

CONSTANTS
    Threads,     \* the contexts that call the queue
    Msgs,        \* message contents
    NoMsg,       \* no message, and what a slot holds before its first one
    DEPTH        \* MSG_DEPTH

ASSUME DepthAssumption == DEPTH \in Nat \ {0}
ASSUME NoMsgAssumption == NoMsg \notin Msgs

VARIABLES
    buf, head, tail, count,   \* the msg_queue_t
    lock,                     \* its lock: 0 or 1
    pc,
    op, msg, ret              \* the call of each thread: its kind, the message
                              \* it carries and which return it is going to
queueVars == <<buf, head, tail, count>>
callVars  == <<pc, op, msg, ret>>
vars      == <<queueVars, lock, callVars>>

Indices == 0 .. DEPTH - 1
Inside  == {"check", "copy", "move", "count", "unlock"}

TypeOK ==
    /\ buf \in [Indices -> Msgs \cup {NoMsg}]
    /\ head \in Indices
    /\ tail \in Indices
    /\ count \in 0 .. DEPTH
    /\ lock \in {0, 1}
    /\ pc \in [Threads -> {"idle", "tas", "spin"} \cup Inside]
    /\ op \in [Threads -> {"none", "send", "recv"}]
    /\ msg \in [Threads -> Msgs \cup {NoMsg}]
    /\ ret \in [Threads -> {"none", "ok", "fail"}]

\* msg_init of a queue in zeroed memory.
Init ==
    /\ buf = [i \in Indices |-> NoMsg]
    /\ head = 0 /\ tail = 0 /\ count = 0
    /\ lock = 0
    /\ pc = [t \in Threads |-> "idle"]
    /\ op = [t \in Threads |-> "none"]
    /\ msg = [t \in Threads |-> NoMsg]
    /\ ret = [t \in Threads |-> "none"]

----------------------------------------------------------------------------
\* t moves from one program point to the next.
Goto(t, from, to) == pc[t] = from /\ pc' = [pc EXCEPT ![t] = to]

Call(t, o, m) ==
    /\ Goto(t, "idle", "tas")
    /\ op' = [op EXCEPT ![t] = o]
    /\ msg' = [msg EXCEPT ![t] = m]
    /\ UNCHANGED <<queueVars, lock, ret>>
CallSend(t, m) == Call(t, "send", m)
CallRecv(t)    == Call(t, "recv", NoMsg)

\* spin_lock: the atomic exchange wins the lock when it reads 0.  (As mutated:
\* a plain read of 0, and the store of 1 in a later step.)
TestAndSetReadOnly(t) ==
    /\ Goto(t, "tas", IF lock = 0 THEN "check" ELSE "spin")
    /\ UNCHANGED <<queueVars, lock, op, msg, ret>>
TestAndSet(t) ==
    /\ Goto(t, "tas", IF lock = 0 THEN "check" ELSE "spin")
    /\ lock' = 1
    /\ UNCHANGED <<queueVars, op, msg, ret>>

\* The inner loop: back to the exchange once the lock reads 0.
Spin(t) ==
    /\ lock = 0
    /\ Goto(t, "spin", "tas")
    /\ UNCHANGED <<queueVars, lock, op, msg, ret>>

\* The bound each call tests: full for a send, empty for a receive.  (As
\* mutated, RefusedOffByOne: > for >=, which lets one message too many in;
\* RefusedEarly: the last slot is never used.)
RefusedEarly(t) ==
    \/ op[t] = "send" /\ count + 1 >= DEPTH
    \/ op[t] = "recv" /\ count = 0
RefusedOffByOne(t) ==
    \/ op[t] = "send" /\ count > DEPTH
    \/ op[t] = "recv" /\ count = 0
Refused(t) ==
    \/ op[t] = "send" /\ count >= DEPTH
    \/ op[t] = "recv" /\ count = 0

\* (As mutated: the early return leaves the lock behind.)
CheckReturnsLocked(t) ==
    /\ pc[t] = "check"
    /\ IF Refused(t)
       THEN /\ pc' = [pc EXCEPT ![t] = "idle"]
            /\ op' = [op EXCEPT ![t] = "none"]
            /\ msg' = [msg EXCEPT ![t] = NoMsg]
            /\ UNCHANGED ret
       ELSE pc' = [pc EXCEPT ![t] = "copy"] /\ UNCHANGED <<op, msg, ret>>
    /\ UNCHANGED <<queueVars, lock>>
Check(t) ==
    /\ Goto(t, "check", IF Refused(t) THEN "unlock" ELSE "copy")
    /\ ret' = IF Refused(t) THEN [ret EXCEPT ![t] = "fail"] ELSE ret
    /\ UNCHANGED <<queueVars, lock, op, msg>>

\* q->buf[q->head] = *msg, or *msg = q->buf[q->tail].
Copy(t) ==
    /\ Goto(t, "copy", "move")
    /\ \/ /\ op[t] = "send"
          /\ buf' = [buf EXCEPT ![head] = msg[t]]
          /\ msg' = msg
       \/ /\ op[t] = "recv"
          /\ msg' = [msg EXCEPT ![t] = buf[tail]]
          /\ buf' = buf
    /\ UNCHANGED <<head, tail, count, lock, op, ret>>

\* head or tail to the next slot.  A receive is then sure of its result.  (As
\* mutated, MoveHeadOnly: a receive leaves tail where it is; MoveUnwrapped: the
\* index runs past the last slot.)
MoveHeadOnly(t) ==
    /\ Goto(t, "move", "count")
    /\ head' = IF op[t] = "send" THEN (head + 1) % DEPTH ELSE head
    /\ ret' = IF op[t] = "recv" THEN [ret EXCEPT ![t] = "ok"] ELSE ret
    /\ UNCHANGED <<buf, tail, count, lock, op, msg>>
MoveUnwrapped(t) ==
    /\ Goto(t, "move", "count")
    /\ head' = IF op[t] = "send" THEN head + 1 ELSE head
    /\ tail' = IF op[t] = "recv" THEN tail + 1 ELSE tail
    /\ ret' = IF op[t] = "recv" THEN [ret EXCEPT ![t] = "ok"] ELSE ret
    /\ UNCHANGED <<buf, count, lock, op, msg>>
Move(t) ==
    /\ Goto(t, "move", "count")
    /\ \/ /\ op[t] = "send"
          /\ head' = (head + 1) % DEPTH
          /\ UNCHANGED <<tail, ret>>
       \/ /\ op[t] = "recv"
          /\ tail' = (tail + 1) % DEPTH
          /\ ret' = [ret EXCEPT ![t] = "ok"]
          /\ UNCHANGED head
    /\ UNCHANGED <<buf, count, lock, op, msg>>

Count(t) ==
    /\ Goto(t, "count", "unlock")
    /\ \/ op[t] = "send" /\ count' = count + 1
       \/ op[t] = "recv" /\ count' = count - 1
    /\ ret' = [ret EXCEPT ![t] = "ok"]
    /\ UNCHANGED <<buf, head, tail, lock, op, msg>>

\* spin_unlock and the return to the caller.
Unlock(t) ==
    /\ Goto(t, "unlock", "idle")
    /\ lock' = 0
    /\ op' = [op EXCEPT ![t] = "none"]
    /\ msg' = [msg EXCEPT ![t] = NoMsg]
    /\ ret' = [ret EXCEPT ![t] = "none"]
    /\ UNCHANGED queueVars

\* The steps of a call in progress, and those before its return.
InnerStep(t) ==
    TestAndSet(t) \/ Spin(t) \/ Check(t) \/ Copy(t) \/ Move(t) \/ Count(t)
Step(t) == InnerStep(t) \/ Unlock(t)

Next ==
    \E t \in Threads :
        \/ \E m \in Msgs : CallSend(t, m)
        \/ CallRecv(t)
        \/ Step(t)

Spec == Init /\ [][Next]_vars

\* A thread inside a call goes on executing: the threads run on cores of their
\* own, or are scheduled again.
FairSpec == Spec /\ \A t \in Threads : WF_vars(Step(t))

----------------------------------------------------------------------------
\* The spinlock keeps the queue to one thread at a time, and is held exactly
\* while a thread is inside.
MutualExclusion ==
    /\ \A t, u \in Threads : pc[t] \in Inside /\ pc[u] \in Inside => t = u
    /\ lock = 1 <=> \E t \in Threads : pc[t] \in Inside

\* The slot i places behind slot x.
Behind(x, i) == IF x + i >= DEPTH THEN x + i - DEPTH ELSE x + i

\* The messages counted so far: a receiver that moved tail but has not reached
\* count-- took one away already.
Moved(o)  == \E t \in Threads : pc[t] = "count" /\ op[t] = o
Held      == IF Moved("recv") THEN count - 1 ELSE count

\* The redundant fields agree: head is count slots behind tail, but for the
\* thread inside that has moved one of them and not yet adjusted count.
RingConsistent ==
    head = Behind(tail, IF Moved("send") THEN Held + 1 ELSE Held)

\* The queue the ring stands for: Held slots from tail on.
Ring(b, x, n) == [i \in 1 .. n |-> b[Behind(x, i - 1)]]
Contents      == Ring(buf, tail, Held)

Fifo == INSTANCE BoundedFifo WITH
    queue <- Contents,
    msg <- [t \in Threads |-> IF op[t] = "recv" /\ ret[t] = "none"
                              THEN NoMsg ELSE msg[t]]

\* The ring implements the bounded FIFO: no message is lost, duplicated or
\* reordered, a send is refused only by a full queue, a receive by an empty one.
ImplementsFifo == Fifo!Spec

\* Every path out of msg_send and msg_recv gives the lock back.
LockReleased == lock = 1 ~> lock = 0
=============================================================================
