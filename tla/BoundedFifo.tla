----------------------------- MODULE BoundedFifo -----------------------------
(****************************************************************************)
(* What msg.h promises: a queue of at most DEPTH messages that any number   *)
(* of threads send to and receive from.  A call takes effect in one step    *)
(* between its start and its return; it fails only if the queue is full (a  *)
(* send) or empty (a receive) at that step.                                 *)
(****************************************************************************)
EXTENDS Naturals, Sequences

CONSTANTS
    Threads, Msgs, NoMsg,
    DEPTH

VARIABLES
    queue,   \* the messages, oldest first
    op,      \* the call each thread is in: "none", "send" or "recv"
    msg,     \* its message: the argument of a send, the result of a receive
    ret      \* "none" until the call took effect, then "ok" or "fail"

vars == <<queue, op, msg, ret>>

Init ==
    /\ queue = <<>>
    /\ op = [t \in Threads |-> "none"]
    /\ msg = [t \in Threads |-> NoMsg]
    /\ ret = [t \in Threads |-> "none"]

Call(t, o, m) ==
    /\ op[t] = "none"
    /\ op' = [op EXCEPT ![t] = o]
    /\ msg' = [msg EXCEPT ![t] = m]
    /\ UNCHANGED <<queue, ret>>

Answer(t, r) ==
    /\ ret[t] = "none"
    /\ ret' = [ret EXCEPT ![t] = r]
    /\ UNCHANGED op

Send(t) ==
    /\ op[t] = "send"
    /\ \/ Len(queue) < DEPTH /\ queue' = Append(queue, msg[t]) /\ Answer(t, "ok")
       \/ Len(queue) = DEPTH /\ queue' = queue /\ Answer(t, "fail")
    /\ UNCHANGED msg

Recv(t) ==
    /\ op[t] = "recv"
    /\ \/ /\ queue # <<>>
          /\ msg' = [msg EXCEPT ![t] = Head(queue)]
          /\ queue' = Tail(queue)
          /\ Answer(t, "ok")
       \/ queue = <<>> /\ UNCHANGED <<queue, msg>> /\ Answer(t, "fail")

Return(t) ==
    /\ ret[t] # "none"
    /\ op' = [op EXCEPT ![t] = "none"]
    /\ msg' = [msg EXCEPT ![t] = NoMsg]
    /\ ret' = [ret EXCEPT ![t] = "none"]
    /\ UNCHANGED queue

Next ==
    \E t \in Threads :
        \/ \E m \in Msgs : Call(t, "send", m)
        \/ Call(t, "recv", NoMsg)
        \/ Send(t)
        \/ Recv(t)
        \/ Return(t)

Spec == Init /\ [][Next]_vars
=============================================================================
