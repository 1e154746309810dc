--------------------------- MODULE MsgQueueProofs ---------------------------
(****************************************************************************)
(* The message queue for any number of threads, any messages and any DEPTH: *)
(* the spinlock excludes, the ring stays consistent, and the ring           *)
(* implements the bounded FIFO.                                             *)
(****************************************************************************)
EXTENDS MsgQueue, TLAPS

\* A thread past the idle point is in a call, and its return is decided exactly
\* behind the step that decides it.
CallsWellFormed ==
    \A t \in Threads :
        /\ op[t] = "none" <=> pc[t] = "idle"
        /\ op[t] = "send" => msg[t] \in Msgs
        /\ op[t] = "recv" /\ pc[t] \in {"tas", "spin", "check"} => msg[t] = NoMsg
        /\ ret[t] # "none" <=> \/ pc[t] = "unlock"
                               \/ pc[t] = "count" /\ op[t] = "recv"
        /\ pc[t] = "count" => ret[t] # "fail"

\* What Check established stays true for the thread inside.
RoomInside ==
    \A t \in Threads : pc[t] \in {"copy", "move", "count"} =>
        /\ op[t] = "send" => count < DEPTH
        /\ op[t] = "recv" => count > 0

QueueInv ==
    TypeOK /\ CallsWellFormed /\ MutualExclusion /\ RoomInside /\ RingConsistent

\* The successor of an index, without the remainder.
LEMMA NextIndex ==
    ASSUME NEW i \in Indices
    PROVE  (i + 1) % DEPTH = Behind(i, 1) /\ Behind(i, 1) \in Indices
<1>1. CASE i + 1 = DEPTH
  <2>1. DEPTH % DEPTH = 0
    BY DepthAssumption
  <2> QED BY <1>1, <2>1, DepthAssumption DEF Indices, Behind
<1>2. CASE i + 1 < DEPTH
  <2>1. (i + 1) % DEPTH = i + 1
    BY <1>2, DepthAssumption DEF Indices
  <2> QED BY <1>2, <2>1, DepthAssumption DEF Indices, Behind
<1> QED BY <1>1, <1>2, DepthAssumption DEF Indices

\* Advancing twice is advancing by the sum, as far as the ring goes round once.
LEMMA BehindAdds ==
    ASSUME NEW i \in Indices, NEW n \in 0 .. DEPTH - 1
    PROVE  /\ Behind(i, n) \in Indices
           /\ Behind(Behind(i, n), 1) = Behind(i, n + 1)
           /\ Behind(Behind(i, 1), n) = Behind(i, n + 1)
  BY DepthAssumption DEF Indices, Behind

\* The thread inside is the only one, and holds the lock.
LEMMA Alone ==
    ASSUME MutualExclusion, NEW t \in Threads, pc[t] \in Inside
    PROVE  /\ lock = 1
           /\ \A u \in Threads : u # t => pc[u] \notin Inside
           /\ \A o : Moved(o) <=> pc[t] = "count" /\ op[t] = o
  BY DEF MutualExclusion, Moved, Inside

\* msg_init establishes the invariant.
LEMMA QueueInit == Init => QueueInv
  BY DepthAssumption
  DEF Init, QueueInv, TypeOK, CallsWellFormed, MutualExclusion, RoomInside,
      RingConsistent, Indices, Inside, Behind, Held, Moved

\* Entering a call touches neither lock nor ring.
LEMMA CallKeeps ==
    ASSUME QueueInv, NEW t \in Threads, NEW o \in {"send", "recv"},
           NEW m \in Msgs \cup {NoMsg}, Call(t, o, m),
           o = "send" => m \in Msgs, o = "recv" => m = NoMsg
    PROVE  QueueInv'
<1> USE DEF QueueInv, Call, Goto, queueVars
<1>1. TypeOK' /\ CallsWellFormed'
  BY DEF TypeOK, CallsWellFormed
<1>2. MutualExclusion' /\ RoomInside'
  BY DEF TypeOK, MutualExclusion, RoomInside, Inside
<1>3. \A p : Moved(p)' <=> Moved(p)
  BY DEF TypeOK, Moved
<1>4. RingConsistent'
  BY <1>3 DEF RingConsistent, Held, Behind
<1> QED BY <1>1, <1>2, <1>4

\* Taking the lock: the exchange that read 0 is the only one inside.
LEMMA TestAndSetKeeps ==
    ASSUME QueueInv, NEW t \in Threads, TestAndSet(t) PROVE QueueInv'
<1> USE DEF QueueInv, TestAndSet, Goto, queueVars
<1>1. TypeOK' /\ CallsWellFormed'
  BY DEF TypeOK, CallsWellFormed, Inside
<1>2. MutualExclusion'
  BY DEF TypeOK, MutualExclusion, Inside
<1>3. RoomInside'
  BY DEF TypeOK, RoomInside
<1>4. \A p : Moved(p)' <=> Moved(p)
  BY DEF TypeOK, Moved
<1>5. RingConsistent'
  BY <1>4 DEF RingConsistent, Held, Behind
<1> QED BY <1>1, <1>2, <1>3, <1>5

\* Waiting changes only where the thread stands.
LEMMA SpinKeeps ==
    ASSUME QueueInv, NEW t \in Threads, Spin(t) PROVE QueueInv'
<1> USE DEF QueueInv, Spin, Goto, queueVars
<1>1. TypeOK' /\ CallsWellFormed'
  BY DEF TypeOK, CallsWellFormed
<1>2. MutualExclusion' /\ RoomInside'
  BY DEF TypeOK, MutualExclusion, RoomInside, Inside
<1>3. \A p : Moved(p)' <=> Moved(p)
  BY DEF TypeOK, Moved
<1>4. RingConsistent'
  BY <1>3 DEF RingConsistent, Held, Behind
<1> QED BY <1>1, <1>2, <1>4

\* The bound test lets a call on only when there is room, or a message.
LEMMA CheckKeeps ==
    ASSUME QueueInv, NEW t \in Threads, Check(t) PROVE QueueInv'
<1> USE DEF QueueInv, Check, Goto, queueVars
<1>1. TypeOK' /\ CallsWellFormed'
  BY DEF TypeOK, CallsWellFormed, Inside
<1>2. MutualExclusion'
  BY DEF TypeOK, MutualExclusion, Inside
<1>3. RoomInside'
  BY DepthAssumption DEF TypeOK, RoomInside, Refused
<1>4. \A p : Moved(p)' <=> Moved(p)
  BY DEF TypeOK, Moved
<1>5. RingConsistent'
  BY <1>4 DEF RingConsistent, Held, Behind
<1> QED BY <1>1, <1>2, <1>3, <1>5

\* Copying changes a slot or a local, no index.
LEMMA CopyKeeps ==
    ASSUME QueueInv, NEW t \in Threads, Copy(t) PROVE QueueInv'
<1> USE DEF QueueInv, Copy, Goto
<1>1. TypeOK'
  BY DEF TypeOK, CallsWellFormed, Inside
<1>2. CallsWellFormed'
  BY DEF TypeOK, CallsWellFormed
<1>3. MutualExclusion' /\ RoomInside'
  BY DEF TypeOK, MutualExclusion, RoomInside, Inside
<1>4. \A p : Moved(p)' <=> Moved(p)
  BY DEF TypeOK, Moved
<1>5. RingConsistent'
  BY <1>4 DEF RingConsistent, Held, Behind
<1> QED BY <1>1, <1>2, <1>3, <1>5

\* Advancing an index puts it one ahead of count, for the thread inside.
LEMMA MoveKeeps ==
    ASSUME QueueInv, NEW t \in Threads, Move(t) PROVE QueueInv'
<1> USE DEF QueueInv, Move, Goto
<1>1. TypeOK'
  <2>1. head' \in Indices /\ tail' \in Indices
    BY NextIndex DEF TypeOK
  <2> QED BY <2>1 DEF TypeOK, Inside
<1>2. CallsWellFormed'
  BY DEF TypeOK, CallsWellFormed
<1>3. MutualExclusion' /\ RoomInside'
  BY DEF TypeOK, MutualExclusion, RoomInside, Inside
<1>4. /\ \A p : ~Moved(p)
      /\ \A p : Moved(p)' <=> op[t] = p
  BY Alone DEF TypeOK, Moved, Inside
<1>5. head = Behind(tail, count)
  BY <1>4 DEF RingConsistent, Held
<1>6. CASE op[t] = "send"
  <2>1. count \in 0 .. DEPTH - 1
    BY <1>6, DepthAssumption DEF TypeOK, RoomInside
  <2>2. head' = Behind(tail, count + 1)
    BY <1>5, <1>6, <2>1, NextIndex, BehindAdds DEF TypeOK
  <2> QED BY <1>1, <1>2, <1>3, <1>4, <1>6, <2>2
          DEF RingConsistent, Held, Behind
<1>7. CASE op[t] = "recv"
  <2>1. count - 1 \in 0 .. DEPTH - 1
    BY <1>7, DepthAssumption DEF TypeOK, RoomInside
  <2>2. tail' = Behind(tail, 1) /\ head' = head /\ count' = count
    BY <1>7, NextIndex DEF TypeOK
  <2>3. head = Behind(tail', count - 1)
    BY <1>5, <2>1, <2>2, BehindAdds DEF TypeOK
  <2>4. Held' = count - 1 /\ ~Moved("send")'
    BY <1>4, <1>7, <2>2 DEF Held
  <2>5. RingConsistent'
    BY <2>2, <2>3, <2>4 DEF RingConsistent, Behind
  <2> QED BY <1>1, <1>2, <1>3, <2>5
<1> QED BY <1>6, <1>7

\* Adjusting count brings it level with the indices again.
LEMMA CountKeeps ==
    ASSUME QueueInv, NEW t \in Threads, Count(t) PROVE QueueInv'
<1> USE DEF QueueInv, Count, Goto
<1>1. TypeOK'
  BY DepthAssumption DEF TypeOK, RoomInside, Inside
<1>2. CallsWellFormed'
  BY DEF TypeOK, CallsWellFormed
<1>3. MutualExclusion'
  BY DEF TypeOK, MutualExclusion, Inside
<1>4. RoomInside'
  BY Alone DEF TypeOK, RoomInside, Inside
<1>5. /\ \A p : Moved(p) <=> op[t] = p
      /\ \A p : ~Moved(p)'
  BY Alone DEF TypeOK, Moved, Inside
<1>6. head = Behind(tail, IF op[t] = "send" THEN count + 1 ELSE count - 1)
  BY <1>5 DEF RingConsistent, Held
<1>7. count' = IF op[t] = "send" THEN count + 1 ELSE count - 1
  OBVIOUS
<1>8. RingConsistent'
  BY <1>5, <1>6, <1>7 DEF RingConsistent, Held, Behind
<1> QED BY <1>1, <1>2, <1>3, <1>4, <1>8

\* Releasing the lock leaves no thread inside.
LEMMA UnlockKeeps ==
    ASSUME QueueInv, NEW t \in Threads, Unlock(t) PROVE QueueInv'
<1> USE DEF QueueInv, Unlock, Goto, queueVars
<1>1. TypeOK' /\ CallsWellFormed'
  BY DEF TypeOK, CallsWellFormed
<1>2. MutualExclusion'
  BY DEF TypeOK, MutualExclusion, Inside
<1>3. RoomInside'
  BY DEF TypeOK, RoomInside
<1>4. \A p : Moved(p)' <=> Moved(p)
  BY DEF TypeOK, Moved
<1>5. RingConsistent'
  BY <1>4 DEF RingConsistent, Held, Behind
<1> QED BY <1>1, <1>2, <1>3, <1>5

\* Every step of the queue keeps the invariant.
LEMMA QueueNext == QueueInv /\ [Next]_vars => QueueInv'
<1> SUFFICES ASSUME QueueInv, [Next]_vars PROVE QueueInv'
  OBVIOUS
<1>1. ASSUME NEW t \in Threads, NEW m \in Msgs, CallSend(t, m) PROVE QueueInv'
  BY <1>1, CallKeeps DEF CallSend
<1>2. ASSUME NEW t \in Threads, CallRecv(t) PROVE QueueInv'
  BY <1>2, CallKeeps DEF CallRecv
<1>3. ASSUME NEW t \in Threads, Step(t) PROVE QueueInv'
  BY <1>3, TestAndSetKeeps, SpinKeeps, CheckKeeps, CopyKeeps, MoveKeeps,
     CountKeeps, UnlockKeeps DEF Step, InnerStep
<1>4. CASE UNCHANGED vars
  BY <1>4 DEF vars, queueVars, callVars, QueueInv, TypeOK, CallsWellFormed,
              MutualExclusion, RoomInside, RingConsistent, Moved, Held, Behind
<1> QED BY <1>1, <1>2, <1>3, <1>4 DEF Next

\* The inductive invariant holds in every reachable state.
THEOREM QueueInvariant == Spec => []QueueInv
  BY QueueInit, QueueNext, PTL DEF Spec

\* The queue's state keeps its types; in particular count never passes DEPTH.
THEOREM QueueTypes == Spec => []TypeOK
<1>1. QueueInv => TypeOK
  BY DEF QueueInv
<1> QED BY <1>1, QueueInvariant, PTL

\* The spinlock admits one thread at a time, however many there are.
THEOREM LockExcludes == Spec => []MutualExclusion
<1>1. QueueInv => MutualExclusion
  BY DEF QueueInv
<1> QED BY <1>1, QueueInvariant, PTL

\* head, tail and count agree for every ring size.
THEOREM RingStaysConsistent == Spec => []RingConsistent
<1>1. QueueInv => RingConsistent
  BY DEF QueueInv
<1> QED BY <1>1, QueueInvariant, PTL

----------------------------------------------------------------------------
\* What the copy left for the steps behind it: a sender's message lies in the
\* slot that count is about to include, a receiver holds the oldest message.
CopyDone ==
    \A t \in Threads :
        /\ pc[t] \in {"move", "count"} /\ op[t] = "send" =>
               buf[Behind(tail, count)] = msg[t]
        /\ pc[t] = "move" /\ op[t] = "recv" => buf[tail] = msg[t]

LEMMA CopyDoneNext == QueueInv /\ CopyDone /\ [Next]_vars => CopyDone'
<1> SUFFICES ASSUME QueueInv, CopyDone, [Next]_vars PROVE CopyDone'
  OBVIOUS
<1> USE DEF QueueInv, TypeOK, CopyDone, Goto, Inside
<1>1. ASSUME NEW t \in Threads, NEW o, NEW m, Call(t, o, m) PROVE CopyDone'
  BY <1>1 DEF Call, queueVars
<1>2. ASSUME NEW t \in Threads, TestAndSet(t) \/ Spin(t) PROVE CopyDone'
  BY <1>2 DEF TestAndSet, Spin, queueVars
<1>3. ASSUME NEW t \in Threads, Check(t) PROVE CopyDone'
  BY <1>3 DEF Check, queueVars
<1>4. ASSUME NEW t \in Threads, Copy(t) PROVE CopyDone'
  <2>1. /\ \A u \in Threads : u # t => pc[u] \notin Inside
        /\ head = Behind(tail, count)
    BY <1>4, Alone DEF Copy, RingConsistent, Held
  <2> QED BY <1>4, <2>1 DEF Copy
<1>5. ASSUME NEW t \in Threads, Move(t) PROVE CopyDone'
  <2>1. \A u \in Threads : u # t => pc[u] \notin Inside
    BY <1>5, Alone DEF Move
  <2> QED BY <1>5, <2>1 DEF Move
<1>6. ASSUME NEW t \in Threads, Count(t) PROVE CopyDone'
  <2>1. \A u \in Threads : u # t => pc[u] \notin Inside
    BY <1>6, Alone DEF Count
  <2> QED BY <1>6, <2>1 DEF Count
<1>7. ASSUME NEW t \in Threads, Unlock(t) PROVE CopyDone'
  BY <1>7 DEF Unlock, queueVars
<1>8. CASE UNCHANGED vars
  BY <1>8 DEF vars, queueVars, callVars, Behind
<1> QED BY <1>1, <1>2, <1>3, <1>4, <1>5, <1>6, <1>7, <1>8
        DEF Next, Step, InnerStep, CallSend, CallRecv

\* What a slot of the ring can hold.
Slot == Msgs \cup {NoMsg}

\* n slots of the ring read as a sequence of n messages.
LEMMA RingIsSeq ==
    ASSUME NEW b \in [Indices -> Slot], NEW x \in Indices, NEW n \in 0 .. DEPTH
    PROVE  Ring(b, x, n) \in Seq(Slot) /\ Len(Ring(b, x, n)) = n
<1>1. \A i \in 1 .. n : Behind(x, i - 1) \in Indices
  BY DepthAssumption DEF Indices, Behind
<1>2. Ring(b, x, n) \in [1 .. n -> Slot]
  BY <1>1 DEF Ring
<1>3. n \in Nat
  BY DepthAssumption
<1> QED BY <1>2, <1>3

\* Reading the oldest slot takes the head of that sequence.
LEMMA RingTail ==
    ASSUME NEW b \in [Indices -> Slot], NEW x \in Indices, NEW n \in 1 .. DEPTH
    PROVE  /\ Ring(b, x, n) # <<>>
           /\ Head(Ring(b, x, n)) = b[x]
           /\ Tail(Ring(b, x, n)) = Ring(b, Behind(x, 1), n - 1)
<1> DEFINE r == Ring(b, x, n)
           q == Ring(b, Behind(x, 1), n - 1)
<1>1. r \in Seq(Slot) /\ Len(r) = n
  BY RingIsSeq
<1>2. r # <<>> /\ Head(r) = r[1]
  BY <1>1
<1>3. r[1] = b[x]
  BY DepthAssumption DEF Ring, Behind, Indices
<1>4. Behind(x, 1) \in Indices /\ n - 1 \in 0 .. DEPTH
  BY DepthAssumption DEF Behind, Indices
<1>5. q \in Seq(Slot) /\ Len(q) = n - 1
  BY <1>4, RingIsSeq
<1>6. Tail(r) \in Seq(Slot) /\ Len(Tail(r)) = n - 1
  BY <1>1, <1>2
<1>7. ASSUME NEW i \in 1 .. n - 1 PROVE Tail(r)[i] = q[i]
  <2>1. Tail(r)[i] = r[i + 1]
    BY <1>1, <1>2
  <2>2. r[i + 1] = b[Behind(x, i)]
    BY DepthAssumption DEF Ring
  <2>3. q[i] = b[Behind(Behind(x, 1), i - 1)]
    BY DEF Ring
  <2>4. Behind(Behind(x, 1), i - 1) = Behind(x, i)
    BY DepthAssumption DEF Behind, Indices
  <2> QED BY <2>1, <2>2, <2>3, <2>4
<1> HIDE DEF r, q
<1>8. Tail(r) = q
  BY <1>5, <1>6, <1>7
<1> QED BY <1>2, <1>3, <1>8 DEF r, q

\* Counting one more slot appends its message.
LEMMA RingAppend ==
    ASSUME NEW b \in [Indices -> Slot], NEW x \in Indices,
           NEW n \in 0 .. DEPTH - 1
    PROVE  Ring(b, x, n + 1) = Append(Ring(b, x, n), b[Behind(x, n)])
<1> DEFINE r == Ring(b, x, n)
           q == Ring(b, x, n + 1)
           a == Append(r, b[Behind(x, n)])
<1>1. r \in Seq(Slot) /\ Len(r) = n
  BY RingIsSeq, DepthAssumption
<1>2. q \in Seq(Slot) /\ Len(q) = n + 1
  BY RingIsSeq, DepthAssumption
<1>3. Behind(x, n) \in Indices
  BY DepthAssumption DEF Behind, Indices
<1>4. a \in Seq(Slot) /\ Len(a) = n + 1
  BY <1>1, <1>3
<1>5. ASSUME NEW i \in 1 .. n + 1 PROVE a[i] = q[i]
  <2>1. CASE i = n + 1
    BY <2>1, <1>1 DEF Ring
  <2>2. CASE i \in 1 .. n
    <3>1. a[i] = r[i]
      BY <2>2, <1>1
    <3> QED BY <2>2, <3>1 DEF Ring
  <2>3. i = n + 1 \/ i \in 1 .. n
    BY DepthAssumption
  <2> QED BY <2>1, <2>2, <2>3
<1> HIDE DEF a, q
<1>6. a = q
  BY <1>2, <1>4, <1>5
<1> QED BY <1>6 DEF a, q

\* Writing the slot behind the counted ones leaves the sequence as it is.
LEMMA RingWrite ==
    ASSUME NEW b \in [Indices -> Slot], NEW x \in Indices,
           NEW n \in 0 .. DEPTH - 1, NEW m
    PROVE  Ring([b EXCEPT ![Behind(x, n)] = m], x, n) = Ring(b, x, n)
<1>1. \A i \in 1 .. n : Behind(x, i - 1) # Behind(x, n)
                       /\ Behind(x, i - 1) \in Indices
  BY DepthAssumption DEF Behind, Indices
<1> QED BY <1>1 DEF Ring

----------------------------------------------------------------------------
\* The message the abstract call shows: a receive's once tail has moved.
Shown == [t \in Threads |-> IF op[t] = "recv" /\ ret[t] = "none"
                            THEN NoMsg ELSE msg[t]]

RefineInv == QueueInv /\ CopyDone

LEMMA HeldBounds ==
    ASSUME QueueInv
    PROVE  Held \in 0 .. DEPTH
<1>1. CASE Moved("recv")
  <2>1. count > 0
    BY <1>1 DEF Moved, QueueInv, RoomInside
  <2> QED BY <1>1, <2>1, DepthAssumption DEF Held, QueueInv, TypeOK
<1>2. CASE ~Moved("recv")
  BY <1>2 DEF Held, QueueInv, TypeOK
<1> QED BY <1>1, <1>2

\* A step that leaves the ring's contents, the shown messages, the calls and
\* their answers alone is a stutter of the bounded FIFO.
LEMMA RefineInit == Init => Fifo!Init
<1> SUFFICES ASSUME Init PROVE Fifo!Init
  OBVIOUS
<1>1. Held = 0
  BY DEF Init, Held, Moved
<1>2. Contents = <<>>
  BY <1>1 DEF Contents, Ring
<1>3. Shown = [t \in Threads |-> NoMsg]
  BY DEF Init, Shown
<1> QED BY <1>2, <1>3 DEF Init, Fifo!Init, Shown

LEMMA RefineCall ==
    ASSUME RefineInv, NEW t \in Threads, NEW o \in {"send", "recv"},
           NEW m \in Msgs \cup {NoMsg}, o = "recv" => m = NoMsg, Call(t, o, m)
    PROVE  Fifo!Call(t, o, m)
<1> USE DEF RefineInv, QueueInv, TypeOK, Call, Goto, queueVars
<1>1. \A p : Moved(p)' <=> Moved(p)
  BY DEF Moved
<1>2. Contents' = Contents
  BY <1>1 DEF Contents, Ring, Held, Behind
<1>3. op[t] = "none" /\ ret[t] = "none"
  BY DEF CallsWellFormed
<1>4. Shown' = [Shown EXCEPT ![t] = m]
  BY <1>3 DEF Shown
<1> QED BY <1>2, <1>3, <1>4 DEF Fifo!Call, Shown

\* Taking the lock and waiting for it are invisible.
LEMMA RefineWait ==
    ASSUME RefineInv, NEW t \in Threads, TestAndSet(t) \/ Spin(t)
    PROVE  UNCHANGED Fifo!vars
<1> USE DEF RefineInv, QueueInv, TypeOK, TestAndSet, Spin, Goto, queueVars
<1>1. \A p : Moved(p)' <=> Moved(p)
  BY DEF Moved
<1>2. Contents' = Contents
  BY <1>1 DEF Contents, Ring, Held, Behind
<1> QED BY <1>2 DEF Fifo!vars, Shown

\* The bound test refuses exactly when the abstract queue is full or empty.
LEMMA RefineCheck ==
    ASSUME RefineInv, NEW t \in Threads, Check(t)
    PROVE  Fifo!Send(t) \/ Fifo!Recv(t) \/ UNCHANGED Fifo!vars
<1> USE DEF RefineInv, QueueInv, TypeOK, Check, Goto, queueVars
<1>1. \A p : ~Moved(p) /\ ~Moved(p)'
  BY Alone DEF Moved, Inside
<1>2. Held = count
  BY <1>1 DEF Held
<1>3. Contents' = Contents
  BY <1>1 DEF Contents, Ring, Held, Behind
<1>4. Contents \in Seq(Slot) /\ Len(Contents) = count
  BY <1>2, RingIsSeq DEF Contents, Slot
<1>5. ret[t] = "none" /\ op[t] \in {"send", "recv"}
  BY DEF CallsWellFormed
<1>6. CASE ~Refused(t)
  BY <1>3, <1>6 DEF Fifo!vars, Shown
<1>7. CASE op[t] = "send" /\ Refused(t)
  <2>1. Len(Contents) = DEPTH
    BY <1>4, <1>7, DepthAssumption DEF Refused
  <2>2. Shown' = Shown
    BY <1>7 DEF Shown
  <2> QED BY <1>3, <1>5, <1>7, <2>1, <2>2 DEF Fifo!Send, Fifo!Answer, Shown
<1>8. CASE op[t] = "recv" /\ Refused(t)
  <2>1. Contents = <<>>
    BY <1>4, <1>8 DEF Refused
  <2>2. msg[t] = NoMsg
    BY <1>8 DEF CallsWellFormed
  <2>3. Shown' = Shown
    BY <1>8, <2>2 DEF Shown
  <2> QED BY <1>3, <1>5, <1>8, <2>1, <2>3 DEF Fifo!Recv, Fifo!Answer, Shown
<1> QED BY <1>5, <1>6, <1>7, <1>8

\* Copying is invisible: a sender fills a slot not counted yet.
LEMMA RefineCopy ==
    ASSUME RefineInv, NEW t \in Threads, Copy(t)
    PROVE  UNCHANGED Fifo!vars
<1> USE DEF RefineInv, QueueInv, TypeOK, Copy, Goto
<1>1. \A p : ~Moved(p) /\ ~Moved(p)'
  BY Alone DEF Moved, Inside
<1>2. Held = count /\ Held' = count
  BY <1>1 DEF Held
<1>3. ret[t] = "none" /\ ret' = ret
  BY DEF CallsWellFormed
<1>4. CASE op[t] = "send"
  <2>1. head = Behind(tail, count)
    BY <1>1, <1>2 DEF RingConsistent
  <2>2. count \in 0 .. DEPTH - 1
    BY <1>4, DepthAssumption DEF RoomInside
  <2>3. buf' = [buf EXCEPT ![Behind(tail, count)] = msg[t]]
    BY <1>4, <2>1
  <2>4. Ring(buf', tail, count) = Ring(buf, tail, count)
    <3>1. buf \in [Indices -> Slot] /\ tail \in Indices
      BY DEF Slot
    <3> HIDE DEF RefineInv, QueueInv, TypeOK, Copy, Goto
    <3>2. Ring([buf EXCEPT ![Behind(tail, count)] = msg[t]], tail, count)
            = Ring(buf, tail, count)
      BY <3>1, <2>2, RingWrite, Zenon
    <3> QED BY <2>3, <3>2, Zenon
  <2>5. Contents' = Contents
    BY <1>2, <2>4 DEF Contents, Ring, Behind
  <2>6. Shown' = Shown
    BY <1>4 DEF Shown
  <2> QED BY <2>5, <2>6 DEF Fifo!vars, Shown
<1>5. CASE op[t] = "recv"
  <2>1. Contents' = Contents
    BY <1>2, <1>5 DEF Contents, Ring, Behind
  <2>2. Shown' = Shown
    BY <1>3, <1>5 DEF Shown
  <2> QED BY <1>3, <1>5, <2>1, <2>2 DEF Fifo!vars, Shown
<1> QED BY <1>4, <1>5

\* Advancing tail is where a receive takes effect; advancing head is invisible.
LEMMA RefineMove ==
    ASSUME RefineInv, NEW t \in Threads, Move(t)
    PROVE  Fifo!Recv(t) \/ UNCHANGED Fifo!vars
<1> USE DEF RefineInv, QueueInv, TypeOK, Move, Goto
<1>1. /\ \A p : ~Moved(p)
      /\ \A p : Moved(p)' <=> op[t] = p
  BY Alone DEF Moved, Inside
<1>2. Contents = Ring(buf, tail, count)
  BY <1>1 DEF Contents, Held
<1>3. CASE op[t] = "send"
  <2>1. Contents' = Contents
    BY <1>1, <1>2, <1>3 DEF Contents, Ring, Held, Behind
  <2>2. Shown' = Shown
    BY <1>3 DEF Shown
  <2> QED BY <1>3, <2>1, <2>2 DEF Fifo!vars, Shown
<1>4. CASE op[t] = "recv"
  <2>1. count \in 1 .. DEPTH /\ ret[t] = "none" /\ buf[tail] = msg[t]
    BY <1>4, DepthAssumption DEF RoomInside, CallsWellFormed, CopyDone
  <2>2. tail' = Behind(tail, 1) /\ Held' = count - 1 /\ buf' = buf
    BY <1>1, <1>4, NextIndex DEF Held
  <2>3. Contents' = Ring(buf, Behind(tail, 1), count - 1)
    BY <2>2 DEF Contents, Ring, Behind
  <2>4. Contents # <<>> /\ Head(Contents) = msg[t] /\ Contents' = Tail(Contents)
    <3>1. buf \in [Indices -> Slot] /\ tail \in Indices
      BY DEF Slot
    <3> QED BY <3>1, <1>2, <2>1, <2>3, RingTail
  <2>5. Shown' = [Shown EXCEPT ![t] = msg[t]]
    BY <1>4 DEF Shown
  <2> QED BY <1>4, <2>1, <2>4, <2>5 DEF Fifo!Recv, Fifo!Answer, Shown
<1> QED BY <1>3, <1>4

\* Incrementing count is where a send takes effect; decrementing is invisible.
LEMMA RefineCount ==
    ASSUME RefineInv, NEW t \in Threads, Count(t)
    PROVE  Fifo!Send(t) \/ UNCHANGED Fifo!vars
<1> USE DEF RefineInv, QueueInv, TypeOK, Count, Goto
<1>1. /\ \A p : Moved(p) <=> op[t] = p
      /\ \A p : ~Moved(p)'
  BY Alone DEF Moved, Inside
<1>2. Held' = count'
  BY <1>1 DEF Held
<1>3. CASE op[t] = "send"
  <2>1. count \in 0 .. DEPTH - 1 /\ ret[t] = "none"
    BY <1>3, DepthAssumption DEF RoomInside, CallsWellFormed
  <2>2. buf[Behind(tail, count)] = msg[t]
    BY <1>3 DEF CopyDone
  <2>3. Contents = Ring(buf, tail, count) /\ Contents' = Ring(buf, tail, count + 1)
    BY <1>1, <1>2, <1>3 DEF Contents, Held, Ring, Behind
  <2>4. Contents' = Append(Contents, msg[t])
    <3>1. buf \in [Indices -> Slot] /\ tail \in Indices
      BY DEF Slot
    <3> HIDE DEF RefineInv, Count
    <3> QED BY <3>1, <2>1, <2>2, <2>3, RingAppend
  <2>5. Len(Contents) < DEPTH
    <3>1. buf \in [Indices -> Slot] /\ tail \in Indices /\ count \in 0 .. DEPTH
      BY DEF Slot
    <3>2. Len(Contents) = count
      BY <3>1, <2>3, RingIsSeq
    <3> QED BY <3>2, <2>1, DepthAssumption
  <2>6. Shown' = Shown /\ Shown[t] = msg[t]
    BY <1>3 DEF Shown
  <2> QED BY <1>3, <2>1, <2>4, <2>5, <2>6 DEF Fifo!Send, Fifo!Answer, Shown
<1>4. CASE op[t] = "recv"
  <2>1. Held = count - 1 /\ Held' = count - 1
    BY <1>1, <1>2, <1>4 DEF Held
  <2>2. Contents' = Contents
    BY <2>1 DEF Contents, Ring, Behind
  <2>3. ret[t] # "none"
    BY <1>4 DEF CallsWellFormed
  <2>4. Shown' = Shown
    BY <2>3 DEF Shown
  <2>5. ret' = ret
    <3>1. ret[t] = "ok"
      BY <1>4 DEF CallsWellFormed
    <3> QED BY <3>1
  <2> QED BY <2>2, <2>4, <2>5 DEF Fifo!vars, Shown
<1> QED BY <1>3, <1>4 DEF CallsWellFormed

\* The unlock is the return.
LEMMA RefineUnlock ==
    ASSUME RefineInv, NEW t \in Threads, Unlock(t)
    PROVE  Fifo!Return(t)
<1> USE DEF RefineInv, QueueInv, TypeOK, Unlock, Goto, queueVars
<1>1. \A p : Moved(p)' <=> Moved(p)
  BY DEF Moved
<1>2. Contents' = Contents
  BY <1>1 DEF Contents, Ring, Held, Behind
<1>3. ret[t] # "none"
  BY DEF CallsWellFormed
<1>4. Shown' = [Shown EXCEPT ![t] = NoMsg]
  BY DEF Shown
<1> QED BY <1>2, <1>3, <1>4 DEF Fifo!Return, Shown

\* Every step of the ring is a step or a stutter of the bounded FIFO.
LEMMA RefineNext == RefineInv /\ [Next]_vars => [Fifo!Next]_(Fifo!vars)
<1> SUFFICES ASSUME RefineInv, [Next]_vars PROVE [Fifo!Next]_(Fifo!vars)
  OBVIOUS
<1>1. ASSUME NEW t \in Threads, NEW m \in Msgs, CallSend(t, m)
      PROVE  Fifo!Next
  BY <1>1, RefineCall DEF CallSend, Fifo!Next
<1>2. ASSUME NEW t \in Threads, CallRecv(t) PROVE Fifo!Next
  BY <1>2, RefineCall DEF CallRecv, Fifo!Next
<1>3. ASSUME NEW t \in Threads, Step(t) PROVE [Fifo!Next]_(Fifo!vars)
  BY <1>3, RefineWait, RefineCheck, RefineCopy, RefineMove, RefineCount,
     RefineUnlock DEF Step, InnerStep, Fifo!Next
<1>4. CASE UNCHANGED vars
  BY <1>4 DEF vars, queueVars, callVars, Contents, Ring, Held, Moved, Behind,
              Fifo!vars
<1> QED BY <1>1, <1>2, <1>3, <1>4 DEF Next

\* The ring buffer under the spinlock implements the bounded FIFO, for every
\* number of threads, set of messages and DEPTH.
THEOREM RingImplementsFifo == Spec => ImplementsFifo
<1>1. Init => CopyDone
  BY DEF Init, CopyDone
<1>2. Init => RefineInv
  BY <1>1, QueueInit DEF RefineInv
<1>3. RefineInv /\ [Next]_vars => RefineInv'
  BY QueueNext, CopyDoneNext DEF RefineInv
<1>4. Spec => []RefineInv
  BY <1>2, <1>3, PTL DEF Spec
<1> QED BY <1>4, RefineInit, RefineNext, PTL DEF Spec, ImplementsFifo, Fifo!Spec
=============================================================================
