--------------------------- MODULE CanNodeProofs ---------------------------
(****************************************************************************)
(* Theorems about CanNode: whatever the sizes of the queue and of the       *)
(* controller's FIFO, however many frames arrive and however often the      *)
(* handler runs, the copies it makes come out of can_rx_q in order, none is *)
(* lost but on a full queue, and none is repeated, although the handler     *)
(* interrupts msg_recv at any access.                                       *)
(*                                                                          *)
(* What the accesses of msg.c do to the queue is not looked at again: the   *)
(* refinement of BoundedFifo proved in MsgQueueProofs says what each step   *)
(* means for the queue's contents (InnerEffect, CallEffect, ReturnEffect),  *)
(* and the invariant CanInv speaks about the contents only.                 *)
(****************************************************************************)
EXTENDS CanNode, FiniteSetTheorems, TLAPS
P == INSTANCE MsgQueueProofs
       WITH Threads <- Contexts, Msgs <- Copies, NoMsg <- NoCopy

\* MsgQueueProofs' assumptions hold of the instance: the constants of can_rx_q.
LEMMA QueueAssumptions == P!DepthAssumption /\ P!NoMsgAssumption
  BY CanAssumption DEF P!DepthAssumption, P!NoMsgAssumption, Copies, NoCopy

\* The two instances of the queue are one.
LEMMA SameQueue ==
    ASSUME NEW t \in Contexts
    PROVE  /\ \A m : Q!CallSend(t, m) <=> P!CallSend(t, m)
           /\ Q!CallRecv(t) <=> P!CallRecv(t)
           /\ Q!InnerStep(t) <=> P!InnerStep(t)
           /\ Q!Unlock(t) <=> P!Unlock(t)
           /\ Q!Init <=> P!Init
           /\ Q!TypeOK <=> P!TypeOK
           /\ Q!Contents = P!Contents
  BY DEF Q!CallSend, P!CallSend, Q!CallRecv, P!CallRecv, Q!Call, P!Call,
         Q!InnerStep, P!InnerStep, Q!Unlock, P!Unlock, Q!Init, P!Init,
         Q!TypeOK, P!TypeOK, Q!Contents, P!Contents, Q!Goto, P!Goto,
         Q!TestAndSet, P!TestAndSet, Q!Spin, P!Spin, Q!Check, P!Check,
         Q!Copy, P!Copy, Q!Move, P!Move, Q!Count, P!Count,
         Q!Refused, P!Refused, Q!queueVars, P!queueVars, Q!Indices, P!Indices,
         Q!Inside, P!Inside, Q!Ring, P!Ring, Q!Held, P!Held, Q!Moved, P!Moved,
         Q!Behind, P!Behind

\* What can_rx_q holds, and the copy each context's call is seen to carry, as the
\* abstract queue has them.
Queue == P!Contents
Shown == P!Shown

\* A step inside msg_send or msg_recv is a step of the abstract queue or a stutter.
LEMMA QueueInner ==
    ASSUME P!RefineInv, NEW t \in Contexts, Q!InnerStep(t)
    PROVE  /\ P!RefineInv'
           /\ P!Fifo!Send(t) \/ P!Fifo!Recv(t) \/ UNCHANGED P!Fifo!vars
<1>1. P!InnerStep(t)
  BY SameQueue
<1>2. P!Next
  BY <1>1 DEF P!Next, P!Step
<1>3. P!RefineInv'
  BY <1>2, P!QueueNext, P!CopyDoneNext, QueueAssumptions DEF P!RefineInv
<1>4. P!Fifo!Send(t) \/ P!Fifo!Recv(t) \/ UNCHANGED P!Fifo!vars
  BY <1>1, QueueAssumptions, P!RefineWait, P!RefineCheck, P!RefineCopy, P!RefineMove,
     P!RefineCount DEF P!InnerStep
<1> QED BY <1>3, <1>4

\* What a cell of can_rx_q may hold.
Slot == Copies \cup {NoCopy}

\* The contents of can_rx_q are a sequence of at most DEPTH copies.
LEMMA QueueType ==
    ASSUME P!RefineInv
    PROVE  Queue \in Seq(Slot) /\ Len(Queue) <= DEPTH
<1>1. P!Held \in 0 .. DEPTH
  BY P!HeldBounds, QueueAssumptions DEF P!RefineInv
<1>2. buf \in [P!Indices -> P!Slot] /\ tail \in P!Indices
  BY DEF P!RefineInv, P!QueueInv, P!TypeOK, P!Slot
<1>3. Queue \in Seq(P!Slot) /\ Len(Queue) = P!Held
  <2>1. Queue = P!Ring(buf, tail, P!Held)
    BY DEF Queue, P!Contents
  <2> QED BY <1>1, <1>2, <2>1, P!RingIsSeq, QueueAssumptions
<1> QED BY <1>1, <1>3, CanAssumption DEF P!Slot, Slot

\* What a step inside msg_send or msg_recv can do: nothing that shows, a send that
\* takes effect or is refused on a full queue, a receive that takes the first copy
\* or finds none.
LEMMA InnerEffect ==
    ASSUME P!RefineInv, NEW t \in Contexts, Q!InnerStep(t)
    PROVE  /\ P!RefineInv'
           /\ op' = op /\ op[t] # "none"
           /\ \/ Queue' = Queue /\ Shown' = Shown /\ ret' = ret
              \/ /\ op[t] = "send" /\ ret[t] = "none" /\ Shown' = Shown
                 /\ \/ /\ Queue' = Append(Queue, Shown[t])
                       /\ ret' = [ret EXCEPT ![t] = "ok"]
                    \/ /\ Len(Queue) = DEPTH /\ Queue' = Queue
                       /\ ret' = [ret EXCEPT ![t] = "fail"]
              \/ /\ op[t] = "recv" /\ ret[t] = "none"
                 /\ \/ /\ Queue # <<>> /\ Queue' = Tail(Queue)
                       /\ Shown' = [Shown EXCEPT ![t] = Head(Queue)]
                       /\ ret' = [ret EXCEPT ![t] = "ok"]
                    \/ /\ Queue' = Queue /\ Shown' = Shown
                       /\ ret' = [ret EXCEPT ![t] = "fail"]
<1>1. P!RefineInv' /\ (P!Fifo!Send(t) \/ P!Fifo!Recv(t) \/ UNCHANGED P!Fifo!vars)
  BY QueueInner
<1>2. op[t] # "none"
  BY SameQueue
  DEF P!RefineInv, P!QueueInv, P!CallsWellFormed, P!TypeOK, P!InnerStep, P!Goto, P!TestAndSet,
      P!Spin, P!Check, P!Copy, P!Move, P!Count
<1> QED BY <1>1, <1>2 DEF P!Fifo!Send, P!Fifo!Recv, P!Fifo!vars, P!Fifo!Answer, Queue,
                             Shown, P!Shown

\* Calling msg_send or msg_recv leaves the queue alone.
LEMMA CallEffect ==
    ASSUME P!RefineInv, NEW t \in Contexts,
           NEW m \in Slot, NEW o \in {"send", "recv"},
           \/ o = "send" /\ m \in Copies /\ Q!CallSend(t, m)
           \/ o = "recv" /\ m = NoCopy /\ Q!CallRecv(t)
    PROVE  /\ P!RefineInv'
           /\ op[t] = "none" /\ ret[t] = "none"
           /\ op' = [op EXCEPT ![t] = o] /\ Shown' = [Shown EXCEPT ![t] = m]
           /\ Queue' = Queue /\ ret' = ret
<1>1. P!Call(t, o, m) /\ P!Next
  BY SameQueue DEF P!CallSend, P!CallRecv, P!Next
<1>2. P!RefineInv'
  BY <1>1, P!QueueNext, P!CopyDoneNext, QueueAssumptions DEF P!RefineInv
<1>3. P!Fifo!Call(t, o, m)
  BY <1>1, P!RefineCall, QueueAssumptions DEF Slot
<1>4. op[t] = "none" /\ ret[t] = "none"
  BY <1>1 DEF P!RefineInv, P!QueueInv, P!CallsWellFormed, P!TypeOK, P!Call, P!Goto
<1> QED BY <1>2, <1>3, <1>4 DEF P!Fifo!Call, Queue, Shown, P!Shown

\* Returning from msg_send or msg_recv leaves the queue alone.
LEMMA ReturnEffect ==
    ASSUME P!RefineInv, NEW t \in Contexts, Q!Unlock(t)
    PROVE  /\ P!RefineInv'
           /\ ret[t] # "none" /\ op[t] # "none" /\ Shown[t] = msg[t]
           /\ op' = [op EXCEPT ![t] = "none"] /\ Shown' = [Shown EXCEPT ![t] = NoCopy]
           /\ ret' = [ret EXCEPT ![t] = "none"]
           /\ Queue' = Queue
<1>1. P!Unlock(t) /\ P!Next
  BY SameQueue DEF P!Next, P!Step
<1>2. P!RefineInv'
  BY <1>1, P!QueueNext, P!CopyDoneNext, QueueAssumptions DEF P!RefineInv
<1>3. P!Fifo!Return(t)
  BY <1>1, P!RefineUnlock, QueueAssumptions
<1>4. op[t] # "none" /\ ret[t] # "none"
  BY <1>1 DEF P!RefineInv, P!QueueInv, P!CallsWellFormed, P!TypeOK, P!Unlock, P!Goto
<1> QED BY <1>2, <1>3, <1>4 DEF P!Fifo!Return, Queue, Shown, P!Shown

----------------------------------------------------------------------------
\* Copies are numbered as they are made: increasing is in order.
Increasing(s) == \A i, j \in 1 .. Len(s) : i < j => s[i] < s[j]

\* A newer copy at the end keeps the order.
LEMMA AppendKeeps ==
    ASSUME NEW s \in Seq(Nat), NEW x \in Nat
    PROVE  /\ ToSet(Append(s, x)) = ToSet(s) \cup {x}
           /\ Increasing(s) /\ (\A y \in ToSet(s) : y < x) => Increasing(Append(s, x))
           /\ s # <<>> => Head(Append(s, x)) = Head(s)
<1> DEFINE a == Append(s, x)
<1>1. a \in Seq(Nat) /\ Len(a) = Len(s) + 1 /\ a[Len(s) + 1] = x
      /\ \A i \in 1 .. Len(s) : a[i] = s[i]
  OBVIOUS
<1>2. DOMAIN s = 1 .. Len(s) /\ DOMAIN a = 1 .. Len(s) + 1 /\ Len(s) \in Nat
  BY <1>1
<1> HIDE DEF a
<1>3. ToSet(a) = ToSet(s) \cup {x}
  BY <1>1, <1>2, SMTT(30) DEF ToSet
<1>4. ASSUME Increasing(s), \A y \in ToSet(s) : y < x
      PROVE  Increasing(a)
  <2>1. ASSUME NEW i \in 1 .. Len(a), NEW j \in 1 .. Len(a), i < j
        PROVE  a[i] < a[j]
    <3>1. i \in 1 .. Len(s) /\ a[i] = s[i]
      BY <1>1, <1>2, <2>1
    <3>2. CASE j = Len(s) + 1
      <4>1. s[i] \in ToSet(s)
        BY <1>2, <3>1 DEF ToSet
      <4> QED BY <1>1, <1>4, <3>1, <3>2, <4>1
    <3>3. CASE j \in 1 .. Len(s)
      BY <1>1, <1>4, <2>1, <3>1, <3>3 DEF Increasing
    <3> QED BY <1>1, <1>2, <2>1, <3>2, <3>3, SMTT(30)
  <2> QED BY <2>1 DEF Increasing
<1>5. s # <<>> => Head(a) = Head(s)
  BY <1>1, <1>2
<1> QED BY <1>3, <1>4, <1>5 DEF a

\* Taking the first copy takes the oldest, and it is nowhere else.
LEMMA TailKeeps ==
    ASSUME NEW s \in Seq(Nat), s # <<>>, Increasing(s)
    PROVE  /\ Tail(s) \in Seq(Nat) /\ Increasing(Tail(s))
           /\ Head(s) \in ToSet(s)
           /\ ToSet(Tail(s)) = ToSet(s) \ {Head(s)}
           /\ \A x \in ToSet(Tail(s)) : Head(s) < x
<1> DEFINE t == Tail(s)
<1>1. /\ t \in Seq(Nat) /\ Len(t) = Len(s) - 1 /\ Len(s) \in Nat \ {0}
      /\ \A i \in 1 .. Len(s) - 1 : t[i] = s[i + 1]
      /\ Head(s) = s[1]
  OBVIOUS
<1>2. DOMAIN s = 1 .. Len(s) /\ DOMAIN t = 1 .. Len(s) - 1
  BY <1>1
<1> HIDE DEF t
<1>a. \A i \in 1 .. Len(s) : s[i] \in Nat
  BY <1>1
<1>3. Increasing(t)
  <2>1. ASSUME NEW i \in 1 .. Len(t), NEW j \in 1 .. Len(t), i < j
        PROVE  t[i] < t[j]
    <3>1. /\ i + 1 \in 1 .. Len(s) /\ j + 1 \in 1 .. Len(s) /\ i + 1 < j + 1
          /\ t[i] = s[i + 1] /\ t[j] = s[j + 1]
      BY <1>1, <2>1
    <3> QED BY <3>1 DEF Increasing
  <2> QED BY <2>1 DEF Increasing
<1>4. Head(s) \in ToSet(s)
  BY <1>1, <1>2 DEF ToSet
<1>5. ASSUME NEW i \in 2 .. Len(s)
      PROVE  i - 1 \in 1 .. Len(t) /\ s[i] = t[i - 1] /\ s[1] < s[i]
  <2>1. 1 \in 1 .. Len(s) /\ i \in 1 .. Len(s) /\ 1 < i /\ i - 1 \in 1 .. Len(s) - 1
    BY <1>1
  <2>2. s[1] < s[i]
    BY <2>1 DEF Increasing
  <2> QED BY <1>1, <2>1, <2>2
<1>6. ASSUME NEW x PROVE x \in ToSet(t) <=> \E i \in 2 .. Len(s) : x = s[i]
  <2>1. ASSUME NEW i \in 1 .. Len(t) PROVE i + 1 \in 2 .. Len(s) /\ t[i] = s[i + 1]
    BY <1>1
  <2>2. ASSUME NEW i \in 1 .. Len(t), x = t[i] PROVE \E k \in 2 .. Len(s) : x = s[k]
    BY <2>1, <2>2
  <2>3. ASSUME NEW k \in 2 .. Len(s), x = s[k] PROVE \E i \in 1 .. Len(t) : x = t[i]
    BY <1>5, <2>3
  <2>4. x \in ToSet(t) <=> \E i \in 1 .. Len(t) : x = t[i]
    BY <1>1, <1>2 DEF ToSet
  <2> QED BY <2>2, <2>3, <2>4
<1>7. ASSUME NEW x PROVE x \in ToSet(s) <=> x = s[1] \/ \E i \in 2 .. Len(s) : x = s[i]
  <2>1. 1 .. Len(s) = {1} \cup 2 .. Len(s)
    BY <1>1
  <2> QED BY <2>1, <1>2 DEF ToSet
<1>8. ASSUME NEW x \in ToSet(t) PROVE Head(s) < x
  BY <1>1, <1>5, <1>6
<1>9. ToSet(t) = ToSet(s) \ {Head(s)}
  <2>1. \A x : x \in ToSet(t) => x # Head(s)
    BY <1>1, <1>5, <1>6, <1>a
  <2> QED BY <1>1, <1>6, <1>7, <2>1
<1> QED BY <1>1, <1>3, <1>4, <1>8, <1>9 DEF t

----------------------------------------------------------------------------
\* Where the copies 1 .. n are: q queued, t and i in the hands of the task and of
\* the handler, c consumed, r refused.
Places(q, t, i, c, r, n) ==
    /\ q \cup t \cup i \cup c \cup r = 1 .. n
    /\ \A x \in c, y \in t \cup q : x < y
    /\ \A x \in t, y \in q : x < y
    /\ \A x \in c \cup t \cup q, y \in i : x < y
    /\ r \cap (c \cup t \cup q \cup i) = {}

\* The handler makes a copy.
LEMMA PlacesMake ==
    ASSUME NEW q, NEW t, NEW c, NEW r, NEW n \in Nat, Places(q, t, {}, c, r, n)
    PROVE  Places(q, t, {n + 1}, c, r, n + 1)
<1>1. 1 .. n + 1 = (1 .. n) \cup {n + 1}
  OBVIOUS
<1>2. \A x \in q \cup t \cup c \cup r : x \in 1 .. n /\ x < n + 1 /\ x # n + 1
  BY DEF Places
<1> QED BY <1>1, <1>2 DEF Places

\* The queue takes the copy out of the handler's hands.
LEMMA PlacesSend ==
    ASSUME NEW q, NEW t, NEW c, NEW r, NEW n \in Nat, NEW x, Places(q, t, {x}, c, r, n)
    PROVE  Places(q \cup {x}, t, {}, c, r, n)
  BY DEF Places

\* The task takes the oldest copy of the queue.
LEMMA PlacesTake ==
    ASSUME NEW q, NEW i, NEW c, NEW r, NEW n \in Nat,
           Places(q, {}, i, c, r, n),
           NEW x \in q, \A y \in q \ {x} : x < y
    PROVE  Places(q \ {x}, {x}, i, c, r, n)
  BY DEF Places

\* The task has consumed what it took; the handler drops what was refused.
LEMMA PlacesReturn ==
    ASSUME NEW q, NEW t, NEW i, NEW c, NEW r, NEW n \in Nat,
           Places(q, t, i, c, r, n)
    PROVE  /\ Places(q, {}, i, c \cup t, r, n)
           /\ Places(q, t, {}, c, r \cup i, n)
<1>1. Places(q, {}, i, c \cup t, r, n)
  BY DEF Places
<1>2. ASSUME NEW x \in i PROVE x \notin c \cup t \cup q
  <2>1. x \in 1 .. n
    BY DEF Places
  <2> QED BY <2>1 DEF Places
<1>3. Places(q, t, {}, c, r \cup i, n)
  BY <1>2 DEF Places
<1> QED BY <1>1, <1>3

\* A step that does not touch can_rx_q keeps all that is known of it.
LEMMA QueueIdle ==
    ASSUME P!RefineInv, UNCHANGED queueVars
    PROVE  P!RefineInv' /\ Queue' = Queue /\ Shown' = Shown /\ op' = op /\ ret' = ret
<1>1. UNCHANGED P!vars
  BY DEF queueVars, P!vars, P!queueVars, P!callVars
<1>2. P!RefineInv'
  BY <1>1, P!QueueNext, P!CopyDoneNext, QueueAssumptions DEF P!RefineInv
<1>3. Queue' = Queue
  BY DEF queueVars, Queue, P!Contents, P!Ring, P!Held, P!Moved, P!Behind
<1>4. Shown' = Shown
  BY DEF queueVars, Shown, P!Shown
<1> QED BY <1>2, <1>3, <1>4 DEF queueVars

----------------------------------------------------------------------------
\* The copy msg_recv took for isotp_recv, and the one the handler has made and
\* msg_send has not put into the queue.
TaskHand == IF ret["task"] = "ok" THEN {Shown["task"]} ELSE {}
IrqHand  == IF irq = "send" /\ ret["irq"] # "ok" THEN {Shown["irq"]} ELSE {}

\* Each copy is where EveryCopyAccounted allows it, and nowhere else.
EachInItsPlace ==
    Places(ToSet(Queue), TaskHand, IrqHand, consumed, refused, Len(shows))

\* The task only receives and the handler only sends, and what it sends is the
\* copy it made last.
HandlerAtWork ==
    /\ op["task"] # "send" /\ op["irq"] # "recv"
    /\ irq = "send" <=> op["irq"] = "send"
    /\ irq = "send" => Shown["irq"] = Len(shows)
    /\ ret["irq"] = "fail" => Len(Queue) = DEPTH
    /\ \A c \in Contexts : op[c] = "none" => ret[c] = "none"

\* Until can_init returned nothing was transmitted and nothing has used the queue.
QuietBoot ==
    boot # "ready" => /\ ~txrq /\ ~rqcp /\ irq = "off" /\ op["task"] = "none"
                      /\ head = 0 /\ tail = 0 /\ count = 0 /\ lock = 0

\* What isotp_recv returned is some of what it consumed, in order.
Handover ==
    /\ ToSet(delivered) \subseteq consumed
    /\ \A k \in 1 .. Len(delivered) - 1 : delivered[k] < delivered[k + 1]

\* The inductive invariant.
CanInv ==
    /\ TypeOK /\ P!RefineInv
    /\ HandlerAtWork /\ QuietBoot /\ Increasing(Queue)
    /\ EachInItsPlace /\ Handover

\* The invariant holds at power-on.
LEMMA CanInit == Init => CanInv
<1> SUFFICES ASSUME Init PROVE CanInv
  OBVIOUS
<1>1. P!Init /\ P!Fifo!Init
  BY P!RefineInit, QueueAssumptions, SameQueue DEF Init, Contexts
<1>2. P!RefineInv
  BY <1>1, P!QueueInit, QueueAssumptions DEF P!RefineInv, P!CopyDone, P!Init
<1>3. /\ Queue = <<>> /\ Shown = [t \in Contexts |-> NoCopy]
      /\ ret = [t \in Contexts |-> "none"] /\ op = [t \in Contexts |-> "none"]
  BY <1>1 DEF P!Fifo!Init, Queue, Shown, P!Shown
<1>4. TypeOK
  <2>1. Q!TypeOK
    BY <1>2, SameQueue DEF P!RefineInv, P!QueueInv, Contexts
  <2>2. \A S : <<>> \in Seq(S) /\ Len(<<>>) = 0
    OBVIOUS
  <2>3. arrived \in 0 .. MaxFrames /\ Len(hwFifo) <= HwDepth /\ Len(shows) <= MaxCopies
    BY <2>2, CanAssumption DEF Init
  <2> QED BY <2>1, <2>2, <2>3 DEF Init, TypeOK, BootSteps
<1>5. EachInItsPlace
  BY <1>3 DEF Init, EachInItsPlace, Places, TaskHand, IrqHand, ToSet, Contexts
<1>6. HandlerAtWork
  BY <1>3 DEF HandlerAtWork, Init, Contexts
<1>7. QuietBoot
  BY <1>1, <1>3 DEF QuietBoot, Init, Contexts, P!Init
<1> QED BY <1>2, <1>3, <1>4, <1>5, <1>6, <1>7 DEF CanInv, Init, Increasing, Handover, ToSet

\* A sequence of copies is one of numbers.
LEMMA CopySeq ==
    ASSUME NEW s \in Seq(Slot)
    PROVE  s \in Seq(Nat) /\ DOMAIN s = 1 .. Len(s) /\ Len(s) \in Nat
<1>1. s \in [1 .. Len(s) -> Slot] /\ Len(s) \in Nat
  OBVIOUS
<1>2. Slot \subseteq Nat
  BY CanAssumption DEF Slot, Copies, NoCopy
<1>3. s \in [1 .. Len(s) -> Nat]
  BY <1>1, <1>2
<1> QED BY <1>1, <1>3

\* The types that the invariant gives the queue's and the contexts' state.
LEMMA InvTypes ==
    ASSUME CanInv
    PROVE  /\ Queue \in Seq(Nat) /\ Len(shows) \in Nat /\ Len(shows) <= MaxCopies
           /\ op \in [Contexts -> {"none", "send", "recv"}]
           /\ msg \in [Contexts -> Slot]
           /\ ret \in [Contexts -> {"none", "ok", "fail"}]
           /\ Shown \in [Contexts -> Slot]
<1> USE DEF CanInv
<1>1. Queue \in Seq(Nat)
  BY CopySeq, QueueType
<1>2. /\ op \in [Contexts -> {"none", "send", "recv"}]
      /\ msg \in [Contexts -> Slot]
      /\ ret \in [Contexts -> {"none", "ok", "fail"}]
  BY DEF P!RefineInv, P!QueueInv, P!TypeOK, Slot
<1>3. Shown \in [Contexts -> Slot]
  BY <1>2 DEF Shown, P!Shown, Slot
<1>4. Len(shows) \in Nat /\ Len(shows) <= MaxCopies
  BY DEF TypeOK
<1> QED BY <1>1, <1>2, <1>3, <1>4

\* The queue's types after a step.
LEMMA QueueTypes ==
    ASSUME P!RefineInv' PROVE Q!TypeOK'
  BY DEF P!RefineInv, P!QueueInv, P!TypeOK, Q!TypeOK, P!Indices, Q!Indices, P!Inside, Q!Inside

\* The steps that leave the copies where they are.
LEMMA NothingMoves ==
    ASSUME CanInv, Queue' = Queue, TaskHand' = TaskHand, IrqHand' = IrqHand,
           UNCHANGED <<shows, history>>
    PROVE  EachInItsPlace' /\ Increasing(Queue)' /\ Handover'
<1> USE DEF CanInv, history
<1>1. EachInItsPlace'
  BY DEF EachInItsPlace, Places, ToSet
<1> QED BY <1>1 DEF Increasing, Handover

\* The controller, and the steps of the task that touch only the controller, keep
\* the invariant.
LEMMA ControllerKeeps ==
    ASSUME CanInv, Arrive \/ TxDone \/ CanSend PROVE CanInv'
<1> USE DEF CanInv
<1>1. UNCHANGED <<queueVars, boot, irq, shows, history>>
  BY DEF Arrive, TxDone, CanSend
<1>2. P!RefineInv' /\ Queue' = Queue /\ Shown' = Shown /\ op' = op /\ ret' = ret
  BY <1>1, QueueIdle
<1>3. TaskHand' = TaskHand /\ IrqHand' = IrqHand
  BY <1>1, <1>2 DEF TaskHand, IrqHand
<1>4. EachInItsPlace' /\ Increasing(Queue)' /\ Handover'
  BY <1>1, <1>2, <1>3, NothingMoves
<1>5. HandlerAtWork'
  BY <1>1, <1>2 DEF HandlerAtWork
<1>6. QuietBoot'
  BY <1>1, <1>2 DEF QuietBoot, Arrive, TxDone, CanSend, queueVars
<1>7. TypeOK'
  <2>1. CASE Arrive
    <3>1. arrived' \in Frames
      BY <2>1, CanAssumption DEF Arrive, TypeOK, Frames
    <3>2. hwFifo' \in Seq(Frames) /\ Len(hwFifo') <= HwDepth
      BY <2>1, <3>1, CanAssumption DEF Arrive, TypeOK
    <3> QED BY <1>1, <1>2, <2>1, <3>1, <3>2, QueueTypes DEF Arrive, TypeOK, Frames, history
  <2>2. CASE TxDone \/ CanSend
    BY <1>1, <1>2, <2>2, QueueTypes DEF TxDone, CanSend, TypeOK, history
  <2> QED BY <2>1, <2>2
<1> QED BY <1>2, <1>4, <1>5, <1>6, <1>7

\* The steps of can_init keep it.
LEMMA BootKeeps ==
    ASSUME CanInv, EnableIrq \/ MsgInit PROVE CanInv'
<1> USE DEF CanInv
<1>1. boot # "ready" /\ boot' \in BootSteps /\ UNCHANGED <<controller, irq, shows, history>>
  BY DEF EnableIrq, MsgInit, BootStep, BootSteps
<1>2. UNCHANGED queueVars
  BY <1>1 DEF EnableIrq, MsgInit, BootStep, QuietBoot, queueVars
<1>3. P!RefineInv' /\ Queue' = Queue /\ Shown' = Shown /\ op' = op /\ ret' = ret
  BY <1>2, QueueIdle
<1>4. TaskHand' = TaskHand /\ IrqHand' = IrqHand
  BY <1>1, <1>3 DEF TaskHand, IrqHand
<1>5. EachInItsPlace' /\ Increasing(Queue)' /\ Handover'
  BY <1>1, <1>3, <1>4, NothingMoves
<1>6. TypeOK'
  BY <1>1, <1>3, QueueTypes DEF TypeOK, history, controller
<1>7. HandlerAtWork' /\ QuietBoot'
  BY <1>1, <1>2, <1>3 DEF HandlerAtWork, QuietBoot, queueVars, controller
<1> QED BY <1>3, <1>5, <1>6, <1>7

\* isotp_recv calling can_recv keeps it.
LEMMA TaskPollsKeeps ==
    ASSUME CanInv, TaskPolls PROVE CanInv'
<1> USE DEF CanInv, TaskPolls, TaskRuns
<1>1. "task" \in Contexts /\ "irq" \in Contexts /\ NoCopy \in Slot
  BY DEF Contexts, Slot
<1>2. /\ P!RefineInv' /\ Queue' = Queue /\ ret' = ret /\ ret["task"] = "none"
      /\ op["task"] = "none" /\ op' = [op EXCEPT !["task"] = "recv"]
      /\ Shown' = [Shown EXCEPT !["task"] = NoCopy]
  BY <1>1, CallEffect
<1>3. Shown'["irq"] = Shown["irq"] /\ op'["irq"] = op["irq"] /\ op'["task"] = "recv"
  BY <1>1, <1>2, InvTypes
<1>4. TaskHand' = TaskHand /\ IrqHand' = IrqHand
  BY <1>2, <1>3 DEF TaskHand, IrqHand
<1>5. EachInItsPlace' /\ Increasing(Queue)' /\ Handover'
  BY <1>2, <1>4, NothingMoves
<1>6. TypeOK'
  BY <1>2, QueueTypes DEF TypeOK, history, controller
<1>7. HandlerAtWork' /\ QuietBoot'
  BY <1>2, <1>3 DEF HandlerAtWork, QuietBoot, Contexts
<1> QED BY <1>2, <1>5, <1>6, <1>7

\* So does every access of msg_recv,
LEMMA TaskInQueueKeeps ==
    ASSUME CanInv, TaskInQueue PROVE CanInv'
<1> USE DEF CanInv, TaskInQueue, TaskRuns
<1>1. "task" \in Contexts /\ "irq" \in Contexts
  BY DEF Contexts
<1>2. P!RefineInv' /\ op' = op /\ op["task"] = "recv"
  BY <1>1, InnerEffect, InvTypes DEF HandlerAtWork
<1>3. boot = "ready"
  BY <1>2 DEF QuietBoot
<1>4. TypeOK'
  BY <1>2, QueueTypes DEF TypeOK, history, controller
<1>5. IrqHand = {} /\ IrqHand' = {} /\ QuietBoot'
  BY <1>3 DEF IrqHand, QuietBoot
<1>6. ret["irq"] = "none"
  BY <1>1, InvTypes DEF HandlerAtWork
<1>7. CASE Queue' = Queue /\ Shown' = Shown /\ ret' = ret
  <2>1. TaskHand' = TaskHand
    BY <1>7 DEF TaskHand
  <2>2. HandlerAtWork'
    BY <1>2, <1>7 DEF HandlerAtWork
  <2> QED BY <1>2, <1>4, <1>5, <1>7, <2>1, <2>2, NothingMoves
<1>8. CASE /\ ret["task"] = "none" /\ Queue' = Queue /\ Shown' = Shown
           /\ ret' = [ret EXCEPT !["task"] = "fail"]
  <2>1. ret'["irq"] = ret["irq"] /\ ret'["task"] = "fail"
    BY <1>1, <1>8, InvTypes
  <2>2. TaskHand' = TaskHand
    BY <1>8, <2>1 DEF TaskHand
  <2>3. HandlerAtWork'
    BY <1>2, <1>8, <2>1 DEF HandlerAtWork, Contexts
  <2> QED BY <1>2, <1>4, <1>5, <1>8, <2>2, <2>3, NothingMoves
<1>9. CASE /\ ret["task"] = "none" /\ Queue # <<>> /\ Queue' = Tail(Queue)
           /\ Shown' = [Shown EXCEPT !["task"] = Head(Queue)]
           /\ ret' = [ret EXCEPT !["task"] = "ok"]
  <2>1. /\ ret'["irq"] = ret["irq"] /\ ret'["task"] = "ok"
        /\ Shown'["irq"] = Shown["irq"] /\ Shown'["task"] = Head(Queue)
    BY <1>1, <1>9, InvTypes
  <2>2. TaskHand = {} /\ TaskHand' = {Head(Queue)}
    BY <1>9, <2>1 DEF TaskHand
  <2>3. /\ Head(Queue) \in ToSet(Queue) /\ Increasing(Queue')
        /\ ToSet(Queue') = ToSet(Queue) \ {Head(Queue)}
        /\ \A x \in ToSet(Queue') : Head(Queue) < x
    BY <1>9, InvTypes, TailKeeps
  <2>4. EachInItsPlace'
    <3>1. Places(ToSet(Queue) \ {Head(Queue)}, {Head(Queue)}, {}, consumed, refused,
                 Len(shows))
      <4>1. Places(ToSet(Queue), {}, {}, consumed, refused, Len(shows))
        BY <1>5, <2>2 DEF EachInItsPlace
      <4> QED BY <4>1, <2>3, InvTypes, PlacesTake
    <3> QED BY <1>5, <2>2, <2>3, <3>1 DEF EachInItsPlace, Places, ToSet, history
  <2>5. Increasing(Queue)' /\ Handover'
    BY <2>3 DEF Increasing, Handover, history
  <2>6. HandlerAtWork'
    BY <1>1, <1>2, <1>6, <2>1, InvTypes DEF HandlerAtWork, Contexts
  <2> QED BY <1>2, <1>4, <1>5, <2>4, <2>5, <2>6
<1> QED BY <1>1, <1>2, <1>7, <1>8, <1>9, InnerEffect

\* and its return to isotp_recv.
LEMMA TaskReturnsKeeps ==
    ASSUME CanInv, TaskReturns PROVE CanInv'
<1> USE DEF CanInv, TaskReturns, TaskRuns
<1>1. "task" \in Contexts /\ "irq" \in Contexts
  BY DEF Contexts
<1>2. /\ P!RefineInv' /\ Queue' = Queue /\ ret["task"] # "none" /\ op["task"] # "none"
      /\ Shown["task"] = msg["task"]
      /\ op' = [op EXCEPT !["task"] = "none"]
      /\ Shown' = [Shown EXCEPT !["task"] = NoCopy]
      /\ ret' = [ret EXCEPT !["task"] = "none"]
  BY <1>1, ReturnEffect
<1>3. /\ Shown'["irq"] = Shown["irq"] /\ op'["irq"] = op["irq"] /\ op'["task"] = "none"
      /\ ret'["irq"] = ret["irq"] /\ ret'["task"] = "none"
  BY <1>1, <1>2, InvTypes
<1>4. TaskHand' = {} /\ IrqHand' = IrqHand /\ consumed' = consumed \cup TaskHand
  <2>1. TaskHand' = {}
    BY <1>3 DEF TaskHand
  <2>2. IrqHand' = IrqHand
    BY <1>3 DEF IrqHand
  <2>3. consumed' = consumed \cup TaskHand
    BY <1>2 DEF TaskHand
  <2> QED BY <2>1, <2>2, <2>3
<1>5. EachInItsPlace'
  <2>1. Places(ToSet(Queue), {}, IrqHand, consumed \cup TaskHand, refused, Len(shows))
    BY InvTypes, PlacesReturn DEF EachInItsPlace
  <2>2. Queue' = Queue /\ refused' = refused /\ shows' = shows
    BY <1>2
  <2> HIDE DEF TaskReturns, CanInv
  <2> QED BY <1>4, <2>1, <2>2 DEF EachInItsPlace, Places, ToSet
<1>6. Increasing(Queue)' /\ QuietBoot'
  BY <1>2 DEF Increasing, QuietBoot, controller
<1>7. HandlerAtWork'
  BY <1>1, <1>2, <1>3 DEF HandlerAtWork, Contexts
<1>8. Handover' /\ delivered' \in Seq(Slot)
  <2>1. CASE delivered' = delivered
    BY <1>4, <2>1 DEF Handover, TypeOK, Slot
  <2>2. CASE ret["task"] = "ok" /\ delivered' = Append(delivered, msg["task"])
    <3>0. msg["task"] \in Slot
      BY <1>1, InvTypes
    <3>1. /\ delivered \in Seq(Slot) /\ Len(delivered) \in Nat
          /\ Len(delivered') = Len(delivered) + 1
          /\ \A k \in 1 .. Len(delivered) : delivered'[k] = delivered[k]
          /\ delivered'[Len(delivered) + 1] = msg["task"]
          /\ delivered' \in Seq(Slot)
      BY <2>2, <3>0 DEF TypeOK, Slot
    <3>2. TaskHand = {msg["task"]}
      BY <1>2, <2>2 DEF TaskHand
    <3>3. DOMAIN delivered = 1 .. Len(delivered) /\ DOMAIN delivered' = 1 .. Len(delivered')
      BY <3>1
    <3>4. \A k \in 1 .. Len(delivered) : delivered[k] \in consumed
      BY <3>3 DEF Handover, ToSet
    <3>5. \A x \in consumed : x < msg["task"]
      BY <3>2 DEF EachInItsPlace, Places
    <3>6. ASSUME NEW k \in 1 .. Len(delivered') - 1 PROVE delivered'[k] < delivered'[k + 1]
      <4>1. CASE k = Len(delivered)
        BY <3>1, <3>4, <3>5, <4>1
      <4>2. CASE k \in 1 .. Len(delivered) - 1
        BY <3>1, <4>2 DEF Handover
      <4> QED BY <3>1, <4>1, <4>2
    <3>7. ToSet(delivered') \subseteq consumed'
      BY <1>4, <3>1, <3>2, <3>3, <3>4 DEF ToSet
    <3> QED BY <3>1, <3>6, <3>7 DEF Handover
  <2> QED BY <2>1, <2>2
<1>9. TypeOK'
  <2>1. consumed' \subseteq Slot
    BY <1>1, InvTypes DEF TypeOK, Slot
  <2> QED BY <1>2, <1>8, <2>1, QueueTypes DEF TypeOK, controller, Slot
<1> QED BY <1>2, <1>5, <1>6, <1>7, <1>8, <1>9

\* CEC_CAN_IRQHandler copying a frame and calling msg_send keeps it,
LEMMA IrqEnterKeeps ==
    ASSUME CanInv, IrqEnter PROVE CanInv'
<1> USE DEF CanInv, IrqEnter
<1> DEFINE n == Len(shows)
           f == IF hwFifo = <<>> THEN NoFrame ELSE Head(hwFifo)
<1>1. "task" \in Contexts /\ "irq" \in Contexts
  BY DEF Contexts
<1>2. n \in Nat /\ n + 1 \in Copies /\ n + 1 \in Slot
  BY InvTypes, CanAssumption DEF Copies, Slot
<1>3. /\ P!RefineInv' /\ Queue' = Queue /\ ret' = ret /\ ret["irq"] = "none"
      /\ op["irq"] = "none" /\ op' = [op EXCEPT !["irq"] = "send"]
      /\ Shown' = [Shown EXCEPT !["irq"] = n + 1]
  BY <1>1, <1>2, CallEffect
<1>4. /\ Shown'["irq"] = n + 1 /\ Shown'["task"] = Shown["task"]
      /\ op'["irq"] = "send" /\ op'["task"] = op["task"]
  BY <1>1, <1>3, InvTypes
<1>5. /\ shows' \in Seq(Frames \cup {NoFrame}) /\ Len(shows') = n + 1
      /\ Len(shows') <= MaxCopies
  <2>1. f \in Frames \cup {NoFrame}
    BY DEF TypeOK
  <2>2. shows \in Seq(Frames \cup {NoFrame}) /\ shows' = Append(shows, f)
    BY DEF TypeOK
  <2> HIDE DEF f
  <2> QED BY <1>2, <2>1, <2>2, CanAssumption
<1>6. TaskHand' = TaskHand /\ IrqHand = {} /\ IrqHand' = {n + 1}
  BY <1>3, <1>4 DEF TaskHand, IrqHand
<1>7. EachInItsPlace'
  <2>1. Places(ToSet(Queue), TaskHand, {n + 1}, consumed, refused, n + 1)
    BY <1>2, <1>6, PlacesMake DEF EachInItsPlace
  <2> QED BY <1>3, <1>5, <1>6, <2>1 DEF EachInItsPlace, Places, ToSet, history
<1>8. Increasing(Queue)' /\ Handover'
  BY <1>3 DEF Increasing, Handover, history
<1>9. TypeOK'
  BY <1>3, <1>5, QueueTypes DEF TypeOK, history, controller
<1>10. HandlerAtWork' /\ QuietBoot'
  BY <1>3, <1>4, <1>5 DEF HandlerAtWork, QuietBoot, Contexts
<1> QED BY <1>3, <1>7, <1>8, <1>9, <1>10

\* every access of msg_send does,
LEMMA IrqInQueueKeeps ==
    ASSUME CanInv, IrqInQueue PROVE CanInv'
<1> USE DEF CanInv, IrqInQueue
<1>1. "task" \in Contexts /\ "irq" \in Contexts
  BY DEF Contexts
<1>2. P!RefineInv' /\ op' = op /\ op["irq"] = "send"
  BY <1>1, InnerEffect DEF HandlerAtWork
<1>3. boot = "ready" /\ QuietBoot'
  BY DEF QuietBoot
<1>4. TypeOK'
  BY <1>2, QueueTypes DEF TypeOK, history, controller
<1>5. CASE Queue' = Queue /\ Shown' = Shown /\ ret' = ret
  <2>1. TaskHand' = TaskHand /\ IrqHand' = IrqHand
    BY <1>5 DEF TaskHand, IrqHand
  <2>2. HandlerAtWork'
    BY <1>2, <1>5 DEF HandlerAtWork
  <2> QED BY <1>2, <1>3, <1>4, <1>5, <2>1, <2>2, NothingMoves
<1>6. CASE /\ ret["irq"] = "none" /\ Shown' = Shown
           /\ Queue' = Append(Queue, Shown["irq"])
           /\ ret' = [ret EXCEPT !["irq"] = "ok"]
  <2>1. /\ ret'["irq"] = "ok" /\ ret'["task"] = ret["task"] /\ TaskHand' = TaskHand
        /\ IrqHand = {Shown["irq"]} /\ IrqHand' = {}
    BY <1>1, <1>6, InvTypes DEF TaskHand, IrqHand
  <2>2. /\ Queue \in Seq(Nat) /\ Shown["irq"] \in Nat
        /\ \A x \in ToSet(Queue) : x < Shown["irq"]
    BY <2>1, InvTypes DEF EachInItsPlace, Places, HandlerAtWork
  <2>3. ToSet(Queue') = ToSet(Queue) \cup {Shown["irq"]} /\ Increasing(Queue')
    BY <1>6, <2>2, AppendKeeps
  <2>4. EachInItsPlace'
    <3>1. Places(ToSet(Queue) \cup {Shown["irq"]}, TaskHand, {}, consumed, refused, Len(shows))
      BY <2>1, InvTypes, PlacesSend DEF EachInItsPlace
    <3> QED BY <2>1, <2>3, <3>1 DEF EachInItsPlace, Places, ToSet, history
  <2>5. Increasing(Queue)' /\ Handover'
    BY <2>3 DEF Increasing, Handover, history
  <2>6. HandlerAtWork'
    BY <1>1, <1>2, <1>6, <2>1, InvTypes DEF HandlerAtWork, Contexts
  <2> QED BY <1>2, <1>3, <1>4, <2>4, <2>5, <2>6
<1>7. CASE /\ ret["irq"] = "none" /\ Shown' = Shown
           /\ Len(Queue) = DEPTH /\ Queue' = Queue
           /\ ret' = [ret EXCEPT !["irq"] = "fail"]
  <2>1. ret'["irq"] = "fail" /\ ret'["task"] = ret["task"]
    BY <1>1, <1>7, InvTypes
  <2>2. TaskHand' = TaskHand /\ IrqHand' = IrqHand
    BY <1>7, <2>1 DEF TaskHand, IrqHand
  <2>3. HandlerAtWork'
    BY <1>1, <1>2, <1>7, <2>1, InvTypes DEF HandlerAtWork, Contexts
  <2> QED BY <1>2, <1>3, <1>4, <1>7, <2>2, <2>3, NothingMoves
<1> QED BY <1>1, <1>2, <1>5, <1>6, <1>7, InnerEffect

\* its return to the handler,
LEMMA IrqSentKeeps ==
    ASSUME CanInv, IrqSent PROVE CanInv'
<1> USE DEF CanInv, IrqSent
<1>1. "task" \in Contexts /\ "irq" \in Contexts
  BY DEF Contexts
<1>2. /\ P!RefineInv' /\ Queue' = Queue /\ ret["irq"] # "none" /\ Shown["irq"] = msg["irq"]
      /\ op' = [op EXCEPT !["irq"] = "none"]
      /\ Shown' = [Shown EXCEPT !["irq"] = NoCopy]
      /\ ret' = [ret EXCEPT !["irq"] = "none"]
  BY <1>1, ReturnEffect
<1>3. /\ Shown'["task"] = Shown["task"] /\ op'["task"] = op["task"] /\ op'["irq"] = "none"
      /\ ret'["task"] = ret["task"] /\ ret'["irq"] = "none"
  BY <1>1, <1>2, InvTypes
<1>4. TaskHand' = TaskHand /\ IrqHand' = {} /\ refused' = refused \cup IrqHand
  BY <1>1, <1>2, <1>3, InvTypes DEF TaskHand, IrqHand
<1>5. EachInItsPlace'
  <2>1. Places(ToSet(Queue), TaskHand, {}, consumed, refused \cup IrqHand, Len(shows))
    BY InvTypes, PlacesReturn DEF EachInItsPlace
  <2> QED BY <1>2, <1>4, <2>1 DEF EachInItsPlace, Places, ToSet
<1>6. Increasing(Queue)' /\ QuietBoot' /\ Handover'
  BY <1>2, <1>3 DEF Increasing, QuietBoot, Handover, HandlerAtWork
<1>7. HandlerAtWork'
  BY <1>1, <1>2, <1>3 DEF HandlerAtWork, Contexts
<1>8. TypeOK'
  <2>1. ret["irq"] = "fail" => msg["irq"] \in Copies
    <3>1. Len(shows) \in 1 .. Len(shows) => Len(shows) \in Copies
      BY InvTypes, CanAssumption DEF Copies
    <3>2. ret["irq"] = "fail" => msg["irq"] \in 1 .. Len(shows)
      BY <1>2 DEF EachInItsPlace, Places, IrqHand
    <3> QED BY <1>2, <3>1, <3>2 DEF HandlerAtWork
  <2> QED BY <1>2, <2>1, QueueTypes DEF TypeOK, controller
<1> QED BY <1>2, <1>5, <1>6, <1>7, <1>8

\* and the handler's return.
LEMMA IrqLeaveKeeps ==
    ASSUME CanInv, IrqLeave PROVE CanInv'
<1> USE DEF CanInv, IrqLeave
<1>1. P!RefineInv' /\ Queue' = Queue /\ Shown' = Shown /\ op' = op /\ ret' = ret
  BY QueueIdle
<1>2. TaskHand' = TaskHand /\ IrqHand' = IrqHand
  BY <1>1 DEF TaskHand, IrqHand
<1>3. EachInItsPlace' /\ Increasing(Queue)' /\ Handover'
  BY <1>1, <1>2, NothingMoves
<1>4. HandlerAtWork' /\ QuietBoot'
  BY <1>1 DEF HandlerAtWork, QuietBoot
<1>5. TypeOK'
  BY <1>1, QueueTypes DEF TypeOK, history
<1> QED BY <1>1, <1>3, <1>4, <1>5

\* Every step keeps the invariant.
LEMMA CanNext ==
    ASSUME CanInv, [Next]_vars PROVE CanInv'
<1>1. CASE UNCHANGED vars
  <2>1. UNCHANGED <<queueVars, controller, irq, boot, shows, history>>
    BY <1>1 DEF vars
  <2>2. P!RefineInv' /\ Queue' = Queue /\ Shown' = Shown /\ op' = op /\ ret' = ret
    BY <2>1, QueueIdle DEF CanInv
  <2>3. TaskHand' = TaskHand /\ IrqHand' = IrqHand
    BY <2>1, <2>2 DEF TaskHand, IrqHand
  <2>4. EachInItsPlace' /\ Increasing(Queue)' /\ Handover'
    BY <2>1, <2>2, <2>3, NothingMoves
  <2>5. TypeOK'
    BY <2>1, <2>2, QueueTypes DEF CanInv, TypeOK, history, controller
  <2>6. HandlerAtWork' /\ QuietBoot'
    BY <2>1, <2>2 DEF CanInv, HandlerAtWork, QuietBoot, queueVars, controller
  <2> QED BY <2>2, <2>4, <2>5, <2>6 DEF CanInv
<1> QED
  BY <1>1, ControllerKeeps, BootKeeps, TaskPollsKeeps, TaskInQueueKeeps, TaskReturnsKeeps,
     IrqEnterKeeps, IrqInQueueKeeps, IrqSentKeeps, IrqLeaveKeeps
  DEF Next, TaskStep, IrqStep

\* CanInv holds of can.c, isotp_recv and msg.c together, in every state.
THEOREM CanInvariant == Spec => []CanInv
  BY CanInit, CanNext, PTL DEF Spec

\* Every variable keeps its type; the controller's FIFO is not overfilled.
THEOREM CanTypes == Spec => []TypeOK
<1>1. CanInv => TypeOK
  BY DEF CanInv
<1> QED BY <1>1, CanInvariant, PTL

\* isotp_recv returns the handler's copies in the order they were made, none twice,
\* although the handler fills can_rx_q while msg_recv empties it.
THEOREM CanCopiesInOrder == Spec => []CopiesInOrder
<1>1. CanInv => CopiesInOrder
  <2> SUFFICES ASSUME CanInv PROVE CopiesInOrder
    OBVIOUS
  <2>1. consumed \subseteq 1 .. Len(shows)
    BY DEF CanInv, EachInItsPlace, Places
  <2>2. DOMAIN delivered = 1 .. Len(delivered)
    BY DEF CanInv, TypeOK
  <2> QED BY <2>1, <2>2 DEF CanInv, Handover, CopiesInOrder, ToSet
<1> QED BY <1>1, CanInvariant, PTL

\* No copy is twice in can_rx_q.
LEMMA QueueCounts ==
    ASSUME CanInv PROVE Cardinality(Queued) = Len(Q!Contents)
<1>1. Q!Contents = Queue /\ Queue \in Seq(Nat) /\ Increasing(Queue)
  BY InvTypes, SameQueue DEF CanInv, Queue, Contexts
<1>2. Queue \in Bijection(1 .. Len(Queue), ToSet(Queue))
  <2>1. Queue \in [1 .. Len(Queue) -> ToSet(Queue)] /\ DOMAIN Queue = 1 .. Len(Queue)
    BY <1>1 DEF ToSet
  <2>2. \A y \in ToSet(Queue) : \E k \in 1 .. Len(Queue) : Queue[k] = y
    BY <2>1 DEF ToSet
  <2>3. ASSUME NEW j \in 1 .. Len(Queue), NEW k \in 1 .. Len(Queue), Queue[j] = Queue[k]
        PROVE  j = k
    <3>1. Queue[j] \in Nat /\ Queue[k] \in Nat /\ Len(Queue) \in Nat
      BY <1>1
    <3>2. ~(j < k) /\ ~(k < j)
      BY <1>1, <2>3, <3>1 DEF Increasing
    <3> QED BY <3>1, <3>2
  <2> QED BY <2>1, <2>2, <2>3 DEF Bijection, Injection, Surjection, IsInjective
<1>3. ExistsBijection(1 .. Len(Queue), ToSet(Queue)) /\ Len(Queue) \in Nat
  BY <1>1, <1>2 DEF ExistsBijection
<1> QED BY <1>1, <1>3, FS_CountingElements DEF Queued

\* Every copy the handler made is in exactly one place: a caller's hands, can_rx_q,
\* the application, or the one known loss (a full queue, whose msg_send the handler
\* does not look at).
THEOREM CanAccountsForCopies == Spec => []EveryCopyAccounted
<1>1. CanInv => EveryCopyAccounted
  <2> SUFFICES ASSUME CanInv PROVE EveryCopyAccounted
    OBVIOUS
  <2> DEFINE places == <<Queued, InHand, consumed, refused>>
  <2>1. InHand = TaskHand \cup IrqHand
    <3>1. /\ ret["task"] = "ok" => Shown["task"] = msg["task"]
          /\ irq = "send" => Shown["irq"] = msg["irq"]
      BY DEF Shown, P!Shown, Contexts, CanInv, HandlerAtWork
    <3> QED BY <3>1 DEF InHand, TaskHand, IrqHand, Contexts
  <2>2. Queued = ToSet(Queue)
    BY SameQueue DEF Queued, Queue, Contexts
  <2>3. Queued \cup InHand \cup consumed \cup refused = 1 .. Len(shows)
    BY <2>1, <2>2 DEF CanInv, EachInItsPlace, Places
  <2>4. Queued \cap InHand = {} /\ Queued \cap consumed = {} /\ InHand \cap consumed = {}
    BY <2>1, <2>2, <2>3 DEF CanInv, EachInItsPlace, Places
  <2>5. refused \cap (Queued \cup InHand \cup consumed) = {}
    BY <2>1, <2>2 DEF CanInv, EachInItsPlace, Places
  <2>6. UNION Range(places) = Queued \cup InHand \cup consumed \cup refused
    <3>1. Range(places) = {Queued, InHand, consumed, refused}
      BY DEF Range
    <3> QED BY <3>1
  <2>7. ASSUME NEW j \in 1 .. 4, NEW k \in 1 .. 4, j # k
        PROVE  places[j] \cap places[k] = {}
    BY <2>4, <2>5, <2>7
  <2>8. DOMAIN places = 1 .. 4
    OBVIOUS
  <2> QED BY <2>3, <2>6, <2>7, <2>8, QueueCounts DEF EveryCopyAccounted
<1> QED BY <1>1, CanInvariant, PTL

\* The handler gives up a copy only while can_rx_q holds DEPTH others.
THEOREM CanRefusesOnlyWhenFull == Spec => RefusedOnlyWhenFull
<1>1. CanInv /\ [Next]_vars => [refused' # refused => Len(Q!Contents) = DEPTH]_vars
  <2> SUFFICES ASSUME CanInv, Next, refused' # refused PROVE Len(Q!Contents) = DEPTH
    OBVIOUS
  <2>1. ret["irq"] = "fail"
    BY DEF Next, Arrive, TxDone, TaskStep, EnableIrq, MsgInit, BootStep, CanSend,
           TaskPolls, TaskInQueue, TaskReturns, IrqStep, IrqEnter, IrqInQueue, IrqSent,
           IrqLeave, history
  <2> QED BY <2>1, SameQueue DEF CanInv, HandlerAtWork, Queue, Contexts
<1> QED BY <1>1, CanInvariant, PTL DEF Spec, RefusedOnlyWhenFull
=============================================================================
