---------------------------- MODULE MailboxProofs ----------------------------
(****************************************************************************)
(* Theorems about Mailbox, for every size of the ring, all lengths and any  *)
(* content of the indices at power-up.                                      *)
(*                                                                          *)
(* Each index has one writer, so that the invariant is mostly types; what   *)
(* there is to show is arithmetic: that indices which are only kept modulo  *)
(* SIZE count modulo SIZE, through a receive that adds to tail what it read *)
(* several steps ago.                                                       *)
(****************************************************************************)
EXTENDS Mailbox, TLAPS

----------------------------------------------------------------------------
(* Remainders *)

\* A quotient and a remainder determine the number.
LEMMA Divides ==
    ASSUME NEW a \in Int
    PROVE  a % SIZE \in Slots /\ a \div SIZE \in Int /\ a = SIZE * (a \div SIZE) + (a % SIZE)
<1>1. \A n \in Nat \ {0} : a % n \in 0 .. n - 1 /\ a \div n \in Int /\ a = n * (a \div n) + (a % n)
  OBVIOUS
<1> QED BY <1>1, SizeAssumption DEF Slots

LEMMA RemainderIs ==
    ASSUME NEW a \in Int, NEW k \in Int, NEW r \in Slots, a = SIZE * k + r
    PROVE  a % SIZE = r
<1> DEFINE q == a \div SIZE
<1>1. q \in Int /\ a % SIZE \in Slots /\ a = SIZE * q + (a % SIZE)
  BY Divides
<1> HIDE DEF q
<1>2. SIZE * q - SIZE * k \in Int /\ SIZE * q - SIZE * k < SIZE /\ SIZE * k - SIZE * q < SIZE
  BY <1>1, SizeAssumption DEF Slots
<1>3. q = k
  <2>1. CASE q >= k + 1
    <3>1. SIZE * q >= SIZE * (k + 1)
      BY <1>1, <2>1, SizeAssumption
    <3>2. SIZE * (k + 1) = SIZE * k + SIZE
      BY <1>1, SizeAssumption
    <3> QED BY <1>1, <1>2, <3>1, <3>2, SizeAssumption
  <2>2. CASE k >= q + 1
    <3>1. SIZE * k >= SIZE * (q + 1)
      BY <1>1, <2>2, SizeAssumption
    <3>2. SIZE * (q + 1) = SIZE * q + SIZE
      BY <1>1, SizeAssumption
    <3> QED BY <1>1, <1>2, <3>1, <3>2, SizeAssumption
  <2> QED BY <1>1, <2>1, <2>2
<1> QED BY <1>1, <1>3, SizeAssumption DEF Slots

\* A remainder may be taken before one adds or subtracts.
LEMMA AddRemainder ==
    ASSUME NEW a \in Int, NEW b \in Int
    PROVE  ((a % SIZE) + b) % SIZE = (a + b) % SIZE
<1> DEFINE q == a \div SIZE
           s == (a % SIZE) + b
           u == s \div SIZE
<1>1. q \in Int /\ a % SIZE \in Slots /\ a = SIZE * q + (a % SIZE)
  BY Divides
<1>2. s \in Int
  BY <1>1, SizeAssumption DEF Slots
<1>3. u \in Int /\ s % SIZE \in Slots /\ s = SIZE * u + (s % SIZE)
  BY <1>2, Divides
<1>4. a = SIZE * q + (s - b)
  BY <1>1, <1>2, SizeAssumption DEF Slots
<1> HIDE DEF q, s, u
<1>5. SIZE * (q + u) = SIZE * q + SIZE * u
  BY <1>1, <1>3, SizeAssumption
<1>6. a + b = SIZE * (q + u) + (s % SIZE)
  BY <1>1, <1>2, <1>3, <1>4, <1>5, SizeAssumption DEF Slots
<1>7. (a + b) % SIZE = s % SIZE
  <2>1. a + b \in Int /\ q + u \in Int
    BY <1>1, <1>3
  <2> QED BY <1>3, <1>6, <2>1, RemainderIs
<1> QED BY <1>7 DEF s

LEMMA SubtractRemainder ==
    ASSUME NEW a \in Int, NEW b \in Int
    PROVE  (b - (a % SIZE)) % SIZE = (b - a) % SIZE
<1> DEFINE q == a \div SIZE
           s == b - (a % SIZE)
           u == s \div SIZE
<1>1. q \in Int /\ a % SIZE \in Slots /\ a = SIZE * q + (a % SIZE)
  BY Divides
<1>2. s \in Int
  BY <1>1, SizeAssumption DEF Slots
<1>3. u \in Int /\ s % SIZE \in Slots /\ s = SIZE * u + (s % SIZE)
  BY <1>2, Divides
<1>4. a = SIZE * q + (b - s)
  BY <1>1, <1>2, SizeAssumption DEF Slots
<1> HIDE DEF q, s, u
<1>5. SIZE * (u - q) = SIZE * u - SIZE * q
  BY <1>1, <1>3, SizeAssumption
<1>6. b - a = SIZE * (u - q) + (s % SIZE)
  <2>1. SIZE * q \in Int /\ SIZE * u \in Int /\ s % SIZE \in Int
    BY <1>1, <1>3, SizeAssumption DEF Slots
  <2>2. b - a = s - SIZE * q
    BY <1>2, <1>4, <2>1
  <2>3. s - SIZE * q = SIZE * u - SIZE * q + (s % SIZE)
    BY <1>2, <1>3, <2>1
  <2> QED BY <1>5, <2>2, <2>3
<1>7. (b - a) % SIZE = s % SIZE
  <2>1. b - a \in Int /\ u - q \in Int
    BY <1>1, <1>3
  <2> QED BY <1>3, <1>6, <2>1, RemainderIs
<1> QED BY <1>7 DEF s

LEMMA SmallRemainder == ASSUME NEW r \in Slots PROVE r % SIZE = r
<1>1. r \in Int /\ r = SIZE * 0 + r
  BY SizeAssumption DEF Slots
<1> QED BY <1>1, RemainderIs

----------------------------------------------------------------------------
(* The invariant *)

\* A receive never copies more than a ring holds.
MailboxInv ==
    /\ TypeOK
    /\ \A c \in Cores : pc[c] = "load" => amount[c] \in Slots

LEMMA PeerIsOther ==
    ASSUME NEW c \in Cores
    PROVE  Peer(c) \in Cores /\ Peer(c) # c /\ Peer(Peer(c)) = c
  BY CoresAssumption DEF Cores, Peer

LEMMA UsedInRing == ASSUME TypeOK, NEW c \in Cores PROVE Used(c) \in Slots
<1>1. head[c] - tail[c] \in Int
  BY SizeAssumption DEF TypeOK, Slots
<1> QED BY <1>1, Divides DEF Used

LEMMA MailboxInit == Init => MailboxInv
  BY SizeAssumption DEF Init, MailboxInv, TypeOK

LEMMA MailboxStep == MailboxInv /\ [Next]_vars => MailboxInv'
<1> SUFFICES ASSUME MailboxInv, [Next]_vars PROVE MailboxInv'
  OBVIOUS
<1> USE DEF MailboxInv, TypeOK
<1>1. ASSUME NEW c \in Cores, NEW len \in Lengths, CallSend(c, len) PROVE MailboxInv'
  <2>1. len \in Nat /\ 0 .. len \in SUBSET Nat
    BY LengthsAssumption
  <2> QED BY <1>1, <2>1 DEF CallSend, Goto
<1>2. ASSUME NEW c \in Cores, NEW max \in 1 .. MaxRecv, CallRecv(c, max) PROVE MailboxInv'
  <2>1. max \in Nat
    BY MaxRecvAssumption
  <2> QED BY <1>2, <2>1 DEF CallRecv, Goto
<1>3. ASSUME NEW c \in Cores, StoreHead(c) PROVE MailboxInv'
  <2>1. head[c] + amount[c] \in Int
    BY SizeAssumption DEF Slots
  <2>2. Behind(head[c], amount[c]) \in Slots
    BY <2>1, Divides DEF Behind
  <2> QED BY <1>3, <2>2 DEF StoreHead
<1>4. ASSUME NEW c \in Cores, SendReturns(c) PROVE MailboxInv'
  BY <1>4 DEF SendReturns, Goto
<1>5. ASSUME NEW c \in Cores, NEW i \in pending[c], StoreByte(c, i) PROVE MailboxInv'
  BY <1>5 DEF StoreByte
<1>6. ASSUME NEW c \in Cores, ReadUsed(c) PROVE MailboxInv'
  <2>1. Used(Peer(c)) \in Slots
    BY PeerIsOther, UsedInRing
  <2>2. (IF Used(Peer(c)) > amount[c] THEN amount[c] ELSE Used(Peer(c))) \in Slots
    BY <2>1, SizeAssumption DEF Slots
  <2>3. Slots \subseteq Nat
    BY SizeAssumption DEF Slots
  <2> QED BY <1>6, <2>2, <2>3 DEF ReadUsed, Goto
<1>7. ASSUME NEW c \in Cores, LoadByte(c) PROVE MailboxInv'
  BY <1>7 DEF LoadByte
<1>8. ASSUME NEW c \in Cores, StoreTail(c) PROVE MailboxInv'
  <2>1. Peer(c) \in Cores /\ tail[Peer(c)] + amount[c] \in Int
    BY PeerIsOther, SizeAssumption DEF Slots
  <2>2. Behind(tail[Peer(c)], amount[c]) \in Slots
    BY <2>1, Divides DEF Behind
  <2> QED BY <1>8, <2>1, <2>2 DEF StoreTail, Goto
<1>9. ASSUME NEW c \in Cores, RecvReturns(c) PROVE MailboxInv'
  BY <1>9 DEF RecvReturns, Goto
<1>10. CASE UNCHANGED vars
  BY <1>10 DEF vars
<1> QED BY <1>1, <1>2, <1>3, <1>4, <1>5, <1>6, <1>7, <1>8, <1>9, <1>10 DEF Next, Send, Recv

\* The invariant of the mailboxes.
THEOREM MailboxInvariant == Spec => []MailboxInv
<1> QED BY MailboxInit, MailboxStep, PTL DEF Spec

\* The indices stay inside the ring and the calls keep their types.
THEOREM MailboxTypeOK == Spec => []TypeOK
<1>1. MailboxInv => TypeOK
  BY DEF MailboxInv
<1> QED BY <1>1, MailboxInvariant, PTL
----------------------------------------------------------------------------
(* The refinement *)

\* What the count of a mailbox becomes, from the values around a step.
Count(h, t, n) == (h - t - n) % SIZE

LEMMA CountNow ==
    ASSUME NEW c \in Cores
    PROVE  /\ AbsUnread[c] = Count(head[c], tail[c], Claimed(c))
           /\ AbsUnread'[c] = Count(head'[c], tail'[c], Claimed(c)')
  BY DEF AbsUnread, Count

LEMMA ClaimedInRing ==
    ASSUME MailboxInv, NEW c \in Cores PROVE Claimed(c) \in Slots
<1>1. Peer(c) \in Cores /\ 0 \in Slots
  BY PeerIsOther, SizeAssumption DEF Slots
<1> QED BY <1>1 DEF Claimed, MailboxInv

\* head moves: the count grows by as much.
LEMMA CountSend ==
    ASSUME NEW h \in Slots, NEW t \in Slots, NEW n \in Slots, NEW len \in Nat
    PROVE  Count(Behind(h, len), t, n) = (Count(h, t, n) + len) % SIZE
<1>1. h \in Int /\ t \in Int /\ n \in Int /\ len \in Int
  BY SizeAssumption DEF Slots
<1>2. ((h + len) % SIZE) - t - n = ((h + len) % SIZE) + (0 - t - n)
  <2>1. (h + len) % SIZE \in Int
    BY <1>1, Divides, SizeAssumption DEF Slots
  <2> QED BY <1>1, <2>1
<1>3. Count(Behind(h, len), t, n) = ((h + len) + (0 - t - n)) % SIZE
  <2>1. h + len \in Int /\ 0 - t - n \in Int
    BY <1>1
  <2> QED BY <1>2, <2>1, AddRemainder DEF Count, Behind
<1>4. (Count(h, t, n) + len) % SIZE = ((h - t - n) + len) % SIZE
  <2>1. h - t - n \in Int
    BY <1>1
  <2> QED BY <1>1, <2>1, AddRemainder DEF Count
<1>5. (h + len) + (0 - t - n) = (h - t - n) + len
  BY <1>1
<1> QED BY <1>3, <1>4, <1>5

\* A receive claims no more than the count.
LEMMA CountClaim ==
    ASSUME NEW h \in Slots, NEW t \in Slots, NEW n \in Nat, n <= Count(h, t, 0)
    PROVE  Count(h, t, n) = Count(h, t, 0) - n
<1>1. h \in Int /\ t \in Int /\ h - t \in Int /\ h - t - 0 = h - t
  BY SizeAssumption DEF Slots
<1>2. Count(h, t, 0) \in Slots /\ Count(h, t, 0) = (h - t) % SIZE
  BY <1>1, Divides DEF Count
<1>3. Count(h, t, 0) - n \in Slots
  BY <1>2, SizeAssumption DEF Slots
<1>4. (Count(h, t, 0) + (0 - n)) % SIZE = ((h - t) + (0 - n)) % SIZE
  <2>1. 0 - n \in Int
    OBVIOUS
  <2> QED BY <1>1, <1>2, <2>1, AddRemainder
<1>5. (h - t) + (0 - n) = h - t - n /\ Count(h, t, 0) + (0 - n) = Count(h, t, 0) - n
  BY <1>1, <1>2, SizeAssumption DEF Slots
<1> QED BY <1>3, <1>4, <1>5, SmallRemainder DEF Count

\* tail moves over what was claimed: the count stays.
LEMMA CountTail ==
    ASSUME NEW h \in Slots, NEW t \in Slots, NEW n \in Slots
    PROVE  Count(h, Behind(t, n), 0) = Count(h, t, n)
<1>1. h \in Int /\ t + n \in Int /\ t \in Int /\ n \in Int
  BY SizeAssumption DEF Slots
<1>2. (h - ((t + n) % SIZE)) % SIZE = (h - (t + n)) % SIZE
  BY <1>1, SubtractRemainder
<1>3. (t + n) % SIZE \in Int
  BY <1>1, Divides, SizeAssumption DEF Slots
<1>4. h - ((t + n) % SIZE) - 0 = h - ((t + n) % SIZE) /\ h - (t + n) = h - t - n
  BY <1>1, <1>3
<1> QED BY <1>2, <1>4 DEF Count, Behind

\* Functions on the cores that agree there are equal.
LEMMA AbsEqual ==
    /\ (\A c \in Cores : AbsUnread'[c] = AbsUnread[c]) => AbsUnread' = AbsUnread
    /\ (\A c \in Cores : AbsCall'[c] = AbsCall[c]) => AbsCall' = AbsCall
    /\ (\A c \in Cores : AbsDone'[c] = AbsDone[c]) => AbsDone' = AbsDone
  BY DEF AbsUnread, AbsCall, AbsDone

LEMMA AbsExcept ==
    ASSUME NEW d \in Cores
    PROVE  /\ (\A c \in Cores : c # d => AbsUnread'[c] = AbsUnread[c])
                => AbsUnread' = [AbsUnread EXCEPT ![d] = AbsUnread'[d]]
           /\ (\A c \in Cores : c # d => AbsCall'[c] = AbsCall[c])
                => AbsCall' = [AbsCall EXCEPT ![d] = AbsCall'[d]]
           /\ (\A c \in Cores : c # d => AbsDone'[c] = AbsDone[c])
                => AbsDone' = [AbsDone EXCEPT ![d] = AbsDone'[d]]
  BY DEF AbsUnread, AbsCall, AbsDone

\* A step that moves no index and changes no claim leaves the counts alone.
LEMMA CountsStay ==
    ASSUME head' = head, tail' = tail, \A c \in Cores : Claimed(c)' = Claimed(c)
    PROVE  AbsUnread' = AbsUnread
  BY CountNow, AbsEqual

\* A step within a call that neither starts nor ends it nor gives it effect.
LEMMA StepInside ==
    ASSUME head' = head, tail' = tail, amount' = amount, pc' = pc,
           \A c \in Cores : amount[c] \in pending'[c] <=> amount[c] \in pending[c]
    PROVE  UNCHANGED Counts!vars
<1>1. \A c \in Cores : Claimed(c)' = Claimed(c)
  BY DEF Claimed
<1>2. AbsCall' = AbsCall /\ AbsDone' = AbsDone
  BY AbsEqual DEF AbsCall, AbsDone
<1> QED BY <1>1, <1>2, CountsStay DEF Counts!vars

LEMMA AbsInit == Init => Counts!Init
<1> SUFFICES ASSUME Init PROVE Counts!Init
  OBVIOUS
<1>1. ASSUME NEW c \in Cores PROVE AbsUnread[c] \in 0 .. SIZE - 1
  <2>1. Claimed(c) = 0
    BY PeerIsOther DEF Init, Claimed
  <2>2. head[c] - tail[c] - 0 \in Int
    BY SizeAssumption DEF Init, Slots
  <2> QED BY <2>1, <2>2, Divides DEF AbsUnread, Slots
<1>2. AbsUnread \in [Cores -> 0 .. SIZE - 1]
  BY <1>1 DEF AbsUnread
<1>3. /\ AbsCall = [c \in Cores |-> "none"]
      /\ AbsDone = [c \in Cores |-> FALSE]
  BY DEF Init, AbsCall, AbsDone
<1> QED BY <1>2, <1>3 DEF Init, Counts!Init

\* A call starts, with the length or the max it was given.
LEMMA AbsStart ==
    ASSUME MailboxInv, NEW d \in Cores, NEW to \in {"store", "used"}, NEW n \in Nat,
           Goto(d, "idle", to), amount' = [amount EXCEPT ![d] = n],
           to = "store" => pending' = [pending EXCEPT ![d] = 0 .. n],
           to = "used" => pending' = pending,
           UNCHANGED <<head, tail>>
    PROVE  Counts!Start(d, IF to = "store" THEN "send" ELSE "recv", n)
<1>1. \A c \in Cores : Claimed(c)' = Claimed(c)
  BY PeerIsOther DEF Goto, Claimed, MailboxInv, TypeOK
<1>2. AbsCall' = [AbsCall EXCEPT ![d] = IF to = "store" THEN "send" ELSE "recv"]
  <2>1. \A c \in Cores : c # d => AbsCall'[c] = AbsCall[c]
    BY DEF Goto, AbsCall, MailboxInv, TypeOK
  <2>2. AbsCall'[d] = IF to = "store" THEN "send" ELSE "recv"
    BY DEF Goto, AbsCall, MailboxInv, TypeOK
  <2> QED BY <2>1, <2>2, AbsExcept
<1>3. AbsDone' = AbsDone
  <2>1. ASSUME NEW c \in Cores, c # d PROVE AbsDone'[c] = AbsDone[c]
    BY <2>1 DEF Goto, AbsDone, MailboxInv, TypeOK
  <2>2. AbsDone'[d] = FALSE /\ AbsDone[d] = FALSE
    BY DEF Goto, AbsDone, MailboxInv, TypeOK
  <2> QED BY <2>1, <2>2, AbsEqual
<1>4. AbsCall[d] = "none"
  BY DEF Goto, AbsCall
<1> QED BY <1>1, <1>2, <1>3, <1>4, CountsStay DEF Counts!Start

\* A call ends.
LEMMA AbsReturn ==
    ASSUME MailboxInv, NEW d \in Cores, NEW from \in {"store", "unlock"},
           Goto(d, from, "idle"), from = "store" => pending[d] = {},
           amount' = [amount EXCEPT ![d] = 0], UNCHANGED <<head, tail, pending>>
    PROVE  Counts!Return(d)
<1>1. \A c \in Cores : Claimed(c)' = Claimed(c)
  BY PeerIsOther DEF Goto, Claimed, MailboxInv, TypeOK
<1>2. AbsCall' = [AbsCall EXCEPT ![d] = "none"] /\ AbsCall[d] # "none"
  <2>1. \A c \in Cores : c # d => AbsCall'[c] = AbsCall[c]
    BY DEF Goto, AbsCall, MailboxInv, TypeOK
  <2>2. AbsCall'[d] = "none" /\ AbsCall[d] # "none"
    BY DEF Goto, AbsCall, MailboxInv, TypeOK
  <2> QED BY <2>1, <2>2, AbsExcept
<1>3. AbsDone' = [AbsDone EXCEPT ![d] = FALSE] /\ AbsDone[d]
  <2>1. ASSUME NEW c \in Cores, c # d PROVE AbsDone'[c] = AbsDone[c]
    BY <2>1 DEF Goto, AbsDone, MailboxInv, TypeOK
  <2>2. AbsDone'[d] = FALSE /\ AbsDone[d]
    BY DEF Goto, AbsDone, MailboxInv, TypeOK
  <2> QED BY <2>1, <2>2, AbsExcept
<1> QED BY <1>1, <1>2, <1>3, CountsStay DEF Counts!Return

\* The store of head gives a send its effect.
LEMMA AbsStoreHead ==
    ASSUME MailboxInv, NEW d \in Cores, StoreHead(d) PROVE Counts!Send(d)
<1> USE DEF StoreHead, MailboxInv, TypeOK
<1>1. /\ \A c \in Cores : Claimed(c)' = Claimed(c)
      /\ AbsCall' = AbsCall
  BY AbsEqual DEF Claimed, AbsCall
<1>2. AbsDone' = [AbsDone EXCEPT ![d] = TRUE] /\ ~AbsDone[d]
  <2>1. ASSUME NEW c \in Cores, c # d PROVE AbsDone'[c] = AbsDone[c]
    BY <2>1 DEF AbsDone
  <2>2. AbsDone'[d] = TRUE /\ ~AbsDone[d]
    BY DEF AbsDone
  <2> QED BY <2>1, <2>2, AbsExcept
<1>3. AbsUnread'[d] = (AbsUnread[d] + amount[d]) % SIZE
  <2>1. head'[d] = Behind(head[d], amount[d]) /\ tail'[d] = tail[d]
    OBVIOUS
  <2> QED BY <1>1, <2>1, CountNow, CountSend, ClaimedInRing
<1>4. \A c \in Cores : c # d => AbsUnread'[c] = AbsUnread[c]
  BY <1>1, CountNow
<1>5. AbsUnread' = [AbsUnread EXCEPT ![d] = (@ + amount[d]) % SIZE]
  <2>1. DOMAIN AbsUnread = Cores
    BY DEF AbsUnread
  <2> QED BY <1>3, <1>4, <2>1, AbsExcept
<1>6. AbsCall[d] = "send"
  BY DEF AbsCall
<1> QED BY <1>1, <1>2, <1>5, <1>6 DEF Counts!Send, Counts!Effect

\* Reading head and tail gives a receive its effect.
LEMMA AbsReadUsed ==
    ASSUME MailboxInv, MailboxInv', NEW d \in Cores, ReadUsed(d) PROVE Counts!Recv(d)
<1> DEFINE b == Peer(d)
           n == IF AbsUnread[b] > amount[d] THEN amount[d] ELSE AbsUnread[b]
<1> USE DEF ReadUsed, Goto, MailboxInv, TypeOK
<1>1. b \in Cores /\ b # d /\ Peer(b) = d /\ \A c \in Cores : Peer(c) = d => c = b
  BY PeerIsOther DEF Peer, Cores
<1>2. Claimed(b) = 0 /\ Claimed(b)' = amount'[d]
  BY <1>1 DEF Claimed
<1>3. AbsUnread[b] = Used(b) /\ Used(b) \in Slots
  <2>1. head[b] - tail[b] - 0 = head[b] - tail[b]
    BY <1>1, SizeAssumption DEF Slots
  <2> QED BY <1>1, <1>2, <2>1, CountNow, UsedInRing DEF Count, Used
<1>4. amount' = [amount EXCEPT ![d] = n] /\ n \in Nat /\ n <= AbsUnread[b]
  BY <1>3, SizeAssumption DEF Slots
<1>5. AbsUnread'[b] = AbsUnread[b] - n
  <2>1. AbsUnread[b] = Count(head[b], tail[b], 0) /\ AbsUnread'[b] = Count(head[b], tail[b], n)
    BY <1>1, <1>2, <1>4, CountNow
  <2> HIDE DEF n, b
  <2> QED BY <1>1, <1>4, <2>1, CountClaim
<1>6. ASSUME NEW c \in Cores, c # b PROVE AbsUnread'[c] = AbsUnread[c]
  <2>1. Peer(c) \in Cores /\ Peer(c) # d
    BY <1>1, <1>6, PeerIsOther
  <2>2. Claimed(c)' = Claimed(c)
    BY <2>1 DEF Claimed
  <2> QED BY <2>2, CountNow
<1>7. AbsUnread' = [AbsUnread EXCEPT ![b] = @ - n]
  <2>1. DOMAIN AbsUnread = Cores
    BY DEF AbsUnread
  <2> HIDE DEF b, n
  <2> QED BY <1>1, <1>5, <1>6, <2>1, AbsExcept
<1>8. AbsDone' = [AbsDone EXCEPT ![d] = TRUE] /\ ~AbsDone[d]
  <2>1. ASSUME NEW c \in Cores, c # d PROVE AbsDone'[c] = AbsDone[c]
    BY <2>1 DEF AbsDone
  <2>2. AbsDone'[d] = TRUE /\ ~AbsDone[d]
    BY DEF AbsDone
  <2> QED BY <2>1, <2>2, AbsExcept
<1>9. AbsCall' = AbsCall /\ AbsCall[d] = "recv"
  BY AbsEqual DEF AbsCall
<1> QED BY <1>4, <1>7, <1>8, <1>9 DEF Counts!Recv, Counts!Effect

\* The store of tail gives back what was claimed.
LEMMA AbsStoreTail ==
    ASSUME MailboxInv, NEW d \in Cores, StoreTail(d) PROVE UNCHANGED Counts!vars
<1> DEFINE b == Peer(d)
<1> USE DEF StoreTail, Goto, MailboxInv, TypeOK
<1>1. b \in Cores /\ b # d /\ Peer(b) = d /\ \A c \in Cores : Peer(c) = d => c = b
  BY PeerIsOther DEF Peer, Cores
<1>2. Claimed(b) = amount[d] /\ Claimed(b)' = 0 /\ amount[d] \in Slots
  BY <1>1 DEF Claimed
<1>3. AbsUnread'[b] = AbsUnread[b]
  <2>1. head'[b] = head[b] /\ tail'[b] = Behind(tail[b], amount[d])
    BY <1>1
  <2> QED BY <1>1, <1>2, <2>1, CountNow, CountTail
<1>4. ASSUME NEW c \in Cores, c # b PROVE AbsUnread'[c] = AbsUnread[c]
  <2>1. Peer(c) \in Cores /\ Peer(c) # d
    BY <1>1, <1>4, PeerIsOther
  <2>2. Claimed(c)' = Claimed(c) /\ head'[c] = head[c] /\ tail'[c] = tail[c]
    BY <1>4, <2>1 DEF Claimed
  <2> QED BY <2>2, CountNow
<1>5. AbsCall' = AbsCall /\ AbsDone' = AbsDone
  BY AbsEqual DEF AbsCall, AbsDone
<1> QED BY <1>3, <1>4, <1>5, AbsEqual DEF Counts!vars

\* Every step maps to a step of the counts or to none.
LEMMA AbsNext ==
    ASSUME MailboxInv, MailboxInv', [Next]_vars PROVE [Counts!Next]_(Counts!vars)
<1>1. ASSUME NEW c \in Cores, NEW len \in Lengths, CallSend(c, len)
      PROVE  Counts!Start(c, "send", len)
  <2>1. len \in Nat
    BY LengthsAssumption
  <2>2. Counts!Start(c, IF "store" = "store" THEN "send" ELSE "recv", len)
    BY <1>1, <2>1, AbsStart DEF CallSend
  <2> QED BY <2>2
<1>2. ASSUME NEW c \in Cores, NEW max \in 1 .. MaxRecv, CallRecv(c, max)
      PROVE  Counts!Start(c, "recv", max)
  <2>1. max \in Nat
    BY MaxRecvAssumption
  <2>2. Counts!Start(c, IF "used" = "store" THEN "send" ELSE "recv", max)
    BY <1>2, <2>1, AbsStart DEF CallRecv
  <2> QED BY <2>2
<1>3. ASSUME NEW c \in Cores, SendReturns(c) PROVE Counts!Return(c)
  BY <1>3, AbsReturn DEF SendReturns
<1>4. ASSUME NEW c \in Cores, RecvReturns(c) PROVE Counts!Return(c)
  BY <1>4, AbsReturn DEF RecvReturns
<1>5. ASSUME NEW c \in Cores, NEW i \in pending[c], StoreByte(c, i)
      PROVE  UNCHANGED Counts!vars
  <2>1. \A e \in Cores : amount[e] \in pending'[e] <=> amount[e] \in pending[e]
    BY <1>5 DEF StoreByte, MailboxInv, TypeOK
  <2> QED BY <1>5, <2>1, StepInside DEF StoreByte
<1>6. ASSUME NEW c \in Cores, LoadByte(c) PROVE UNCHANGED Counts!vars
  BY <1>6, StepInside DEF LoadByte
<1>7. CASE UNCHANGED vars
  BY <1>7, StepInside DEF vars
<1> QED BY <1>1, <1>2, <1>3, <1>4, <1>5, <1>6, <1>7, AbsStoreHead, AbsReadUsed, AbsStoreTail
        DEF Next, Send, Recv, Counts!Next

\* Although no lock of theirs keeps the cores apart, the indices count what is
\* sent and taken, for every size of the ring, all lengths, every content of the
\* indices at power-up and every order in which stores are seen.
THEOREM MailboxImplementsCounts == Spec => ImplementsCounts
<1>1. MailboxInv /\ MailboxInv' /\ [Next]_vars => [Counts!Next]_(Counts!vars)
  BY AbsNext
<1> QED BY <1>1, AbsInit, MailboxInit, MailboxStep, PTL
        DEF Spec, ImplementsCounts, Counts!Spec
=============================================================================
