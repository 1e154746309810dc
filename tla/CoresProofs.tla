---------------------------- MODULE CoresProofs ----------------------------
(****************************************************************************)
(* Theorems about MCCores, the multi-core and multi-board parts together.   *)
(*                                                                          *)
(* Wi-Fi: for every number of boards, of other stations and of slots, the   *)
(* table of wifi_ap.c never holds an address twice, and a board of          *)
(* wifi_sta.c that calls itself connected is associated unless one of its   *)
(* requests came to nothing.  wifi_connect goes by the clock alone.  The    *)
(* invariant says what that is worth: at each of its waits, what the board  *)
(* asked last is still in the receive buffer or has had its effect on the   *)
(* table.                                                                   *)
(*                                                                          *)
(* Flash: for every length of a page, every range and alignment, the        *)
(* commands of a write send each byte to its place.  The chip counts modulo *)
(* its page and the loop in addresses; ProgramsChunk says that they agree.  *)
(*                                                                          *)
(* The mailboxes: their theorems are those of MailboxProofs, which hold of  *)
(* the parts together (CoresIsMailbox).                                     *)
(****************************************************************************)
EXTENDS MCCores, MailboxProofs, FiniteSetTheorems, WellFoundedInduction

----------------------------------------------------------------------------
(* The Wi-Fi of the ESP32-S3 *)

Entries == [mac : Wifi!Macs, state : 0 .. 2]

\* The table of the access point.
TableInv ==
    /\ slots \in [Wifi!Slots -> Entries]
    /\ Wifi!StationsDistinct

\* my_mac is in the table, in state k at least.
Entry(k) == \E i \in Wifi!Slots : slots[i].mac = MyMac /\ slots[i].state >= k

Asked(t) == rx = [type |-> t, src |-> MyMac]

\* What came of the request of a board that waits.
Progress ==
    \A b \in Boards \ excused :
        /\ at[b] \in {"wait", "assoc"} => Asked("auth") \/ Entry(1)
        /\ at[b] = "waitAssoc" => (Asked("assoc") /\ Entry(1)) \/ Entry(2)
        /\ staState[b] = 3 => Entry(2)

BoardTypes ==
    /\ rx \in Wifi!Frames \cup {Wifi!NoFrame}
    /\ staState \in [Boards -> 0 .. 3]
    /\ at \in [Boards -> {"none", "auth", "wait", "assoc", "waitAssoc"}]
    /\ found \in [Boards -> BOOLEAN]

\* A board is connected only between two calls.
BoardInv ==
    /\ BoardTypes
    /\ \A b \in Boards : staState[b] = 3 => at[b] = "none"

\* The inductive invariant.
WifiInv == TableInv /\ BoardInv /\ Progress

\* The number of slots in use is a number.
LEMMA SameCardinality == ASSUME NEW S PROVE Wifi!Cardinality(S) = Cardinality(S)
  BY DEF Wifi!Cardinality, Cardinality

\* The loops of wifi_ap.c find the first slot of those they look for.
LEMMA FirstExists ==
    ASSUME SLOTS \in Nat, NEW S \in SUBSET Wifi!Slots, S # {}
    PROVE  Wifi!FirstOf(S) \in S
<1>1. \E i \in S : \A j \in S : i <= j
  <2>1. S \subseteq Nat
    BY DEF Wifi!Slots
  <2>2. PICK i \in S : \A j \in S : <<j, i>> \notin OpToRel(<, Nat)
    BY <2>1, NatLessThanWellFounded, WFMin
  <2>3. ASSUME NEW j \in S PROVE i <= j
    <3>1. ~(j < i)
      BY <2>1, <2>2 DEF OpToRel
    <3> QED BY <2>1, <3>1
  <2> QED BY <2>3
<1> QED BY <1>1 DEF Wifi!FirstOf

\* The boards that ask are those in a call and those connected.
LEMMA AskingBoards ==
    ASSUME NEW b \in Boards, at[b] # "none" \/ staState[b] = 3
    PROVE  b \in Wifi!Asking(MyMac)
  BY DEF Wifi!Asking

\* A frame of another type or of no type is not the one asked for.
LEMMA FramesDiffer ==
    /\ Wifi!NoFrame # [type |-> "auth", src |-> MyMac]
    /\ Wifi!NoFrame # [type |-> "assoc", src |-> MyMac]
  BY DEF Wifi!NoFrame

\* At power-on the table is empty and no board asks.
LEMMA WifiInit == ASSUME SLOTS \in Nat, Wifi!Init PROVE WifiInv
<1>1. slots \in [Wifi!Slots -> Entries] /\ Wifi!Used = {}
  BY DEF Wifi!Init, Entries, Wifi!Macs, Wifi!Used
<1>2. TableInv
  BY <1>1, FS_EmptySet, SameCardinality DEF Wifi!Init, TableInv, Wifi!StationsDistinct
<1> QED BY <1>2 DEF Wifi!Init, WifiInv, BoardInv, BoardTypes, Progress, Wifi!Frames

\* Steps that leave the table alone keep it.
LEMMA TableIdle ==
    ASSUME TableInv, UNCHANGED Wifi!apVars
    PROVE  TableInv' /\ \A k : Entry(k)' = Entry(k)
  BY DEF TableInv, Wifi!apVars, Wifi!StationsDistinct, Wifi!Used, Entry

\* No step of a board disturbs what another board waits for.
LEMMA BoardKeeps ==
    ASSUME WifiInv, NEW b \in Boards, Wifi!BoardStep(b) PROVE WifiInv'
<1> USE DEF WifiInv
<1>1. UNCHANGED Wifi!apVars
  BY DEF Wifi!BoardStep, Wifi!ScanStart, Wifi!ScanEnd, Wifi!Connect, Wifi!SendAuth,
         Wifi!SendAssoc, Wifi!Send, Wifi!DelayEnds,
         Wifi!Connected, Wifi!Disconnect
<1>2. TableInv' /\ Entry(1)' = Entry(1) /\ Entry(2)' = Entry(2)
  BY <1>1, TableIdle
<1>3. CASE Wifi!ScanStart(b) \/ Wifi!Connect(b) \/ Wifi!Disconnect(b)
           \/ Wifi!ScanEnd(b) \/ Wifi!DelayEnds(b)
  <2>1. /\ rx' = rx /\ found' \in [Boards -> BOOLEAN]
        /\ \A c \in Boards : c # b /\ c \in excused => c \in excused'
    BY <1>3 DEF BoardInv, BoardTypes, Wifi!ScanStart, Wifi!ScanEnd, Wifi!Connect,
           Wifi!DelayEnds, Wifi!Disconnect
  <2>2. \/ at' = at /\ at[b] = "none" /\ \E n \in 0 .. 2 : staState' = [staState EXCEPT ![b] = n]
        \/ at' = [at EXCEPT ![b] = "auth"] /\ staState' = [staState EXCEPT ![b] = 2]
        \/ at' = at /\ staState[b] = 1 /\ staState' = [staState EXCEPT ![b] = 0]
                    /\ excused' = excused
        \/ /\ at[b] = "wait" /\ at' = [at EXCEPT ![b] = "assoc"]
           /\ staState' = staState /\ excused' = excused
    <3>1. CASE Wifi!ScanStart(b) BY <3>1 DEF Wifi!ScanStart
    <3>2. CASE Wifi!Connect(b) BY <3>2 DEF Wifi!Connect
    <3>3. CASE Wifi!Disconnect(b) BY <3>3 DEF Wifi!Disconnect
    <3>4. CASE Wifi!ScanEnd(b) BY <3>4 DEF Wifi!ScanEnd
    <3>5. CASE Wifi!DelayEnds(b) BY <3>5 DEF Wifi!DelayEnds
    <3> QED BY <1>3, <3>1, <3>2, <3>3, <3>4, <3>5
  <2>3. BoardInv' /\ Progress'
    <3>1. CASE at' = at /\ at[b] = "none" /\ \E n \in 0 .. 2 : staState' = [staState EXCEPT ![b] = n]
      BY <1>2, <2>1, <3>1 DEF BoardInv, BoardTypes, Progress, Asked
    <3>2. CASE at' = [at EXCEPT ![b] = "auth"] /\ staState' = [staState EXCEPT ![b] = 2]
      BY <1>2, <2>1, <3>2 DEF BoardInv, BoardTypes, Progress, Asked
    <3>3. CASE at' = at /\ staState[b] = 1 /\ staState' = [staState EXCEPT ![b] = 0]
                       /\ excused' = excused
      BY <1>2, <2>1, <3>3 DEF BoardInv, BoardTypes, Progress, Asked
    <3>4. CASE /\ at[b] = "wait" /\ at' = [at EXCEPT ![b] = "assoc"]
               /\ staState' = staState /\ excused' = excused
      BY <1>2, <2>1, <3>4 DEF BoardInv, BoardTypes, Progress, Asked
    <3> QED BY <2>2, <3>1, <3>2, <3>3, <3>4
  <2> QED BY <1>2, <2>3
<1>4. ASSUME NEW this, NEW to \in {"wait", "waitAssoc"}, NEW t,
             \/ this = "auth" /\ to = "wait" /\ t = "auth"
             \/ this = "assoc" /\ to = "waitAssoc" /\ t = "assoc",
             Wifi!Send(b, this, to, t)
      PROVE  WifiInv'
  <2>1. /\ at[b] = this /\ at'[b] = to /\ this # "none"
        /\ \A c \in Boards : c # b => at'[c] = at[c]
        /\ staState' = staState
    BY <1>4 DEF Wifi!Send, BoardInv, BoardTypes
  <2>2. BoardInv'
    <3>1. rx' \in Wifi!Frames \cup {Wifi!NoFrame} /\ UNCHANGED <<found, staState>>
      BY <1>4 DEF Wifi!Send, Wifi!Received, Wifi!Lost, BoardInv, BoardTypes, Wifi!Frames,
             Wifi!Macs
    <3>2. at' = [at EXCEPT ![b] = to]
      BY <1>4 DEF Wifi!Send
    <3> QED BY <1>4, <2>1, <3>1, <3>2 DEF BoardInv, BoardTypes
  <2>3. CASE Wifi!Lost /\ excused' = excused \cup {b}
    <3>1. Asked("auth")' = Asked("auth") /\ Asked("assoc")' = Asked("assoc")
      BY <2>3 DEF Wifi!Lost, Asked
    <3>2. \A c \in Boards \ excused' : c \in Boards \ excused /\ c # b
      BY <2>3
    <3>3. Progress'
      BY <1>2, <2>1, <3>1, <3>2 DEF Progress
    <3> QED BY <1>2, <2>2, <3>3
  <2>4. CASE Wifi!Received([type |-> t, src |-> MyMac]) /\ excused' = excused
    <3>1. ~Asked("auth") /\ ~Asked("assoc") /\ Asked(t)'
      BY <2>4, FramesDiffer DEF Wifi!Received, Asked
    <3>2. ASSUME NEW c \in Boards \ excused', c # b
          PROVE  /\ at'[c] \in {"wait", "assoc"} => Entry(1)'
                 /\ at'[c] = "waitAssoc" => Entry(2)'
                 /\ staState'[c] = 3 => Entry(2)'
      BY <1>2, <2>1, <2>4, <3>1, <3>2 DEF Progress
    <3>3. staState'[b] # 3
      BY <2>1 DEF BoardInv
    <3>4. b \notin excused => (to = "waitAssoc" => Entry(1)')
      BY <1>2, <1>4, <2>1, <3>1 DEF Progress
    <3>5. to = "wait" => Asked("auth")'
      BY <1>4, <3>1
    <3>6. to = "waitAssoc" => Asked("assoc")'
      BY <1>4, <3>1
    <3>7. ASSUME NEW c \in Boards \ excused'
          PROVE  /\ at'[c] \in {"wait", "assoc"} => Asked("auth")' \/ Entry(1)'
                 /\ at'[c] = "waitAssoc" => (Asked("assoc")' /\ Entry(1)') \/ Entry(2)'
                 /\ staState'[c] = 3 => Entry(2)'
      <4>1. CASE c = b
        BY <1>4, <2>1, <2>4, <3>3, <3>4, <3>5, <3>6, <3>7, <4>1
      <4>2. CASE c # b
        BY <3>2, <3>7, <4>2
      <4> QED BY <4>1, <4>2
    <3> QED BY <1>2, <2>2, <3>7 DEF Progress
  <2> QED BY <1>2, <1>4, <2>2, <2>3, <2>4 DEF Wifi!Send
<1>5. CASE Wifi!Connected(b)
  <2>1. /\ at[b] = "waitAssoc" /\ at'[b] = "none" /\ staState'[b] = 3 /\ rx' = rx
        /\ \A c \in Boards : c # b => at'[c] = at[c] /\ staState'[c] = staState[c]
    BY <1>5 DEF Wifi!Connected, BoardInv, BoardTypes
  <2>2. BoardInv'
    BY <1>5, <2>1 DEF Wifi!Connected, BoardInv, BoardTypes
  <2>3. b \notin excused' => Entry(2) /\ b \notin excused
    <3>1. SUFFICES ASSUME b \notin excused' PROVE Entry(2) /\ b \notin excused
      OBVIOUS
    <3>2. rx = Wifi!NoFrame /\ b \notin excused
      BY <1>5, <3>1 DEF Wifi!Connected
    <3> QED BY <2>1, <3>2, FramesDiffer DEF Progress, Asked
  <2>4. \A c \in Boards : c \notin excused' => c \notin excused
    BY <1>5 DEF Wifi!Connected
  <2>5. Progress'
    BY <1>2, <2>1, <2>3, <2>4 DEF Progress, Asked
  <2> QED BY <1>2, <2>2, <2>5
<1> QED BY <1>3, <1>4, <1>5 DEF Wifi!BoardStep, Wifi!SendAuth, Wifi!SendAssoc

\* A frame of another station can come only when no board's waits to be read.
LEMMA StrangerKeeps ==
    ASSUME WifiInv, NEW mac \in Strangers, Wifi!StrangerSends(mac) PROVE WifiInv'
<1> USE DEF WifiInv
<1>1. TableInv' /\ Entry(1)' = Entry(1) /\ Entry(2)' = Entry(2)
  BY TableIdle DEF Wifi!StrangerSends
<1>2. BoardInv'
  BY DEF Wifi!StrangerSends, Wifi!Received, BoardInv, BoardTypes, Wifi!boardVars,
         Wifi!Frames, Wifi!Macs
<1>3. Progress'
  <2>1. ~Asked("auth") /\ ~Asked("assoc")
    BY FramesDiffer DEF Wifi!StrangerSends, Wifi!Received, Asked
  <2> QED BY <1>1, <2>1 DEF Progress, Wifi!StrangerSends, Wifi!boardVars
<1> QED BY <1>1, <1>2, <1>3

\* find_station looks for a station before add_station takes a free slot, so the
\* table stays without duplicates; a station that finds no slot is excused.
LEMMA AuthKeeps ==
    ASSUME SLOTS \in Nat, TableInv, NEW mac \in Wifi!Macs, Wifi!HandleAuth(mac)
    PROVE  /\ TableInv'
           /\ \A k \in {1, 2} : Entry(k) => Entry(k)'
           /\ mac = MyMac => Entry(1)' \/ Wifi!Asking(MyMac) \subseteq excused'
           /\ excused \subseteq excused'
<1>1. CASE Wifi!FindStation(mac) # {}
  <2>1. UNCHANGED <<Wifi!apVars, excused>>
    BY <1>1 DEF Wifi!HandleAuth
  <2>2. mac = MyMac => Entry(1)
    BY <1>1 DEF Wifi!FindStation, Entry, Wifi!Slots, TableInv, Entries
  <2> QED BY <2>1, <2>2, TableIdle
<1>2. CASE Wifi!FindStation(mac) = {} /\ Wifi!FreeSlots = {}
  <2>1. UNCHANGED Wifi!apVars /\ excused' = excused \cup Wifi!Asking(mac)
    BY <1>2 DEF Wifi!HandleAuth, Wifi!AddStation
  <2> QED BY <2>1, TableIdle
<1>3. CASE Wifi!FindStation(mac) = {} /\ Wifi!FreeSlots # {}
  <2> DEFINE new == Wifi!FirstOf(Wifi!FreeSlots)
  <2>1. /\ slots' = [slots EXCEPT ![new] = [mac |-> mac, state |-> 1]]
        /\ staCount' = staCount + 1 /\ excused' = excused
    BY <1>3 DEF Wifi!HandleAuth, Wifi!AddStation
  <2>2. new \in Wifi!Slots /\ slots[new].state = 0
    <3>1. Wifi!FreeSlots \in SUBSET Wifi!Slots
      BY DEF Wifi!FreeSlots
    <3>2. new \in Wifi!FreeSlots
      BY <1>3, <3>1, FirstExists
    <3> QED BY <3>2 DEF Wifi!FreeSlots
  <2> HIDE DEF new
  <2>3. /\ slots' \in [Wifi!Slots -> Entries]
        /\ slots'[new] = [mac |-> mac, state |-> 1]
        /\ \A i \in Wifi!Slots : i # new => slots'[i] = slots[i]
    BY <2>1, <2>2 DEF TableInv, Entries
  <2>4. Wifi!Used' = Wifi!Used \cup {new} /\ new \notin Wifi!Used
    BY <2>2, <2>3 DEF Wifi!Used
  <2>5. staCount' = Cardinality(Wifi!Used')
    <3>1. IsFiniteSet(Wifi!Used)
      <4>1. IsFiniteSet(Wifi!Slots)
        BY FS_Interval DEF Wifi!Slots
      <4>2. Wifi!Used \in SUBSET Wifi!Slots
        BY DEF Wifi!Used
      <4> QED BY <4>1, <4>2, FS_Subset
    <3> QED BY <2>1, <2>4, <3>1, FS_AddElement, SameCardinality DEF TableInv, Wifi!StationsDistinct
  <2>6. \A i \in Wifi!Used : slots[i].mac # mac
    BY <1>3 DEF Wifi!Used, Wifi!FindStation
  <2>7. \A i, j \in Wifi!Used' : slots'[i].mac = slots'[j].mac => i = j
    BY <2>3, <2>4, <2>6 DEF TableInv, Wifi!StationsDistinct, Wifi!Used
  <2>8. TableInv'
    BY <2>3, <2>5, <2>7, SameCardinality DEF TableInv, Wifi!StationsDistinct
  <2>9. \A k \in {1, 2} : Entry(k) => Entry(k)'
    BY <2>2, <2>3 DEF Entry
  <2>10. mac = MyMac => Entry(1)'
    BY <2>2, <2>3 DEF Entry
  <2> QED BY <2>1, <2>8, <2>9, <2>10
<1> QED BY <1>1, <1>2, <1>3

\* An association request takes the one entry of its station from state 1 to 2.
LEMMA AssocKeeps ==
    ASSUME SLOTS \in Nat, TableInv, NEW mac \in Wifi!Macs, Wifi!HandleAssoc(mac)
    PROVE  /\ TableInv'
           /\ \A k \in {1, 2} : Entry(k) => Entry(k)'
           /\ mac = MyMac /\ Entry(1) => Entry(2)'
           /\ excused' = excused
<1> DEFINE known == Wifi!FindStation(mac)
           it    == Wifi!FirstOf(known)
<1>1. known # {} => it \in Wifi!Slots /\ it \in known
  <2>1. known \in SUBSET Wifi!Slots
    BY DEF Wifi!FindStation
  <2> QED BY <2>1, FirstExists
<1>2. \A i \in known : i \in Wifi!Slots /\ slots[i].mac = mac /\ slots[i].state > 0
  BY DEF Wifi!FindStation
<1>3. \A i, j \in known : i = j
  BY <1>2 DEF TableInv, Wifi!StationsDistinct, Wifi!Used
<1>4. mac = MyMac /\ Entry(1) => known # {}
  BY DEF Entry, Wifi!FindStation, TableInv, Entries, Wifi!Slots
<1>5. CASE known # {} /\ slots[it].state = 1
  <2>1. /\ slots' = [slots EXCEPT ![it].state = 2]
        /\ UNCHANGED <<staCount, excused>>
    BY <1>5 DEF Wifi!HandleAssoc
  <2>2. it \in Wifi!Slots /\ slots[it].mac = mac /\ slots \in [Wifi!Slots -> Entries]
    BY <1>1, <1>2, <1>5 DEF TableInv
  <2> HIDE DEF known, it
  <2>3. /\ slots' \in [Wifi!Slots -> Entries]
        /\ slots'[it].mac = mac /\ slots'[it].state = 2
        /\ \A i \in Wifi!Slots : i # it => slots'[i] = slots[i]
    BY <2>1, <2>2 DEF Entries
  <2>4. Wifi!Used' = Wifi!Used
    BY <1>5, <2>2, <2>3 DEF Wifi!Used
  <2>5. TableInv'
    <3>1. \A i \in Wifi!Slots : slots'[i].mac = slots[i].mac
      BY <2>2, <2>3
    <3>2. \A i \in Wifi!Used : i \in Wifi!Slots
      BY DEF Wifi!Used
    <3> QED BY <2>1, <2>3, <2>4, <3>1, <3>2 DEF TableInv, Wifi!StationsDistinct
  <2>6. \A k \in {1, 2} : Entry(k) => Entry(k)'
    BY <1>5, <2>2, <2>3 DEF Entry
  <2>7. mac = MyMac => Entry(2)'
    BY <2>2, <2>3 DEF Entry
  <2> QED BY <2>1, <2>5, <2>6, <2>7
<1>6. CASE ~(known # {} /\ slots[it].state = 1)
  <2>1. UNCHANGED <<Wifi!apVars, excused>>
    BY <1>6 DEF Wifi!HandleAssoc, Wifi!apVars
  <2>2. ASSUME mac = MyMac, Entry(1) PROVE Entry(2)
    <3>1. it \in Wifi!Slots /\ slots[it].mac = MyMac /\ slots[it].state > 0 /\ slots[it].state # 1
      BY <1>1, <1>2, <1>4, <1>6, <2>2
    <3>2. slots[it].state \in 0 .. 2
      BY <3>1 DEF TableInv, Entries
    <3> HIDE DEF it
    <3> QED BY <3>1, <3>2 DEF Entry
  <2> QED BY <2>1, <2>2, TableIdle
<1> QED BY <1>5, <1>6

\* wifi_ap_task answers the frame in the buffer for whoever waits for it.
LEMMA ApTaskKeeps ==
    ASSUME SLOTS \in Nat, WifiInv, Wifi!ApTask PROVE WifiInv'
<1> USE DEF WifiInv
<1>1. rx \in Wifi!Frames /\ rx.src \in Wifi!Macs /\ rx.type \in {"auth", "assoc"}
  BY DEF Wifi!ApTask, BoardInv, BoardTypes, Wifi!Frames
<1>2. BoardInv'
  BY DEF Wifi!ApTask, BoardInv, BoardTypes, Wifi!boardVars
<1>3. /\ Asked("auth") => rx.type = "auth" /\ rx.src = MyMac
      /\ Asked("assoc") => rx.type = "assoc" /\ rx.src = MyMac
  BY DEF Asked
<1>4. UNCHANGED <<at, staState>>
  BY DEF Wifi!ApTask, Wifi!boardVars
<1>5. CASE rx.type = "auth"
  <2>1. Wifi!HandleAuth(rx.src)
    BY <1>5 DEF Wifi!ApTask
  <2>2. /\ TableInv' /\ (Entry(1) => Entry(1)') /\ (Entry(2) => Entry(2)')
        /\ rx.src = MyMac => Entry(1)' \/ Wifi!Asking(MyMac) \subseteq excused'
        /\ excused \subseteq excused'
    BY <1>1, <2>1, AuthKeeps
  <2>3. ASSUME NEW b \in Boards \ excused'
        PROVE  /\ at[b] \in {"wait", "assoc"} => Entry(1)'
               /\ at[b] = "waitAssoc" => Entry(2)'
               /\ staState[b] = 3 => Entry(2)'
    <3>1. b \in Boards \ excused
      BY <2>2, <2>3
    <3>2. at[b] # "none" => b \in Wifi!Asking(MyMac)
      BY <2>3, AskingBoards
    <3> QED BY <1>3, <1>5, <2>2, <2>3, <3>1, <3>2 DEF Progress
  <2>4. Progress'
    BY <1>4, <2>3 DEF Progress
  <2> QED BY <1>2, <2>2, <2>4
<1>6. CASE rx.type # "auth"
  <2>1. Wifi!HandleAssoc(rx.src)
    BY <1>6 DEF Wifi!ApTask
  <2>2. /\ TableInv' /\ (Entry(1) => Entry(1)') /\ (Entry(2) => Entry(2)')
        /\ rx.src = MyMac /\ Entry(1) => Entry(2)'
        /\ excused' = excused
    BY <1>1, <2>1, AssocKeeps
  <2>3. ASSUME NEW b \in Boards \ excused'
        PROVE  /\ at[b] \in {"wait", "assoc"} => Entry(1)'
               /\ at[b] = "waitAssoc" => Entry(2)'
               /\ staState[b] = 3 => Entry(2)'
    BY <1>3, <1>6, <2>2, <2>3 DEF Progress
  <2>4. Progress'
    BY <1>4, <2>3 DEF Progress
  <2> QED BY <1>2, <2>2, <2>4
<1> QED BY <1>5, <1>6

\* wifi_ap_init empties the table and excuses whoever relied on it.
LEMMA ApInitKeeps == ASSUME SLOTS \in Nat, WifiInv, Wifi!ApInit PROVE WifiInv'
<1> USE DEF WifiInv
<1>1. slots' \in [Wifi!Slots -> Entries] /\ \A i \in Wifi!Slots : slots'[i].state = 0
  BY DEF Wifi!ApInit, TableInv, Entries
<1>2. Wifi!Used' = {}
  BY <1>1 DEF Wifi!Used
<1>3. TableInv'
  BY <1>1, <1>2, FS_EmptySet, SameCardinality DEF Wifi!ApInit, TableInv,
         Wifi!StationsDistinct
<1>4. BoardInv'
  BY DEF Wifi!ApInit, BoardInv, BoardTypes, Wifi!boardVars
<1>5. Progress'
  <2>1. ASSUME NEW b \in Boards \ excused'
        PROVE  at[b] = "none" /\ staState[b] # 3
    BY <2>1, AskingBoards DEF Wifi!ApInit
  <2>2. UNCHANGED <<at, staState>>
    BY DEF Wifi!ApInit, Wifi!boardVars
  <2> QED BY <2>1, <2>2 DEF Progress
<1> QED BY <1>3, <1>4, <1>5

\* What the access point and the boards keep, whichever of them steps.
LEMMA WifiKeeps ==
    ASSUME SLOTS \in Nat, WifiInv, Wifi!Next \/ UNCHANGED wifiVars PROVE WifiInv'
<1>1. CASE UNCHANGED wifiVars
  BY <1>1, TableIdle
  DEF wifiVars, Wifi!apVars, WifiInv, BoardInv, BoardTypes, Progress, Asked
<1> QED BY <1>1, BoardKeeps, StrangerKeeps, ApTaskKeeps, ApInitKeeps DEF Wifi!Next

\* Only boards are excused.
LEMMA ExcusedKeeps ==
    ASSUME excused \subseteq Boards, Wifi!Next \/ UNCHANGED wifiVars
    PROVE  excused' \subseteq Boards
<1>1. ASSUME NEW mac PROVE Wifi!Asking(mac) \subseteq Boards
  BY DEF Wifi!Asking
<1>2. ASSUME NEW b \in Boards, Wifi!BoardStep(b) PROVE excused' \subseteq Boards
  BY <1>2 DEF Wifi!BoardStep, Wifi!ScanStart, Wifi!ScanEnd, Wifi!Connect, Wifi!SendAuth,
     Wifi!SendAssoc, Wifi!Send, Wifi!DelayEnds, Wifi!Connected, Wifi!Disconnect
<1>3. CASE Wifi!ApTask \/ Wifi!ApInit
  BY <1>1, <1>3 DEF Wifi!ApTask, Wifi!ApInit, Wifi!HandleAuth, Wifi!HandleAssoc,
     Wifi!AddStation
<1> QED BY <1>2, <1>3 DEF Wifi!Next, Wifi!StrangerSends, wifiVars

\* sta_count, a byte, has room for the number of slots.
LEMMA CountBound ==
    ASSUME SLOTS \in 0 .. 255, TableInv PROVE staCount \in 0 .. 255
<1>1. IsFiniteSet(Wifi!Slots) /\ Cardinality(Wifi!Slots) <= SLOTS
  BY FS_Interval DEF Wifi!Slots
<1>2. Wifi!Used \in SUBSET Wifi!Slots
  BY DEF Wifi!Used
<1>3. Cardinality(Wifi!Used) \in Nat /\ Cardinality(Wifi!Used) <= Cardinality(Wifi!Slots)
  BY <1>1, <1>2, FS_Subset, FS_CardinalityType
<1>4. Cardinality(Wifi!Slots) \in Nat
  BY <1>1, FS_CardinalityType
<1> QED BY <1>1, <1>3, <1>4, SameCardinality DEF TableInv, Wifi!StationsDistinct

----------------------------------------------------------------------------
(* The serial flash *)

\* At each turn of the loop the bytes before addr are sent, and no others.
FlashInv ==
    /\ from \in Nat /\ size \in Nat /\ from + size <= FLASH /\ from < FLASH
    /\ flashBuf \in 0 .. size
    /\ addr = from + flashBuf /\ len = size - flashBuf
    /\ chip = [a \in Flash!Addresses |-> IF from <= a /\ a < addr THEN a - from ELSE -1]

\* A quotient and a remainder determine the number.
LEMMA Remainder ==
    ASSUME NEW n \in Nat \ {0}, NEW a \in Nat
    PROVE  /\ a % n \in 0 .. n - 1
           /\ a \div n \in Nat
           /\ a = n * (a \div n) + (a % n)
  OBVIOUS

\* Numbers less than n apart, one of them a multiple of n, have that multiple below.
LEMMA SamePage ==
    ASSUME NEW n \in Nat \ {0}, NEW a \in Nat, NEW k \in Nat, NEW r \in 0 .. n - 1,
           a = n * k + r
    PROVE  a % n = r
<1>1. DEFINE q == a \div n
<1>2. q \in Nat /\ a % n \in 0 .. n - 1 /\ a = n * q + (a % n)
  BY Remainder
<1> HIDE DEF q
<1>3. n * q - n * k \in Int /\ n * q - n * k < n /\ n * k - n * q < n
  BY <1>2
<1>4. q = k
  <2>1. CASE q >= k + 1
    <3>1. n * q >= n * (k + 1)
      BY <1>2, <2>1
    <3>2. n * (k + 1) = n * k + n
      BY <1>2
    <3> QED BY <1>2, <1>3, <3>1, <3>2
  <2>2. CASE k >= q + 1
    <3>1. n * k >= n * (q + 1)
      BY <1>2, <2>2
    <3>2. n * (q + 1) = n * q + n
      BY <1>2
    <3> QED BY <1>2, <1>3, <3>1, <3>2
  <2> QED BY <1>2, <2>1, <2>2
<1> QED BY <1>2, <1>4

\* A command stays in the page it starts in, and sends at least a byte.
LEMMA ChunkInPage ==
    ASSUME PAGE \in Nat \ {0}, FlashInv, len > 0
    PROVE  /\ Flash!Chunk \in 1 .. len
           /\ addr \in Nat /\ addr % PAGE \in 0 .. PAGE - 1
           /\ (addr % PAGE) + Flash!Chunk <= PAGE
<1>1. addr \in Nat /\ len \in Nat
  BY DEF FlashInv
<1>2. addr % PAGE \in 0 .. PAGE - 1
  BY <1>1, Remainder
<1> QED BY <1>1, <1>2 DEF Flash!Chunk

\* What a command sends to the chip: n bytes from addr on, although the chip
\* counts in the page and modulo its length.
LEMMA ProgramsChunk ==
    ASSUME PAGE \in Nat \ {0}, FlashInv, len > 0, NEW a \in Nat
    PROVE  LET i == (a + PAGE - (addr % PAGE)) % PAGE
           IN  /\ a - (a % PAGE) = Flash!PageStart /\ i < Flash!Chunk
                    <=> addr <= a /\ a < addr + Flash!Chunk
               /\ addr <= a /\ a < addr + Flash!Chunk => i = a - addr
<1> DEFINE q == addr % PAGE
           p == a % PAGE
           n == Flash!Chunk
           m == a + PAGE - q
           i == m % PAGE
           k == addr \div PAGE
           h == a \div PAGE
<1>1. /\ n \in 1 .. len /\ addr \in Nat /\ q \in 0 .. PAGE - 1 /\ q + n <= PAGE
      /\ k \in Nat /\ addr = PAGE * k + q
  BY ChunkInPage, Remainder
<1>2. p \in 0 .. PAGE - 1 /\ h \in Nat /\ a = PAGE * h + p
  BY Remainder
<1>3. n \in Nat
  BY <1>1 DEF FlashInv
<1>4. Flash!PageStart = addr - q
  BY DEF Flash!PageStart
<1> HIDE DEF q, p, n, k, h
<1>5. ASSUME addr <= a, a < addr + n
      PROVE  a - p = addr - q /\ i = a - addr
  <2>1. a = PAGE * k + (q + (a - addr)) /\ q + (a - addr) \in 0 .. PAGE - 1
    BY <1>1, <1>3, <1>5
  <2>2. p = q + (a - addr)
    BY <1>1, <2>1, SamePage DEF p
  <2>3. /\ m = PAGE * (k + 1) + (a - addr) /\ a - addr \in 0 .. PAGE - 1
        /\ m \in Nat /\ k + 1 \in Nat
    BY <1>1, <1>3, <1>5
  <2> HIDE DEF m
  <2>4. i = a - addr
    BY <2>3, SamePage
  <2> QED BY <1>1, <2>2, <2>4
<1>6. ASSUME a - p = addr - q, i < n
      PROVE  addr <= a /\ a < addr + n
  <2>1. CASE p >= q
    <3>1. /\ m = PAGE * (h + 1) + (p - q) /\ p - q \in 0 .. PAGE - 1
          /\ m \in Nat /\ h + 1 \in Nat
      BY <1>1, <1>2, <2>1
    <3> HIDE DEF m
    <3>2. i = p - q
      BY <3>1, SamePage
    <3> HIDE DEF i
    <3> QED BY <1>1, <1>2, <1>3, <1>6, <2>1, <3>2
  <2>2. CASE p < q
    <3>1. /\ m = PAGE * h + (PAGE + p - q) /\ PAGE + p - q \in 0 .. PAGE - 1
          /\ m \in Nat /\ h \in Nat
      BY <1>1, <1>2, <2>2
    <3> HIDE DEF m
    <3>2. i = PAGE + p - q
      BY <3>1, SamePage
    <3> HIDE DEF i
    <3> QED BY <1>1, <1>2, <1>3, <1>6, <2>2, <3>2
  <2> QED BY <1>1, <1>2, <2>1, <2>2
<1>7. /\ a - p = addr - q /\ i < n <=> addr <= a /\ a < addr + n
      /\ addr <= a /\ a < addr + n => i = a - addr
  <2> HIDE DEF i
  <2> QED BY <1>1, <1>3, <1>5, <1>6
<1> QED BY <1>4, <1>7 DEF q, p, n

\* A turn of the loop.
LEMMA FlashKeeps ==
    ASSUME PAGE \in Nat \ {0}, FLASH \in Nat, FlashInv, Flash!Next \/ UNCHANGED flashVars
    PROVE  FlashInv'
<1>1. CASE UNCHANGED flashVars
  BY <1>1 DEF flashVars, FlashInv
<1>2. CASE Flash!Turn
  <2> DEFINE n == Flash!Chunk
  <2>1. len > 0 /\ Flash!Program /\ UNCHANGED <<from, size>>
        /\ addr' = addr + n /\ flashBuf' = flashBuf + n /\ len' = len - n
    BY <1>2 DEF Flash!Turn
  <2>2. n \in 1 .. len
    BY <2>1, ChunkInPage
  <2> HIDE DEF n
  <2>3. /\ from \in Nat /\ size \in Nat /\ from + size <= FLASH /\ from < FLASH
        /\ flashBuf' \in 0 .. size /\ addr' = from + flashBuf' /\ len' = size - flashBuf'
    BY <2>1, <2>2 DEF FlashInv
  <2>4. ASSUME NEW a \in Flash!Addresses
        PROVE  (LET i == (a + PAGE - (addr % PAGE)) % PAGE
                IN  IF a - (a % PAGE) = Flash!PageStart /\ i < Flash!Chunk
                    THEN flashBuf + i ELSE chip[a])
                 = IF from <= a /\ a < addr' THEN a - from ELSE -1
    <3>1. a \in Nat
      BY DEF Flash!Addresses
    <3>2. chip[a] = IF from <= a /\ a < addr THEN a - from ELSE -1
      BY DEF FlashInv
    <3>3. addr = from + flashBuf /\ from \in Nat /\ flashBuf \in Nat
      BY DEF FlashInv
    <3>4. len \in Nat
      BY DEF FlashInv
    <3> DEFINE i == (a + PAGE - (addr % PAGE)) % PAGE
    <3>5. /\ a - (a % PAGE) = Flash!PageStart /\ i < n <=> addr <= a /\ a < addr + n
          /\ addr <= a /\ a < addr + n => i = a - addr
      BY <2>1, <3>1, ProgramsChunk DEF n
    <3> HIDE DEF i
    <3>6. (IF a - (a % PAGE) = Flash!PageStart /\ i < n THEN flashBuf + i ELSE chip[a])
             = IF from <= a /\ a < addr' THEN a - from ELSE -1
      BY <2>1, <2>2, <3>1, <3>2, <3>3, <3>4, <3>5
    <3> QED BY <3>6 DEF i, n
  <2>5. chip' = [a \in Flash!Addresses |-> IF from <= a /\ a < addr' THEN a - from ELSE -1]
    BY <2>1, <2>4 DEF Flash!Program
  <2> QED BY <2>1, <2>3, <2>5 DEF FlashInv
<1> QED BY <1>1, <1>2 DEF Flash!Next

\* A call gives the loop a range of the chip.
LEMMA FlashInit ==
    ASSUME FLASH \in Nat, Flash!Init PROVE FlashInv
  BY DEF Flash!Init, FlashInv, Flash!Addresses

\* When the loop ends, the range is written.
LEMMA FlashDone ==
    ASSUME FLASH \in Nat, FlashInv PROVE Flash!WritesItsRange /\ Flash!TypeOK
<1>1. Flash!WritesItsRange
  <2>1. SUFFICES ASSUME len = 0, NEW a \in Flash!Addresses
        PROVE  chip[a] = IF a >= from /\ a < from + size THEN a - from ELSE -1
    BY DEF Flash!WritesItsRange
  <2>2. addr = from + size /\ a \in Nat
    BY <2>1 DEF FlashInv, Flash!Addresses
  <2> QED BY <2>1, <2>2 DEF FlashInv
<1>2. Flash!TypeOK
  BY DEF FlashInv, Flash!TypeOK, Flash!Addresses
<1> QED BY <1>1, <1>2

----------------------------------------------------------------------------
(* The CPU that waits for a word, and the parts together *)

\* The word and the value it is compared with keep their width.  (The provers
\* know nothing of ^: that 2 ^ W is a positive number is assumed.)
LEMMA CpuTypes ==
    ASSUME 2 ^ W \in Nat \ {0}
    PROVE  /\ Cpu!Init => Cpu!TypeOK
           /\ Cpu!TypeOK /\ (Cpu!Next \/ UNCHANGED atomicsVars) => Cpu!TypeOK'
<1>1. Cpu!Init => Cpu!TypeOK
  <2>1. \A n \in Nat \ {0} : 0 \in 0 .. n - 1
    OBVIOUS
  <2>2. 0 \in Cpu!Words
    BY <2>1, Zenon DEF Cpu!Words
  <2> QED BY <2>2 DEF Cpu!Init, Cpu!TypeOK
<1>2. Cpu!TypeOK /\ (Cpu!Next \/ UNCHANGED atomicsVars) => Cpu!TypeOK'
  BY DEF Cpu!TypeOK, Cpu!Next, Cpu!Write, Cpu!CallWait, Cpu!Waiting, Cpu!Load, Cpu!Monitor,
         Cpu!Reload, Cpu!Mwait, atomicsVars
<1> QED BY <1>1, <1>2

\* The inductive invariant of all parts.
CoresInv ==
    MailboxInv /\ WifiInv /\ excused \subseteq Boards /\ FlashInv /\ Cpu!TypeOK

\* Whichever part steps, its part of the invariant is kept, and the others do
\* not move: the parts are independent.
THEOREM CoresInvariant ==
    ASSUME SLOTS \in Nat, PAGE \in Nat \ {0}, FLASH \in Nat,
           2 ^ W \in Nat \ {0}
    PROVE  CoresSpec => []CoresInv
<1>1. CoresInit => CoresInv
  BY MailboxInit, WifiInit, FlashInit, CpuTypes DEF CoresInit, CoresInv, Wifi!Init
<1>2. CoresInv /\ [CoresNext]_<<unit, vars, wifiVars, flashVars, atomicsVars>> => CoresInv'
  <2> SUFFICES ASSUME CoresInv,
                      [CoresNext]_<<unit, vars, wifiVars, flashVars, atomicsVars>>
               PROVE  CoresInv'
    OBVIOUS
  <2>1. /\ [Next]_vars
        /\ Wifi!Next \/ UNCHANGED wifiVars
        /\ Flash!Next \/ UNCHANGED flashVars
        /\ Cpu!Next \/ UNCHANGED atomicsVars
    BY DEF CoresNext
  <2> QED BY <2>1, MailboxStep, WifiKeeps, ExcusedKeeps, FlashKeeps, CpuTypes DEF CoresInv
<1> QED BY <1>1, <1>2, PTL DEF CoresSpec

\* The parts together behave as the mailboxes do: what is proved of these holds.
THEOREM CoresIsMailbox == CoresSpec => Spec
<1>1. CoresInit => Init
  BY DEF CoresInit
<1>2. [CoresNext]_<<unit, vars, wifiVars, flashVars, atomicsVars>> => [Next]_vars
  BY DEF CoresNext
<1> QED BY <1>1, <1>2, PTL DEF CoresSpec, Spec

\* The table of wifi_ap.c: whatever is repeated, no address has two entries and
\* sta_count counts the entries.
THEOREM CoresStationsDistinct ==
    ASSUME SLOTS \in Nat, PAGE \in Nat \ {0}, FLASH \in Nat,
           2 ^ W \in Nat \ {0}
    PROVE  CoresSpec => []StationsDistinct
<1>1. CoresInv => StationsDistinct
  BY DEF CoresInv, WifiInv, TableInv, StationsDistinct
<1> QED BY <1>1, CoresInvariant, PTL

\* A board of wifi_sta.c that calls itself connected is associated, or a request of
\* it was lost, late or refused, or the access point started again.
THEOREM CoresConnectedOrExcused ==
    ASSUME SLOTS \in Nat, PAGE \in Nat \ {0}, FLASH \in Nat,
           2 ^ W \in Nat \ {0}
    PROVE  CoresSpec => []ConnectedOrExcused
<1>1. CoresInv => ConnectedOrExcused
  <2> SUFFICES ASSUME WifiInv, NEW b \in Boards \ excused, staState[b] = 3
               PROVE  \E i \in Wifi!Used : slots[i] = [mac |-> MyMac, state |-> 2]
    BY DEF CoresInv, ConnectedOrExcused, Wifi!ConnectedOrExcused
  <2>1. PICK i \in Wifi!Slots : slots[i].mac = MyMac /\ slots[i].state >= 2
    BY DEF WifiInv, Progress, Entry
  <2>2. slots[i] \in Entries
    BY DEF WifiInv, TableInv
  <2>3. slots[i].state = 2 /\ i \in Wifi!Used
    BY <2>1, <2>2 DEF Entries, Wifi!Used
  <2>4. slots[i] = [mac |-> MyMac, state |-> 2]
    BY <2>1, <2>2, <2>3 DEF Entries
  <2> QED BY <2>3, <2>4
<1> QED BY <1>1, CoresInvariant, PTL

\* flash_write and qspi_write send every byte of the range to its place, and
\* nothing elsewhere, for every length of a page, range and alignment.
THEOREM CoresWritesItsRange ==
    ASSUME SLOTS \in Nat, PAGE \in Nat \ {0}, FLASH \in Nat,
           2 ^ W \in Nat \ {0}
    PROVE  CoresSpec => []WritesItsRange
<1>1. CoresInv => WritesItsRange
  BY FlashDone DEF CoresInv, WritesItsRange
<1> QED BY <1>1, CoresInvariant, PTL

\* The variables keep their types and widths; sta_count, a byte, counts the
\* slots it has room for.
THEOREM CoresTypes ==
    ASSUME SLOTS \in 0 .. 255, PAGE \in Nat \ {0}, FLASH \in Nat,
           2 ^ W \in Nat \ {0}
    PROVE  CoresSpec => []CoresTypeOK
<1>1. CoresInv => CoresTypeOK
  <2> SUFFICES ASSUME CoresInv PROVE CoresTypeOK
    OBVIOUS
  <2>1. staCount \in 0 .. 255
    BY CountBound DEF CoresInv, WifiInv
  <2>2. Wifi!TypeOK
    BY <2>1 DEF CoresInv, WifiInv, TableInv, BoardInv, BoardTypes, Entries, Wifi!TypeOK
  <2> QED BY <2>2, FlashDone DEF CoresInv, MailboxInv, CoresTypeOK
<1>2. CoresSpec => []CoresInv
  BY CoresInvariant
<1> QED BY <1>1, <1>2, PTL
=============================================================================
