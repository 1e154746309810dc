------------------------------ MODULE WifiLink ------------------------------
(****************************************************************************)
(* ESP32-S3 boards as stations (arch/esp32s3/wifi_sta.c) and one as access  *)
(* point (wifi_ap.c), with stations of other makes on the same channel.     *)
(*                                                                          *)
(* What the code does and a reader of 802.11 would not expect: every board  *)
(* has the address my_mac; the access point reads the source of a frame and *)
(* never its destination; a station takes the passing of 200 ms for the two *)
(* answers, which it does not read; the access point answers no probe and,  *)
(* its clock being the constant 0, sends no beacon, so that what a scan     *)
(* finds is always another access point; and nothing ever removes a station.*)
(*                                                                          *)
(* External: the radio.  A frame is lost, or waits in the one receive       *)
(* buffer of the access point if that is free; it may come twice.           *)
(****************************************************************************)
EXTENDS Naturals, FiniteSets

CONSTANTS
    Boards,      \* boards that run wifi_sta.c
    Strangers,   \* addresses of other stations
    MyMac,       \* the address my_mac of every board
    SLOTS        \* length of stations[]: 8

Macs   == Strangers \cup {MyMac}
Slots  == 0 .. SLOTS - 1
Frames == [type : {"auth", "assoc"}, src : Macs]
NoFrame == [type |-> "none", src |-> MyMac]

VARIABLES
    found,       \* does the board's scan_results name the network it wants?
    staState,    \* sta_state: 0 idle, 1 scanning, 2 connecting, 3 connected
    at,          \* where the board is in wifi_connect
    rx,          \* the receive buffer of the access point
    slots,       \* stations[]: address and state (0 none, 1 auth, 2 assoc)
    staCount,    \* sta_count
    excused      \* history: boards one of whose requests came to nothing
boardVars == <<found, staState, at>>
apVars    == <<slots, staCount>>
wifiVars  == <<boardVars, rx, apVars, excused>>

TypeOK ==
    /\ found \in [Boards -> BOOLEAN]
    /\ staState \in [Boards -> 0 .. 3]
    /\ at \in [Boards -> {"none", "auth", "wait", "assoc", "waitAssoc"}]
    /\ rx \in Frames \cup {NoFrame}
    /\ slots \in [Slots -> [mac : Macs, state : 0 .. 2]]
    /\ staCount \in 0 .. 255
    /\ excused \subseteq Boards

Init ==
    /\ found = [b \in Boards |-> FALSE]
    /\ staState = [b \in Boards |-> 0]
    /\ at = [b \in Boards |-> "none"]
    /\ rx = NoFrame
    /\ slots = [i \in Slots |-> [mac |-> MyMac, state |-> 0]]
    /\ staCount = 0
    /\ excused = {}

----------------------------------------------------------------------------
(* The radio *)

\* A frame goes out: it is received, or nobody ever gets it.
Received(f) == rx = NoFrame /\ rx' = f
Lost        == UNCHANGED rx

\* The boards that wait for what a frame of this source asks.
Asking(mac) == IF mac = MyMac THEN {b \in Boards : at[b] # "none" \/ staState[b] = 3} ELSE {}

----------------------------------------------------------------------------
(* A board as a station *)

\* wifi_scan_start: the results of the scan before are gone.
ScanStart(b) ==
    /\ at[b] = "none" /\ staState[b] # 1
    /\ staState' = [staState EXCEPT ![b] = 1]
    /\ found' = [found EXCEPT ![b] = FALSE]
    /\ excused' = excused \ {b}
    /\ UNCHANGED <<at, rx, apVars>>

\* It ends with what the access points in range answered.
ScanEnd(b) ==
    /\ staState[b] = 1
    /\ staState' = [staState EXCEPT ![b] = 0]
    /\ \E f \in BOOLEAN : found' = [found EXCEPT ![b] = f]
    /\ UNCHANGED <<at, rx, apVars, excused>>

\* wifi_connect, up to the authentication frame; without a scan result it
\* returns 0.
Connect(b) ==
    /\ at[b] = "none" /\ staState[b] # 1 /\ found[b]
    /\ staState' = [staState EXCEPT ![b] = 2]
    /\ at' = [at EXCEPT ![b] = "auth"]
    /\ excused' = excused \ {b}
    /\ UNCHANGED <<found, rx, apVars>>

\* It sends a frame and lets 100 ms pass.
Send(b, from, to, type) ==
    /\ at[b] = from
    /\ at' = [at EXCEPT ![b] = to]
    /\ \/ Received([type |-> type, src |-> MyMac]) /\ UNCHANGED excused
       \/ Lost /\ excused' = excused \cup {b}
    /\ UNCHANGED <<found, staState, apVars>>
SendAuth(b)  == Send(b, "auth", "wait", "auth")
SendAssoc(b) == Send(b, "assoc", "waitAssoc", "assoc")

\* The delay is over; in time or not, the access point has had its chance.
DelayEnds(b) ==
    /\ at[b] = "wait"
    /\ at' = [at EXCEPT ![b] = "assoc"]
    /\ UNCHANGED <<found, staState, rx, apVars, excused>>

\* sta_state = 3 whatever was answered.  A request still unread then is late.
Connected(b) ==
    /\ at[b] = "waitAssoc"
    /\ at' = [at EXCEPT ![b] = "none"]
    /\ staState' = [staState EXCEPT ![b] = 3]
    /\ excused' = excused \cup (IF rx # NoFrame THEN {b} ELSE {})
    /\ UNCHANGED <<found, rx, apVars>>

\* wifi_disconnect: the frame has zeros for its addresses, and the access
\* point would ignore it anyway.
Disconnect(b) ==
    /\ at[b] = "none" /\ staState[b] # 1
    /\ staState' = [staState EXCEPT ![b] = 0]
    /\ excused' = excused \ {b}
    /\ UNCHANGED <<found, at, rx, apVars>>

\* A station of another make asks, of whichever access point.
StrangerSends(mac) ==
    /\ \E type \in {"auth", "assoc"} : Received([type |-> type, src |-> mac])
    /\ UNCHANGED <<boardVars, apVars, excused>>

----------------------------------------------------------------------------
(* The access point *)

\* find_station.  (As mutated: only associated stations are looked at.)
FindAssociated(mac) == {i \in Slots : slots[i].state > 1 /\ slots[i].mac = mac}
FindStation(mac)    == {i \in Slots : slots[i].state > 0 /\ slots[i].mac = mac}

FreeSlots == {i \in Slots : slots[i].state = 0}
FirstOf(S) == CHOOSE i \in S : \A j \in S : i <= j

\* add_station into the first free slot; with none free the request is dropped.
AddStation(mac) ==
    IF FreeSlots = {}
    THEN /\ excused' = excused \cup Asking(mac)
         /\ UNCHANGED apVars
    ELSE /\ slots' = [slots EXCEPT ![FirstOf(FreeSlots)] = [mac |-> mac, state |-> 1]]
         /\ staCount' = staCount + 1
         /\ UNCHANGED excused

HandleAuth(mac) ==
    IF FindStation(mac) = {} THEN AddStation(mac) ELSE UNCHANGED <<apVars, excused>>

\* Only a station in state 1 becomes associated.  (As mutated: a request that
\* comes again takes the station back.)
HandleAssocToggles(mac) ==
    LET known == FindStation(mac)
    IN  IF known # {}
        THEN /\ slots' = [slots EXCEPT ![FirstOf(known)].state = 3 - @]
             /\ UNCHANGED <<staCount, excused>>
        ELSE UNCHANGED <<apVars, excused>>
HandleAssoc(mac) ==
    LET known == FindStation(mac)
    IN  IF known # {} /\ slots[FirstOf(known)].state = 1
        THEN /\ slots' = [slots EXCEPT ![FirstOf(known)].state = 2]
             /\ UNCHANGED <<staCount, excused>>
        ELSE UNCHANGED <<apVars, excused>>

\* wifi_ap_task reads a frame and handles it; the radio may bring it again.
ApTask ==
    /\ rx # NoFrame
    /\ IF rx.type = "auth" THEN HandleAuth(rx.src) ELSE HandleAssoc(rx.src)
    /\ rx' \in {NoFrame, rx}
    /\ UNCHANGED boardVars

\* wifi_ap_init, at any time: the table is empty and the boards are not told.
ApInit ==
    /\ slots' = [i \in Slots |-> [slots[i] EXCEPT !.state = 0]]
    /\ staCount' = 0
    /\ excused' = excused \cup Asking(MyMac)
    /\ UNCHANGED <<boardVars, rx>>

BoardStep(b) ==
    \/ ScanStart(b) \/ ScanEnd(b) \/ Connect(b) \/ SendAuth(b) \/ DelayEnds(b)
    \/ SendAssoc(b) \/ Connected(b) \/ Disconnect(b)

Next ==
    \/ \E b \in Boards : BoardStep(b)
    \/ \E mac \in Strangers : StrangerSends(mac)
    \/ ApTask
    \/ ApInit

Spec == Init /\ [][Next]_wifiVars

----------------------------------------------------------------------------
(* Properties *)

Used == {i \in Slots : slots[i].state > 0}

\* The table of wifi_ap.c: no address has two entries, and with them two
\* association numbers (the number of an entry is its slot's), however often
\* authentication frames are repeated, and sta_count is the number of entries.
StationsDistinct ==
    /\ \A i, j \in Used : slots[i].mac = slots[j].mac => i = j
    /\ staCount = Cardinality(Used)

\* A board of wifi_sta.c that calls itself connected is associated, unless a
\* request of it was lost, late or refused by a full table, or the access
\* point started again: wifi_connect cannot tell, and these are all the ways.
ConnectedOrExcused ==
    \A b \in Boards :
        staState[b] = 3 => \/ b \in excused
                           \/ \E i \in Used : slots[i] = [mac |-> MyMac, state |-> 2]
=============================================================================
