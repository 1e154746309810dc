------------------------------ MODULE MCCores ------------------------------
(****************************************************************************)
(* Four parts of the multi-core and multi-board side of the system that     *)
(* share no state: the mailboxes of the STM32H7, the Wi-Fi of the ESP32-S3, *)
(* the writes of the serial flashes, and a CPU of the PC that waits for a   *)
(* word to change.  unit says which of them a behaviour is about; the       *)
(* others stay in their initial states.                                     *)
(****************************************************************************)
EXTENDS Mailbox

CONSTANTS
    Boards, Strangers, MyMac, SLOTS,        \* WifiLink
    PAGE, FLASH,                            \* FlashPages
    W                                       \* Atomics

VARIABLES
    unit,
    found, staState, at, rx, slots, staCount, excused,
    from, size, addr, len, flashBuf, chip,
    supported, word, expected, armed, waiter

wifiVars    == <<found, staState, at, rx, slots, staCount, excused>>
flashVars   == <<from, size, addr, len, flashBuf, chip>>
atomicsVars == <<supported, word, expected, armed, waiter>>

Wifi  == INSTANCE WifiLink
Flash == INSTANCE FlashPages WITH buf <- flashBuf
Cpu   == INSTANCE Atomics

Units == {"mailbox", "wifi", "flash", "cpu"}

CoresInit ==
    /\ unit \in Units
    /\ Init /\ (unit # "mailbox" => head = tail /\ \A c \in Cores : head[c] = 0)
    /\ Wifi!Init
    /\ Flash!Init /\ (unit # "flash" => from = 0 /\ size = 0)
    /\ Cpu!Init /\ (unit # "cpu" => supported = FALSE)

CoresNext ==
    /\ unit' = unit
    /\ IF unit = "mailbox" THEN Next ELSE UNCHANGED vars
    /\ IF unit = "wifi" THEN Wifi!Next ELSE UNCHANGED wifiVars
    /\ IF unit = "flash" THEN Flash!Next ELSE UNCHANGED flashVars
    /\ IF unit = "cpu" THEN Cpu!Next ELSE UNCHANGED atomicsVars

\* The waiting CPU goes on unless it sleeps.
CoresSpec ==
    /\ CoresInit
    /\ [][CoresNext]_<<unit, vars, wifiVars, flashVars, atomicsVars>>
    /\ WF_atomicsVars(Cpu!Waiting)

\* The types of every part.
CoresTypeOK == TypeOK /\ Wifi!TypeOK /\ Flash!TypeOK /\ Cpu!TypeOK

\* No two stations of the access point are one.
StationsDistinct == Wifi!StationsDistinct

\* A board that thinks it is connected is, or a frame of its was lost or late.
ConnectedOrExcused == Wifi!ConnectedOrExcused

\* A write of the flash sends every byte to its place and nothing elsewhere.
WritesItsRange == Flash!WritesItsRange

\* A CPU that waits for a word to change does not sleep through a change.
WaiterWakes == unit = "cpu" => Cpu!WaiterWakes
=============================================================================
