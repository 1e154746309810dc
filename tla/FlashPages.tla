----------------------------- MODULE FlashPages -----------------------------
(****************************************************************************)
(* The loop that splits a write of a serial flash into PAGE PROGRAM         *)
(* commands: flash_write of the RP2040 (arch/rp2040/flash_qspi.c) and       *)
(* qspi_write of the STM32H7 (arch/stm32h/qspi_flash.c), which differ only  *)
(* in the width of len.  A chip that is sent a command beyond the end of a  *)
(* page wraps to the start of that page.                                    *)
(*                                                                          *)
(* What is modelled is the commands that are sent, not a chip that obeys    *)
(* them: the README says what the code around this loop does to the bus.    *)
(****************************************************************************)
EXTENDS Integers

CONSTANTS
    PAGE,        \* bytes of a page: 256
    FLASH        \* bytes of the chip

VARIABLES
    from, size,  \* the call: addr and len as given
    addr, len,   \* the parameters as the loop moves them
    buf,         \* what buf points at, relative to its start
    chip         \* for each byte of the chip, the byte of buf sent to it: the
                 \* last one, or -1
flashVars == <<from, size, addr, len, buf, chip>>

Addresses == 0 .. FLASH - 1

TypeOK ==
    /\ from \in Addresses /\ size \in 0 .. FLASH
    /\ addr \in 0 .. FLASH /\ len \in 0 .. FLASH
    /\ buf \in 0 .. FLASH
    /\ chip \in [Addresses -> Addresses \cup {-1}]

Init ==
    /\ from \in Addresses /\ size \in 0 .. FLASH - from
    /\ addr = from /\ len = size /\ buf = 0
    /\ chip = [a \in Addresses |-> -1]

PageStart == addr - (addr % PAGE)
\* (As mutated: the place in the page is not looked at.)
ChunkWholePage == IF len < PAGE THEN len ELSE PAGE
Chunk == LET remaining == PAGE - (addr % PAGE)
         IN  IF len < remaining THEN len ELSE remaining

\* flash_page_program: byte i goes to the page's place addr + i, modulo PAGE.
Program ==
    chip' = [a \in Addresses |->
                LET i == (a + PAGE - (addr % PAGE)) % PAGE
                IN  IF a - (a % PAGE) = PageStart /\ i < Chunk THEN buf + i ELSE chip[a]]

Turn ==
    /\ len > 0
    /\ Program
    /\ addr' = addr + Chunk /\ buf' = buf + Chunk /\ len' = len - Chunk
    /\ UNCHANGED <<from, size>>

Next == Turn

----------------------------------------------------------------------------
(* Properties *)

\* Whatever its alignment, a write sends to every byte of its range that byte
\* of the buffer, and to no other byte of the chip anything.
WritesItsRange ==
    len = 0 => \A a \in Addresses :
                  chip[a] = IF a >= from /\ a < from + size THEN a - from ELSE -1

Spec == Init /\ [][Next]_flashVars
=============================================================================
