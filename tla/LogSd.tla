-------------------------------- MODULE LogSd --------------------------------
(****************************************************************************)
(* The CAN log of src/kernel/log.c on the SD card of src/kernel/sd.c, with  *)
(* a card that may refuse a command or a block, and power that may fail at  *)
(* any time, also in the middle of a block.                                 *)
(*                                                                          *)
(* An entry is the number of its log_can call since power-on, paired with   *)
(* the number of the power-on, so that entries of two sessions differ.      *)
(****************************************************************************)
EXTENDS Naturals, FiniteSets

CONSTANTS
    SD_BLOCK_SIZE,   \* bytes of log_buf and of a block
    EntrySize,       \* sizeof(log_entry_t)
    MaxBlock,        \* bound: blocks of the card
    MaxBoots         \* bound: times the node is powered on

ASSUME SizeAssumption ==
    /\ SD_BLOCK_SIZE \in Nat /\ EntrySize \in Nat \ {0}
    /\ EntrySize <= SD_BLOCK_SIZE
ASSUME BoundAssumption == MaxBlock \in Nat \ {0} /\ MaxBoots \in Nat \ {0}

VARIABLES
    log_block,   \* next block to write
    log_idx,     \* bytes of log_buf in use
    log_buf,     \* log_buf by byte offset: the entry that starts there
    writing,     \* inside sd_write, after the data token
    selected,    \* is the card's chip select on?
    logged,      \* log_can calls since power-on
    boots,       \* power-ons so far
    up,          \* is the node powered and past log_init?
    card,        \* block -> what it holds: a copy of log_buf, Blank or Torn
    first,       \* block -> the log_can call its first entry is of (history)
    written      \* blocks whose write succeeded since power-on (history)

vars == <<log_block, log_idx, log_buf, writing, selected, logged, boots, up,
          card, first, written>>

Offsets  == 0 .. SD_BLOCK_SIZE - 1
Blocks   == 1 .. MaxBlock
Entries  == (1 .. MaxBoots) \X Nat
Blank    == [o \in Offsets |-> <<0, 0>>]
Torn     == [o \in Offsets |-> <<0, 1>>]

TypeOK ==
    /\ log_block \in 1 .. MaxBlock + 1
    /\ log_idx \in 0 .. SD_BLOCK_SIZE
    /\ up /\ ~writing => log_idx + EntrySize <= SD_BLOCK_SIZE
    /\ DOMAIN log_buf = Offsets
    /\ \A o \in Offsets : log_buf[o] \in Entries \cup {<<0, 0>>}
    /\ writing \in BOOLEAN /\ selected \in BOOLEAN /\ up \in BOOLEAN
    /\ logged \in Nat
    /\ boots \in 0 .. MaxBoots
    /\ DOMAIN card = Blocks
    /\ first \in [1 .. MaxBlock + 1 -> Nat]
    /\ written \subseteq Blocks

Init ==
    /\ log_block = 1 /\ log_idx = 0 /\ log_buf = Blank
    /\ writing = FALSE /\ selected = FALSE /\ up = FALSE
    /\ logged = 0 /\ boots = 0
    /\ card = [b \in Blocks |-> Blank]
    /\ first = [b \in 1 .. MaxBlock + 1 |-> IF b = 1 THEN 1 ELSE 0]
    /\ written = {}

----------------------------------------------------------------------------
\* Power-on: the C runtime gives log.c's variables their initial values (as
\* mutated: log_idx survives) and log_init runs sd_init.  A card that does not
\* answer GO_IDLE leaves the chip select on.  log_flush finds log_idx = 0 and
\* writes nothing.
StartsWithOldIdx == log_block' = 1 /\ log_buf' = Blank /\ UNCHANGED log_idx
StartsFresh      == log_block' = 1 /\ log_buf' = Blank /\ log_idx' = 0

log_init ==
    /\ ~up
    /\ boots < MaxBoots
    /\ boots' = boots + 1
    /\ up' = TRUE
    /\ StartsFresh
    /\ writing' = FALSE
    /\ selected' \in BOOLEAN
    /\ logged' = 0
    /\ first' = [b \in 1 .. MaxBlock + 1 |-> IF b = 1 THEN 1 ELSE 0]
    /\ written' = {}
    /\ UNCHANGED card

\* sd_write up to the data token: the chip select goes on, and off again when
\* the card refuses the command, the end of this flush.
Command(idx) ==
    \/ writing' = FALSE /\ selected' = FALSE /\ log_idx' = 0
    \/ writing' = TRUE /\ selected' = TRUE /\ log_idx' = idx

\* log_flush with idx bytes in use, before it knows what becomes of the write.
Flush(idx) ==
    /\ log_block' = log_block + 1
    /\ first' = [first EXCEPT ![log_block + 1] = logged' + 1]
    /\ Command(idx)

log_flush ==
    /\ up /\ ~writing
    /\ log_block <= MaxBlock
    /\ log_idx > 0
    /\ UNCHANGED logged
    /\ Flush(log_idx)
    /\ UNCHANGED <<log_buf, boots, up, card, written>>

\* log_can: an entry at log_idx; when no other fits behind it, log_flush.  (As
\* mutated: the test forgets the entry to come.)
FlushDueLate(idx) == idx > SD_BLOCK_SIZE
FlushDue(idx)     == idx + EntrySize > SD_BLOCK_SIZE

log_can ==
    /\ up /\ ~writing
    /\ log_block <= MaxBlock
    /\ logged' = logged + 1
    /\ log_buf' = [log_buf EXCEPT ![log_idx] = <<boots, logged'>>]
    /\ LET idx == log_idx + EntrySize IN
          \/ FlushDue(idx) /\ Flush(idx)
          \/ /\ ~FlushDue(idx)
             /\ log_idx' = idx
             /\ UNCHANGED <<log_block, first, writing, selected>>
    /\ UNCHANGED <<boots, up, card, written>>

\* The end of sd_write: the card takes the block, or turns it down in its data
\* response and stores nothing.  log_flush looks at neither.  (As mutated:
\* log_idx is reset only after a success.)
WriteEndsKeepingIdx ==
    /\ writing
    /\ writing' = FALSE /\ selected' = FALSE
    /\ \/ /\ card' = [card EXCEPT ![log_block - 1] = log_buf]
          /\ written' = written \cup {log_block - 1}
          /\ log_idx' = 0
       \/ UNCHANGED <<card, written, log_idx>>
    /\ UNCHANGED <<log_block, log_buf, logged, boots, up, first>>
WriteEnds ==
    /\ writing
    /\ writing' = FALSE /\ selected' = FALSE
    /\ log_idx' = 0
    /\ \/ /\ card' = [card EXCEPT ![log_block - 1] = log_buf]
          /\ written' = written \cup {log_block - 1}
       \/ UNCHANGED <<card, written>>
    /\ UNCHANGED <<log_block, log_buf, logged, boots, up, first>>

\* Power fails.  A block in transfer is left neither old nor new.
PowerFails ==
    /\ up
    /\ up' = FALSE
    /\ writing' = FALSE
    /\ card' = [b \in Blocks |->
                  IF writing /\ b = log_block - 1 THEN Torn ELSE card[b]]
    /\ UNCHANGED <<log_block, log_idx, log_buf, selected, logged, boots, first,
                   written>>

Next == log_init \/ log_flush \/ log_can \/ WriteEnds \/ PowerFails

Spec == Init /\ [][Next]_vars

----------------------------------------------------------------------------
\* Each block written since power-on starts with the entries logged between
\* the flush before it and its own, in the order of the log_can calls, whatever
\* writes were refused in between: a refused block leaves a gap, never a shift.
SessionInPlace ==
    \A b \in written :
        \A j \in first[b] .. first[b + 1] - 1 :
            card[b][(j - first[b]) * EntrySize] = <<boots, j>>

\* Nothing is lost between the buffer and sd_write: every entry logged after
\* the last flush is in log_buf, below log_idx, and nothing else is.
BufferedSinceFlush ==
    up /\ ~writing =>
        /\ log_idx = (logged + 1 - first[log_block]) * EntrySize
        /\ \A j \in first[log_block] .. logged :
               log_buf[(j - first[log_block]) * EntrySize] = <<boots, j>>

\* sd.c turns the chip select off on every path out of a write: outside a write
\* it is on only before the first one, after a card that failed sd_init.
ReleasedAfterWrite == up /\ ~writing /\ log_block > 1 => ~selected

\* log.c: "append-only ELM log on SD".  A block that holds log entries is never
\* written again.
AppendOnly ==
    [][\A b \in Blocks : card[b] # Blank => card'[b] = card[b]]_vars
=============================================================================
