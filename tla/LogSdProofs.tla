----------------------------- MODULE LogSdProofs -----------------------------
(****************************************************************************)
(* Proofs about the CAN log of module LogSd, for every size of a block and  *)
(* of an entry, on a card of any number of blocks: the buffer is never      *)
(* overrun, and what a session wrote stands where a reader expects it.      *)
(****************************************************************************)
EXTENDS LogSd, TLAPS

\* The entries from the i-th log_can call to the latest are in log_buf in order.
InBuffer(i) == \A j \in i .. logged : log_buf[(j - i) * EntrySize] = <<boots, j>>

\* What log.c's variables say while the node runs.  The block before log_block
\* is the one sd_write is at work on, and is not written yet.
Running ==
    up =>
        /\ boots >= 1
        /\ first[log_block] <= logged + 1
        /\ written \subseteq 1 .. log_block - 1
        /\ writing =>
              /\ log_block > 1
              /\ log_block - 1 \notin written
              /\ first[log_block] = logged + 1
              /\ InBuffer(first[log_block - 1])

LogInv ==
    /\ TypeOK
    /\ writing => up
    /\ Running
    /\ BufferedSinceFlush
    /\ ReleasedAfterWrite
    /\ SessionInPlace

----------------------------------------------------------------------------
\* Entries at different places of the buffer start at different bytes, one
\* entry apart.
LEMMA Apart ==
    ASSUME NEW a \in Nat, NEW b \in Nat
    PROVE  /\ (a + 1) * EntrySize = a * EntrySize + EntrySize
           /\ a * EntrySize \in Nat
           /\ a < b => a * EntrySize < b * EntrySize
  BY SizeAssumption

\* From the call after the n-th up to the n-th there is none.
LEMMA NextCall ==
    ASSUME NEW n \in Nat
    PROVE  n + 1 \in Nat /\ n + 1 <= n + 1 /\ (\A j \in n + 1 .. n : FALSE)
  OBVIOUS

LEMMA InvInit == Init => LogInv
  <1> SUFFICES ASSUME Init PROVE LogInv
    OBVIOUS
  <1>0. writing \in BOOLEAN /\ selected \in BOOLEAN /\ up \in BOOLEAN /\ ~up
    BY DEF Init
  <1>1. TypeOK
    <2>1. /\ log_block = 1 /\ log_idx = 0 /\ log_buf = Blank /\ logged = 0 /\ boots = 0
          /\ card = [b \in Blocks |-> Blank] /\ written = {}
          /\ first = [b \in 1 .. MaxBlock + 1 |-> IF b = 1 THEN 1 ELSE 0]
      BY DEF Init
    <2>2. first \in [1 .. MaxBlock + 1 -> Nat]
      BY <2>1
    <2> QED
      BY <1>0, <2>1, <2>2, SizeAssumption, BoundAssumption DEF TypeOK, Blank
  <1>2. Running /\ BufferedSinceFlush /\ ReleasedAfterWrite /\ SessionInPlace
    BY DEF Init, Running, BufferedSinceFlush, ReleasedAfterWrite, SessionInPlace
  <1> QED
    BY <1>1, <1>2 DEF LogInv, Init

\* Power-on leaves an empty buffer and forgets what was written before.
LEMMA LogInitKeeps == ASSUME LogInv, log_init PROVE LogInv'
  <1> USE SizeAssumption, BoundAssumption
  <1>1. /\ log_block' = 1 /\ log_idx' = 0 /\ log_buf' = Blank
        /\ logged' = 0 /\ written' = {} /\ boots' = boots + 1
        /\ first' = [b \in 1 .. MaxBlock + 1 |-> IF b = 1 THEN 1 ELSE 0]
        /\ card' = card /\ boots < MaxBoots
    BY DEF log_init, StartsFresh
  <1>10. /\ writing' \in BOOLEAN /\ selected' \in BOOLEAN /\ up' \in BOOLEAN
         /\ ~writing' /\ up'
    BY DEF log_init
  <1>2. TypeOK'
    <2>1. first' \in [1 .. MaxBlock + 1 -> Nat]
      BY <1>1
    <2> QED
      BY <1>1, <1>10, <2>1 DEF LogInv, TypeOK, Blank
  <1>3. first'[log_block'] = 1
    BY <1>1
  <1>4. Running' /\ ReleasedAfterWrite' /\ SessionInPlace'
    BY <1>1, <1>10, <1>3 DEF LogInv, TypeOK, Running, ReleasedAfterWrite, SessionInPlace
  <1>5. BufferedSinceFlush'
    BY <1>1, <1>3 DEF BufferedSinceFlush
  <1> QED
    BY <1>10, <1>2, <1>4, <1>5 DEF LogInv

\* log_flush of idx bytes that hold every entry since the flush before: the
\* invariant holds whether or not the card takes the command.
LEMMA FlushKeeps ==
    ASSUME LogInv, up, ~writing, log_block <= MaxBlock,
           NEW idx \in 0 .. SD_BLOCK_SIZE, Flush(idx),
           logged' \in Nat, first[log_block] <= logged' + 1,
           DOMAIN log_buf' = Offsets,
           \A o \in Offsets : log_buf'[o] \in Entries \cup {<<0, 0>>},
           \A j \in first[log_block] .. logged' :
               log_buf'[(j - first[log_block]) * EntrySize] = <<boots, j>>,
           UNCHANGED <<boots, card, written>>, up'
    PROVE  LogInv'
  <1> USE SizeAssumption, BoundAssumption
  <1>1. /\ log_block' = log_block + 1
        /\ first' = [first EXCEPT ![log_block + 1] = logged' + 1]
    BY DEF Flush
  <1>10. /\ writing' \in BOOLEAN /\ selected' \in BOOLEAN /\ up' \in BOOLEAN
         /\ ~writing' => ~selected' /\ log_idx' = 0
         /\ log_idx' = 0 \/ log_idx' = idx
    BY DEF Flush, Command
  <1>2. /\ log_block \in 1 .. MaxBlock /\ first \in [1 .. MaxBlock + 1 -> Nat]
        /\ boots \in 0 .. MaxBoots /\ DOMAIN card = Blocks /\ written \subseteq Blocks
    BY DEF LogInv, TypeOK
  <1>3. /\ first'[log_block'] = logged' + 1
        /\ first'[log_block' - 1] = first[log_block]
        /\ \A b \in 1 .. log_block : first'[b] = first[b]
    BY <1>1, <1>2
  <1>4. TypeOK'
    <2>1. log_block' \in 1 .. MaxBlock + 1 /\ log_idx' \in 0 .. SD_BLOCK_SIZE
      BY <1>1, <1>10, <1>2
    <2>2. first' \in [1 .. MaxBlock + 1 -> Nat]
      <3> DEFINE k == logged' + 1
      <3>1. k \in Nat
        BY NextCall, Zenon
      <3> HIDE DEF k
      <3> QED
        BY <1>1, <1>2, <3>1 DEF k
    <2>3. 0 + EntrySize <= SD_BLOCK_SIZE
      OBVIOUS
    <2> QED
      BY <1>10, <1>2, <2>1, <2>2, <2>3 DEF TypeOK, Blocks, Offsets, Entries
  <1>5. Running'
    <2>1. boots >= 1 /\ written \subseteq 1 .. log_block - 1
      BY DEF LogInv, Running
    <2>3. InBuffer(first[log_block - 1])'
      BY <1>1, <1>2, <1>3 DEF InBuffer
    <2>4. /\ log_block' > 1 /\ log_block' - 1 \notin written'
          /\ written' \subseteq 1 .. log_block' - 1
          /\ first'[log_block'] <= logged' + 1
      BY <1>1, <1>2, <1>3, <2>1
    <2>5. boots' >= 1
      BY <2>1
    <2> QED
      BY <1>3, <2>3, <2>4, <2>5, Zenon DEF Running
  <1>6. BufferedSinceFlush'
    <2>1. (logged' + 1 - first'[log_block']) * EntrySize = 0
      <3>1. logged' + 1 - first'[log_block'] = 0
        BY <1>3
      <3>2. 0 * EntrySize = 0
        OBVIOUS
      <3> QED
        BY <3>1, <3>2
    <2>2. \A j \in first'[log_block'] .. logged' : FALSE
      <3>1. \A j \in logged' + 1 .. logged' : FALSE
        BY NextCall, Zenon
      <3> QED
        BY <1>3, <3>1, Zenon
    <2> QED
      BY <1>10, <2>1, <2>2, Zenon DEF BufferedSinceFlush
  <1>7. ReleasedAfterWrite'
    BY <1>10 DEF ReleasedAfterWrite
  <1>8. SessionInPlace'
    <2>1. \A b \in written : b \in 1 .. log_block /\ b + 1 \in 1 .. log_block
      BY <1>2, SMTT(30) DEF LogInv, Running
    <2> QED
      BY <1>3, <2>1 DEF LogInv, SessionInPlace
  <1> QED
    BY <1>4, <1>5, <1>6, <1>7, <1>8 DEF LogInv

\* The entry log_can adds stands behind the others, and displaces none.
LEMMA CanAppends ==
    ASSUME LogInv, log_can
    PROVE  /\ logged' \in Nat /\ first[log_block] <= logged' + 1
           /\ DOMAIN log_buf' = Offsets
           /\ \A o \in Offsets : log_buf'[o] \in Entries \cup {<<0, 0>>}
           /\ log_idx + EntrySize = (logged' + 1 - first[log_block]) * EntrySize
           /\ \A j \in first[log_block] .. logged' :
                 log_buf'[(j - first[log_block]) * EntrySize] = <<boots, j>>
  <1> USE SizeAssumption, BoundAssumption
  <1> DEFINE f == first[log_block]
             n == logged + 1 - f
  <1>1. /\ up /\ ~writing /\ log_block <= MaxBlock
        /\ logged' = logged + 1
        /\ log_buf' = [log_buf EXCEPT ![log_idx] = <<boots, logged + 1>>]
    BY DEF log_can
  <1>2. /\ logged \in Nat /\ f \in Nat /\ f <= logged + 1 /\ n \in Nat
        /\ boots \in 1 .. MaxBoots /\ log_idx \in Nat
        /\ log_idx + EntrySize <= SD_BLOCK_SIZE /\ log_idx \in Offsets
        /\ DOMAIN log_buf = Offsets
        /\ \A o \in Offsets : log_buf[o] \in Entries \cup {<<0, 0>>}
    BY <1>1 DEF LogInv, TypeOK, Running, Offsets
  <1>3. /\ log_idx = n * EntrySize
        /\ \A j \in f .. logged : log_buf[(j - f) * EntrySize] = <<boots, j>>
    BY <1>1 DEF LogInv, BufferedSinceFlush
  <1>4. DOMAIN log_buf' = Offsets
    BY <1>1, <1>2
  <1>5. \A o \in Offsets : log_buf'[o] \in Entries \cup {<<0, 0>>}
    BY <1>1, <1>2 DEF Entries
  <1>6. log_idx + EntrySize = (logged' + 1 - f) * EntrySize
    <2>1. (n + 1) * EntrySize = n * EntrySize + EntrySize
      BY <1>2, Apart
    <2>2. logged' + 1 - f = n + 1
      BY <1>1, <1>2
    <2> QED
      BY <1>3, <2>1, <2>2
  <1>7. ASSUME NEW j \in f .. logged'
        PROVE  log_buf'[(j - f) * EntrySize] = <<boots, j>>
    <2>1. CASE j = logged + 1
      <3>1. j - f = n
        <4> HIDE DEF f
        <4> QED
          BY <1>2, <2>1
      <3>2. (j - f) * EntrySize = log_idx
        BY <1>3, <3>1
      <3> QED
        BY <1>1, <1>2, <2>1, <3>2
    <2>2. CASE j \in f .. logged
      <3>1. (j - f) \in Nat /\ j - f < n
        BY <1>2, <2>2
      <3>2. (j - f) * EntrySize \in Nat /\ (j - f) * EntrySize < log_idx
        BY <1>2, <1>3, <3>1, Apart
      <3> HIDE DEF n
      <3> DEFINE o == (j - f) * EntrySize
      <3>3. o \in Nat /\ o < log_idx /\ log_buf[o] = <<boots, j>>
        BY <1>3, <2>2, <3>2
      <3> HIDE DEF o
      <3>4. o \in Offsets /\ o # log_idx
        BY <1>2, <3>3 DEF Offsets
      <3>5. log_buf'[o] = log_buf[o]
        BY <1>1, <1>2, <3>4
      <3> QED
        BY <3>3, <3>5 DEF o
    <2> QED
      BY <1>1, <1>2, <1>7, <2>1, <2>2
  <1> QED
    BY <1>1, <1>2, <1>4, <1>5, <1>6, <1>7

LEMMA InvNext == LogInv /\ [Next]_vars => LogInv'
  <1> SUFFICES ASSUME LogInv, [Next]_vars PROVE LogInv'
    OBVIOUS
  <1> USE SizeAssumption, BoundAssumption
  <1>1. CASE log_init
    BY <1>1, LogInitKeeps
  <1>2. CASE log_flush
    <2>1. /\ up /\ ~writing /\ log_block <= MaxBlock /\ logged' = logged
          /\ Flush(log_idx) /\ UNCHANGED <<log_buf, boots, card, written>> /\ up'
      BY <1>2 DEF log_flush
    <2>2. /\ logged \in Nat /\ first[log_block] <= logged + 1
          /\ log_idx \in 0 .. SD_BLOCK_SIZE /\ DOMAIN log_buf = Offsets
          /\ \A o \in Offsets : log_buf[o] \in Entries \cup {<<0, 0>>}
          /\ \A j \in first[log_block] .. logged :
                log_buf[(j - first[log_block]) * EntrySize] = <<boots, j>>
      BY <2>1 DEF LogInv, TypeOK, Running, BufferedSinceFlush
    <2> QED
      BY <2>1, <2>2, FlushKeeps
  <1>3. CASE log_can
    <2> DEFINE idx == log_idx + EntrySize
    <2>1. /\ up /\ ~writing /\ log_block <= MaxBlock
          /\ UNCHANGED <<boots, card, written>> /\ up'
      BY <1>3 DEF log_can
    <2>2. idx \in 0 .. SD_BLOCK_SIZE
      BY <2>1 DEF LogInv, TypeOK
    <2>3. CASE Flush(idx)
      BY <1>3, <2>1, <2>2, <2>3, CanAppends, FlushKeeps
    <2>4. CASE ~FlushDue(idx) /\ log_idx' = idx
               /\ UNCHANGED <<log_block, first, writing, selected>>
      <3>1. TypeOK'
        BY <1>3, <2>1, <2>2, <2>4, CanAppends, SMTT(30) DEF LogInv, TypeOK, FlushDue
      <3>2. Running'
        BY <1>3, <2>1, <2>4, CanAppends DEF LogInv, Running
      <3>3. BufferedSinceFlush'
        BY <1>3, <2>1, <2>4, CanAppends DEF BufferedSinceFlush
      <3>4. ReleasedAfterWrite' /\ SessionInPlace'
        BY <2>1, <2>4 DEF LogInv, ReleasedAfterWrite, SessionInPlace
      <3> QED
        BY <2>1, <2>4, <3>1, <3>2, <3>3, <3>4 DEF LogInv
    <2> QED
      BY <1>3, <2>3, <2>4 DEF log_can
  <1>4. CASE WriteEnds
    <2>0. /\ writing' \in BOOLEAN /\ selected' \in BOOLEAN /\ up' \in BOOLEAN
          /\ writing /\ up /\ up' /\ ~writing' /\ ~selected'
      BY <1>4 DEF WriteEnds, LogInv, TypeOK
    <2>1. /\ log_idx' = 0
          /\ UNCHANGED <<log_block, log_buf, logged, boots, first>>
          /\ \/ /\ card' = [card EXCEPT ![log_block - 1] = log_buf]
                /\ written' = written \cup {log_block - 1}
             \/ UNCHANGED <<card, written>>
      BY <1>4 DEF WriteEnds, LogInv
    <2>2. /\ log_block \in 2 .. MaxBlock + 1 /\ logged \in Nat
          /\ log_block - 1 \in Blocks /\ DOMAIN card = Blocks
          /\ first[log_block] = logged + 1 /\ log_block - 1 \notin written
          /\ written \subseteq 1 .. log_block - 1
      BY <2>0 DEF LogInv, TypeOK, Running, Blocks
    <2>3. TypeOK'
      <3>0. written \subseteq Blocks /\ DOMAIN card = Blocks
        BY DEF LogInv, TypeOK
      <3>1. DOMAIN card' = Blocks /\ written' \subseteq Blocks
        BY <2>1, <2>2, <3>0, Zenon
      <3>3. 0 \in 0 .. SD_BLOCK_SIZE /\ 0 + EntrySize <= SD_BLOCK_SIZE
        OBVIOUS
      <3>2. /\ log_block \in 1 .. MaxBlock + 1 /\ DOMAIN log_buf = Offsets
            /\ \A o \in Offsets : log_buf[o] \in Entries \cup {<<0, 0>>}
            /\ logged \in Nat /\ boots \in 0 .. MaxBoots
            /\ first \in [1 .. MaxBlock + 1 -> Nat]
        BY DEF LogInv, TypeOK
      <3> QED
        BY <2>0, <2>1, <3>1, <3>2, <3>3, Zenon DEF TypeOK, Blocks, Offsets, Entries
    <2>4. Running' /\ ReleasedAfterWrite'
      <3>1. /\ boots >= 1 /\ first[log_block] <= logged + 1
        BY <2>0, <2>2 DEF LogInv, Running
      <3>2. log_block - 1 \in 1 .. log_block - 1
        BY <2>2
      <3>3. written' \subseteq 1 .. log_block - 1
        BY <2>1, <2>2, <3>2, Zenon
      <3> QED
        BY <2>0, <2>1, <3>1, <3>3, Zenon DEF Running, ReleasedAfterWrite
    <2>5. BufferedSinceFlush'
      BY <2>1, <2>2 DEF BufferedSinceFlush
    <2>6. SessionInPlace'
      <3>1. CASE UNCHANGED <<card, written>>
        BY <2>1, <3>1 DEF LogInv, SessionInPlace
      <3>2. CASE /\ card' = [card EXCEPT ![log_block - 1] = log_buf]
                 /\ written' = written \cup {log_block - 1}
        <4>1. ASSUME NEW b \in written PROVE card'[b] = card[b]
          BY <2>2, <3>2, <4>1 DEF LogInv, TypeOK
        <4>2. card'[log_block - 1] = log_buf
          BY <2>2, <3>2
        <4>3. \A j \in first[log_block - 1] .. first[log_block] - 1 :
                 log_buf[(j - first[log_block - 1]) * EntrySize] = <<boots, j>>
          BY <2>0, <2>2 DEF LogInv, Running, InBuffer, TypeOK
        <4>4. (log_block - 1) + 1 = log_block
          BY <2>2
        <4> QED
          BY <2>1, <3>2, <4>1, <4>2, <4>3, <4>4, SMTT(30) DEF LogInv, SessionInPlace
      <3> QED
        BY <2>1, <3>1, <3>2
    <2> QED
      BY <2>0, <2>3, <2>4, <2>5, <2>6 DEF LogInv
  <1>5. CASE PowerFails
    <2>1. /\ up /\ up' = FALSE /\ writing' = FALSE
          /\ card' = [b \in Blocks |->
                        IF writing /\ b = log_block - 1 THEN Torn ELSE card[b]]
          /\ UNCHANGED <<log_block, log_idx, log_buf, selected, logged, boots,
                         first, written>>
      BY <1>5 DEF PowerFails
    <2>2. TypeOK'
      BY <2>1 DEF LogInv, TypeOK
    <2>3. \A b \in written : card'[b] = card[b]
      BY <2>1 DEF LogInv, TypeOK, Running
    <2>4. SessionInPlace'
      BY <2>1, <2>3 DEF LogInv, SessionInPlace
    <2> QED
      BY <2>1, <2>2, <2>4 DEF LogInv, Running, BufferedSinceFlush, ReleasedAfterWrite
  <1>6. CASE UNCHANGED vars
    BY <1>6 DEF LogInv, TypeOK, Running, InBuffer, BufferedSinceFlush,
          ReleasedAfterWrite, SessionInPlace, vars
  <1> QED
    BY <1>1, <1>2, <1>3, <1>4, <1>5, <1>6 DEF Next

\* log_init, log_can, log_flush and sd_write keep LogInv.
THEOREM LogInvariant == Spec => []LogInv
  BY InvInit, InvNext, PTL DEF Spec

\* log_can never writes behind the end of log_buf: whenever it may be called,
\* an entry still fits behind log_idx, whatever the sizes.
THEOREM BufferNeverOverrun == Spec => []TypeOK
  BY LogInvariant, PTL DEF LogInv

\* Every entry logged since the last flush is in log_buf, in order.
THEOREM NothingDropped == Spec => []BufferedSinceFlush
  BY LogInvariant, PTL DEF LogInv

\* sd_write releases the card on every path.
THEOREM CardReleased == Spec => []ReleasedAfterWrite
  BY LogInvariant, PTL DEF LogInv

\* A block written since power-on holds the entries logged between the flush
\* before it and its own, in order, whatever writes failed in between.
THEOREM BlocksInPlace == Spec => []SessionInPlace
  BY LogInvariant, PTL DEF LogInv
=============================================================================
