# BLOOD_KERNEL in TLA+

TLA+ specifications of the parts of BLOOD_KERNEL whose correctness depends on
order: who runs when, what an interrupt finds, what is left behind when a step
fails. Every definition follows the C code, not the documents; where the two
disagree, a run shows it (section 6).

    tlc -workers 2 -config MCSched.cfg MCSched.tla     # any run: module and cfg
    tlapm SchedProofs.tla                              # any module of proofs

`PROJECT.json` lists the runs, the source lines behind each definition, the
hazards and the theorems. Paths below are relative to the repository's root.

## 1. The system

The repository is a small cooperative kernel (`src/kernel`), start-up code for
twelve boards (`arch`), a bootloader (`boot`) and a large collection of x86
drivers (`src/drivers`). There are no processes: C functions share static
variables, and concurrency comes from interrupt handlers, from the tasks of the
scheduler, and from second cores on two boards.

| Part | State it keeps | Operations | Meets others through | What is hard | What makes it correct |
|---|---|---|---|---|---|
| Scheduler, `sched.c`, `main.c`, `context_switch.S` | `task_pool`, `current_task`, `next_pid` | create, yield, exit, start, stack check | `context_switch`; every task calls it | one number for ready and free; slots reused while live; a switch outside `sched.c` | one running slot; the waiting slot becomes current; what runs is what is marked running |
| Message queue, `msg.c`, `spinklock.c` | ring, `head`, `tail`, `count`, `lock` | init, send, recv | called by CAN handler and tasks | interleaving at every access | a bounded FIFO; the lock is given back |
| CAN, `can.c`, `isotp.c` | receive queue, controller FIFO, transmit mailbox | init, send, recv, interrupt handler | interrupt and task share the queue | the handler preempts its own reader; which register it tests and writes | copies in order, none twice, none lost but a refused one; a frame copied once |
| CAN log, `log.c`, `sd.c` | `log_buf`, `log_idx`, `log_block`, the card | init, log, flush, block write | log calls SD calls SPI | refused blocks, power failure | nothing shifts, nothing overruns, old log kept |
| x86 paging, `drivers/paging.c` | bitmap, page tables | map, unmap, alloc range, free range, fault | called by USB, NUMA | running out of frames half way | no frame twice, exact bitmap, disjoint ranges |
| Bootloader, `boot/bootloader.c`, `flash.c` | flash sectors | receive, erase, program, check, jump | ISO-TP, flash registers | power failing between steps | never runs a torn image (not modelled, section 8) |
| Timer, watchdog | `system_ticks` | tick, delay | SysTick interrupt | wrap-around | a delay lasts its time |
| STM32H7 mailbox, `arch/stm32h/ipc_mailbox.c` | two rings in shared SRAM, two locks in each image | send, recv on two cores | shared memory | no lock is shared by the cores; no look for room; stores in any order | the indices count every byte once |
| RP2040 multicore | hardware FIFO, launch state | launch, push, pop | hardware FIFO | waits on status bits | both cores leave their waits (not modelled, section 8) |
| Serial flash, `arch/rp2040/flash_qspi.c`, `arch/stm32h/qspi_flash.c` | the parameters of a write as it is split | write, page by page | QSPI commands | any alignment; a page wraps | every byte of the range, nothing else |
| ESP32-S3 Wi-Fi, `wifi_sta.c`, `wifi_ap.c` | station table, count, link state | scan, connect, leave; authenticate, associate, restart | frames over a radio | lost, late and repeated frames | no station twice; who calls itself connected is, or a frame was lost |
| x86 interrupt path: `pic.c`, `apic.c`, `interrupt_stubs.S`, `idt.c` | masks, `pic_irq_mask`, `apic_enabled`; the 8259s' latches | set-up, entry stub, dispatch, end of interrupt | calls device handlers | requests withdrawn half way, masks left by the BIOS, two controllers, stack layout | the right handler; nothing stays in service, nothing comes in unasked, nothing waits for ever |
| x86 input: `serial.c`, `ps2_kbd.c` | receive rings | init, blocking read, flush, handlers | interrupt and caller share the ring | a handler between two stores of the reader; overflow; line errors | what is read is in order of arrival, what is not is known to be lost |
| x86 transmit ring: `rtl8139.c` | descriptors, `tx_current` | send a frame | the card reads and writes the descriptors | time-outs with the card still behind | one frame for each accepted call, in order |
| x86 floppy and USB: `floppy.c`, `usb_uhci.c` | interrupt flag, DMA buffer; pool, queue head | sector read and write; control transfer | interrupt; bus master | boot stops in the first; the second gives a bus master virtual addresses | a success that is one (not modelled, sections 6 and 8) |
| x86 NUMA, `numa.c` | a free counter per node, policy, mask, current node | alloc, free, set policy, mask, node | paging | counters and pages updated apart | no refusal while memory is there |
| x86 atomics, `atomic.c` | caller's words | store, exchange, fetch-and-op, wait for a change | several cores | test, arm, test again, sleep | no change slept through |
| x86 feature, power, debug, virtualization, security drivers | detection flags, counters, event rings | detect, set register | MSRs, CPUID | little: run once, one core | – |
| UART, console, GPIO, SPI, MPU, ELF, memory detection | none or device registers | polled access | – | little | – |
| Other boards, tools, tests | – | – | – | – | – |

## 2. Modules

| Module | Models | Its state in the code |
|---|---|---|
| `Sched` | the scheduler with its callers and the ARM `context_switch` | `pid`, `state`, `canaryOk`, `fresh` (what the stack behind `sp` holds) are the fields of `task_pool`; `current` is `current_task`; `cpu` is what the processor executes |
| `BoundedFifo` | what `msg.h` promises: calls that take effect in one step | abstract |
| `MsgQueue` | `msg.c` under `spinklock.c`, one action per memory access | `buf`, `head`, `tail`, `count`, `lock`; `pc`, `op`, `msg`, `ret` are the call of each thread |
| `CanNode` | `can.c` and `isotp_recv` over an instance of `MsgQueue` with two contexts | adds `hwFifo`, `txrq`, `rqcp`, the controller; `irq`, where the handler is; `boot`, how far `can_init` is; `shows`, the frame in each copy |
| `LogSd` | `log.c` over `sd_write`, card and power | `log_block`, `log_idx`, `log_buf`; `card` is what the blocks hold |
| `Paging` | `paging.c` after `paging_init` | `used` is the bitmap, `table` the directory, `pte` the tables; `want`, `base`, `done` the locals of `paging_alloc_pages` |
| `ByteCount` | what the indices of a mailbox stand for: counts of bytes between cores | abstract |
| `Mailbox` | `ipc_mailbox.c`, one action per access to the shared memory | `head`, `tail` of each core's `mailbox_t`; `pc`, `amount`, `pending`, `got` the call of each core |
| `WifiLink` | `wifi_sta.c` on several boards, `wifi_ap.c` on one, the radio | `slots` is `stations[]`; `found`, `staState`, `at` the board's side; `rx` the radio's one receive buffer |
| `FlashPages` | the loop of `flash_write` and `qspi_write` | `addr`, `len`, `buf` as the loop moves them; `chip`, what was sent to each byte |
| `Atomics` | `atomic_wait_for_change` against other CPUs' writes | `word`, `expected`; `armed` is the CPU's monitor |
| `X86Input` | `serial.c` or `ps2_kbd.c`: device, handler, blocking reader | `ring`, `rxHead`, `rxTail`, `initialized`; `fifo`, `lineError` the device; `boot`, `isr`, `thread` who is where |
| `Rtl8139` | `rtl8139_send_packet` and the card's descriptors | `tsdOwn`, `tsdLen`, `txCurrent`; `cardNext` is the card's |
| `Numa` | `numa.c` over a pager | `free`, `policy`, `mask`, `current`, `nextNode` |
| `Interrupts` | the way of a line's interrupt from the device to `iret`, and the part of `clock_init` that opens it | `pic_irq_mask`, `apic_enabled`; `imr`, `irr`, `isr` the 8259s' registers, `lint0` the local APIC's entry; `cpu`, `vec`, `irq_no`, `driver` the processor |
| `MCCores`, `MCX86` | the units above, each by itself: they share no state and `unit` says which one a behaviour is about | – |
| `SchedProofs`, `MsgQueueProofs`, `LogSdProofs`, `PagingProofs`, `MailboxProofs`, `CanNodeProofs`, `CoresProofs` (on `MCCores`), `X86Proofs` (on `MCX86`) | theorems | – |
| other `MC...` | instances for TLC | – |

Variables marked "history" record what happened for a property's sake; no
action's guard reads them.

### How the models correspond to the code

**Sched.** Nothing in the build preempts a task: `SysTick_Handler` sets PendSV,
but no vector table installs a handler for it, and `kernel_main` never calls
`timer_init`. So each function of `sched.c` is one action. `task_create` takes
the first slot with state 0, used or not (line 39). `Switch` is the
`context_switch` of `arch/arm/cortex-m`: it makes the stack pointer the OLD
task's `sp`, pops `r0` and `pc` from it, and never uses its second argument
(section 6). `fresh` says whether the two words it pops are still those
`task_create` wrote. Since what then executes is not what `current_task` says,
no guard reads `cpu`: any function of `sched.c` may be called at any time.
`SmashStack` is `test_stack_overflow` of `tests/safety_test.c`.

**MsgQueue.** Program counters follow the statements. `spin_lock` is an atomic
exchange with an inner loop of plain reads; `*msg = buf[tail]`, the index and
`count` are separate steps. A message is copied in one step: the lock, which is
checked, keeps anybody from seeing a half. Memory is sequentially consistent;
the lock's acquire and release barriers justify this for data under it.

**CanNode.** The task and the handler share one core: a task step needs
`irq = "off"`, and the handler may start between any two task steps. The
handler means to look at the receive FIFO and to release it (`RF0R`, offset
0x0C) but both accesses go to offset 0x08, the transmit status register. The
model has the code as it is: the handler acts when the request of transmit
mailbox 0 has completed (`rqcp`), copies whatever the FIFO shows first, clears
that bit, and leaves the FIFO as it was. So the same frame is copied at every
activation, and the properties of the queue are about copies, by the number of
the activation; `shows` says which frame a copy holds. `can_send` is what makes
an activation possible. More of `can_init` misses its register: the bit timing
is written to 0x18, `FA1R` becomes 0, which leaves no filter active, the
interrupt enable register is never written, and bit 21 of `NVIC_ISER1` is
interrupt 53. Whether the processor calls the handler at all is therefore left
open; the properties hold however often and whenever it does. Nothing in the
tree calls `can_init` or `can_send`; the model's task is an application that
does, and then receives through `isotp_recv` as `boot/bootloader.c` does. The
ISO-TP frames the code leaves as TODO are not modelled.

**LogSd.** `log_can`, with the `log_flush` it may end in, is one action up to
the data token, and `WriteEnds` the rest of `sd_write`; power may fail at any
point, also between the two, which tears the block. Nothing in the tree calls
`log_can` or `log_flush`; the model lets an application call them in any order.
The card answers every command, yes or no: the code's waits have no limit, so
a card that stays silent stops the system and there is nothing more to model.
`sizeof(log_entry_t)` is 20 although `log.h` defines `LOG_ENTRY_SIZE` as 32;
the size is a constant here and need not divide the block.

**Paging.** `paging_alloc_pages` goes page by page, because what matters is
where it runs out of frames; nothing else runs meanwhile, but page faults and
frees may come between calls. A page fault is taken only on a heap page that is
not present; any other halts the machine. Two assumptions are the model's:
that the directory and the tables are reachable after `enable_paging` (they lie
at 4 MiB, just outside the 4 MiB `paging_init` maps), and, where `DemandPaging`
is `TRUE`, that somebody calls `paging_handle_page_fault` as
`arch/x86/README.md` describes; nothing does today.

**Mailbox.** Each core is linked into an image of its own, with its own RAM, so
that each has its own `m7_lock` and `m4_lock`: a lock keeps nobody but the
core's own calls out, which come one at a time, and the model has none.
`mbox_send` never calls `mbox_free` (nobody does): a send of any length may
come at any time and overtake `tail`. `ipc_init` only enables an interrupt, so
that head and tail start with what the SRAM holds. The stores of a send, bytes
and `head`, are plain: the other core sees them in any order (`pending`) up to
the release in `spin_unlock`. Under these conditions nothing can be said of the
bytes, which are not modelled; what the indices count can. The loads of a
receive do not change anything and are taken in order; its read of `head` and
`tail` is one step, because only `head` can change meanwhile. The data cache is
never enabled. Nothing in the tree calls the four functions.

**WifiLink.** All boards have the address `my_mac`; the access point reads the
source of a frame and never its destination; a board takes 200 ms for the two
answers, which it does not read. The access point answers no probe and its
clock is the constant 0, so it sends no beacon, and what a scan finds is
always some other access point: `found` is free. Its handling of a frame is
one action, since `wifi_ap_task` is one loop on one core.

**X86Input.** One CPU. The thread's test, `hlt`, read and index update are
steps, the handler's turns of its loop too, and the handler may come between
any two of the thread's. Who calls it is not modelled: as the stub stands,
`irq_handler` calls no driver (section 6). It may be called at any time once
interrupts are on, or never, and nothing in this module is fair. The compiled
code rereads the indices in each turn of the blocking loops (gcc 12, `-m32
-O2`); `ps2_kbd_flush` stores the tail first, which is what the model does.

**Rtl8139.** Transmission only, and only its descriptors. The driver gives the
card the virtual addresses of its buffers, so what the card puts on the wire is
not the packet (section 6); which descriptor is handed over, when and with
which length does not depend on that, and the copy of the packet is left out.
The card works through the descriptors at its own pace and may stop for good.

**Numa.** Sizes are pages. `numa_free` credits every node, as in
the code; `numa_set_current_node` may choose any node (nothing in the tree
calls it). The pager is external and may find no contiguous run.

**Interrupts.** Devices raise and withdraw requests at any moment, from before
`pic_init` on; the stub and `irq_handler` run with interrupts disabled, so a
handler is not interrupted but meets whatever happened since. The 8259s are
external: edge triggered, fully nested, lines 8 to 15 behind line 2; a request
that is gone when it is acknowledged comes in as 7 or 15. The argument of
`irq_handler` is what the stub left on top of the stack, as the code has it.
Where `waits` is true boot waits as `floppy_reset` does, and never gets further
(section 6); where it is false boot goes on, so that what comes after can be
looked at. A machine without ACPI tables ("pic") is taken to have its 8259s
reach the processor, as firmware leaves it; on the others the properties except
what section 6 says of them. That the local APIC's page is mapped when
`apic_init` writes to it is assumed.

**FlashPages** is the loop and the commands it sends; **Atomics** is the wait
loop with MONITOR/MWAIT or without, any other CPU writing at any time.

## 3. Runs that pass

| Run | Question | Bounds, and why they are enough |
|---|---|---|
| `sched` (1 079 states) | Does any sequence of calls mark two slots running or pass over the one that waits, and what does the processor execute then? | 4 slots, 5 creates: the pool would allow 4 tasks, so `TwoSlots` is not the pool's size; 5 creates overwrite each of the two reachable slots in every state |
| `msgq` (50 618) | Does the ring implement a FIFO for threads that interleave at every access? | 3 threads, so two can wait while one holds the lock; 2 slots: empty, half, full and both wraps; 2 messages tell order |
| `can` (35 082) | Does preemption at every access lose, repeat or reorder a copy in the queue? | 6 copies over a queue of 2: it fills, refuses and wraps; a FIFO of 1 and 2 frames: one is shown, one is lost, and one is not for `isotp_recv`'s caller |
| `storage` (54 781) | Do refused blocks and power failures shift or overrun the log? | 3 blocks of 3 entries with 2 bytes left over, 2 power-ons |
| `paging` (12 476) | Do allocation, free, faults and failures keep frames and ranges exact? | 5 free frames, 4 heap pages, 3 pages per table: frames run out at a page, at a table and mid-range, and ranges cross a table |
| `cores` (297 453) | Mailboxes, Wi-Fi, flash writes, MWAIT: does the order of the accesses of several cores or boards matter? | 2 cores, rings of 4 from any indices, messages of 1 and 3 bytes: wrapped, overtaken (3 and 1 and 1), and both directions at once; receives of 1 and 2, less than what there is; 2 boards and 2 other stations for a table of 2; pages of 4 in a chip of 11 bytes, every start and length, the last page incomplete; words of 2 bits |
| `x86` (423 177) | Input, network, NUMA, interrupts: does a handler or a late device lose, repeat, reorder or strand anything? | ring of 3 and device FIFO of 2 for 5 bytes, so both overflow and the ring wraps; 3 descriptors for 6 frames, each reused; nodes of 2, 1 and 1 pages, one out of reach; the timer (first), the floppy (first controller), the clock (second controller) and the mouse (not enabled), with all lines masked by the BIOS or some open |

Properties, by run:

- `sched`: `TypeOK`; `OneRunning` (a slot marked running that is not current
  would never run again); `TwoSlots` (a consequence of line 39 nobody states: a
  pool of any size holds two tasks); `YieldTurnsToWaiting` (each yield and exit
  makes the slot of the task that waits current, whatever the caller marked
  itself); `SwitchMissesCurrent` (and none of them makes the processor execute
  that task).
- `msgq`: `TypeOK`, `MutualExclusion`, `RingConsistent` (the redundant fields,
  mid-call as well), `ImplementsFifo` (refinement of `BoundedFifo`),
  `LockReleased` (liveness, on the early returns too).
- `can`: `TypeOK`, `CopiesInOrder`, `EveryCopyAccounted` (each copy is in exactly
  one place, at every instant), `RefusedOnlyWhenFull`.
- `storage`: `TypeOK` (with the room `log_can` relies on), `SessionInPlace`
  (a refused block leaves a gap and moves nothing), `BufferedSinceFlush`
  (what was logged and not flushed is in the buffer, in order). That the chip
  select goes off on every path is proved (`CardReleased`, section 5).
- `paging`: `TypeOK`, `NoFrameTwice`, `FramesAccounted` (the bitmap is exact),
  `RangesExclusive` (ranges are mapped and disjoint unless a map failed),
  `FailureUndone` (a failed allocation leaves no trace).
- `cores`: `CoresTypeOK`; `ImplementsCounts` (refinement of `ByteCount`: each call
  of the mailboxes takes effect at one instant, and all that was sent and not
  received is counted, modulo the ring's size);
  `StationsDistinct` (no address has two entries, whatever is
  repeated, and `sta_count` counts them); `ConnectedOrExcused` (all the ways in
  which a board can be wrong about being connected); `WritesItsRange` (to the
  byte, for every alignment); `WaiterWakes` (liveness: a change that stays is
  not slept through).
- `x86`: `TypeOK` (with the ring's indices); `InputInOrder` (what was read, waits
  in the ring and waits in the device is in order, and all else is known to be
  lost); `FramesInOrder` (the card sends one frame for each accepted call, in
  order, also after a time-out); `RefusedWhenFull` (NUMA
  counters may drift upwards, never downwards); `InService` (a line is in
  service only if `clock_init` enabled it, though `pic_irq_mask` and the
  controllers disagree until each has been written once, and only while a
  handler runs, also after a request that was withdrawn before it was
  acknowledged: the end of interrupt then finds nothing, or the cascade, and
  must end just that); `RequestsServed` (liveness, across both controllers).
  The handler sends both ends of interrupt for every line, because its argument
  is never below 8; the run shows that this does no harm. A device of
  `Interrupts` raises its line again only after the processor was idle once:
  one that is faster than the processor shuts out lower lines by priority
  alone.

Deadlock is checked but where the system may stop: a CAN node with no more
frames (the interrupt stuck behind the lock, see below, stops it too), a log at
the end of its card, and the units of `cores` and `x86`, which end with their
inputs, frames or, for a flash write, their loop.

`excused` of `WifiLink` is a history variable that names an exception. A board is excused
from `ConnectedOrExcused` only when a request of its came to nothing, so that
the property still says that nothing else breaks it.

Each property is paired in `PROJECT.json` with a changed definition (such as
`MoveHeadOnly`, `CleanedUpShort`) that makes TLC find it violated; they stand
next to the definition they replace and no specification uses them.

## 4. Fairness

- `msgq`: weak fairness of each thread's steps inside a call: threads run on
  cores of their own or are scheduled again. No fairness of lock acquisition
  is assumed, so `LockReleased` is about release, not about getting a turn.
- `can_lock_free`: weak fairness of the task's and of the handler's steps: the
  core executes. The counterexample needs it: the handler goes on spinning.
- `cores`: weak fairness of the steps of `atomic_wait_for_change`: a CPU that
  does not sleep goes on. Nothing is assumed of the writers.
- `x86`: for the interrupt path, weak fairness of the steps of `clock_init`, of
  the processor and of its idle moments: there is one processor, and interrupts
  are disabled while a handler runs. The devices raise their lines when they
  like. Nothing else is fair. In particular no timer tick and no call of a
  driver's handler is: the code guarantees neither (section 6).
- `sched`, `can`, `storage`, `paging`: none. Their properties are about safety. A
  cooperative scheduler promises nothing to tasks whose peers do not yield, and
  the tasks of `main.c` never do, so that "Round-robin + preemption"
  (`docs/safety_manual.md:26`) is stated per call (`YieldTurnsToWaiting`).

## 5. Proofs

TLAPS checks the following for every value of the constants, under the named
assumptions of the modules (`MAX_TASKS >= 2`, `DEPTH >= 1`, `1 <= NKernel <=
NFrames` and so on) and those a theorem names itself (the sizes in
`CoresProofs`); no other assumption is used.

**SchedProofs.** `TypeCorrect`, `OneRunningAlways`, `AtMostTwoTasks`,
`YieldsTurnToWaiting`, `NextTaskNeverRuns`. The inductive invariant is `SchedInv`:
the state properties, `PidsDistinct` (used slots have different pids, drawn
before `next_pid`) and `OneBeforeStart` (with no current task all creates land in
slot 0). `TwoSlots` follows from `OneRunning`: of slots 0 and 1 at most one is
running, so the scan of `task_create` stops at one of them. With two slots a
yield has one other task to find, and finds it. `NextTaskNeverRuns` needs
`PidsDistinct`: what executes is the task that was left, or nothing of the pool,
and never the one that became current.

**MsgQueueProofs.** `QueueTypes`, `LockExcludes`, `RingStaysConsistent`,
`RingImplementsFifo`. `QueueInv` adds to the properties `CallsWellFormed` (what
a thread carries at each program point) and `RoomInside` (a thread past the
bound test still has its room, because only the lock's holder changes
`count`). In the refinement a send takes effect when `count` is raised, a
receive when `tail` moves, a refusal at the bound test; every other step is a
stutter. The lemmas about `Behind` and `Ring` say how the window of the ring
moves.

**LogSdProofs.** `BufferNeverOverrun`, `NothingDropped`, `CardReleased`,
`BlocksInPlace`, for every size of a block and of an entry that fits in one.
`LogInv` adds to the properties `Running`, which says what `log_flush` leaves
`sd_write` to work on: the block before `log_block` is not yet written, and
`log_buf` holds everything logged since the flush before. `SessionInPlace` by
itself does not say that of a block whose write has still to end.

**PagingProofs.** `PagingTypes`, `FramesNeverShared`, `BitmapExact`,
`FailedAllocUndone`, `RangesStayExclusive`. `NoFrameTwice` and
`FramesAccounted` need each other, a frame is free to take because the bitmap
is exact and the bitmap stays exact because no page is mapped over, and both
need `InProgress`: the range a call works on was unmapped when it began. The
lemmas `MapKeeps` and `UnmapKeeps` treat `paging_map_page` and
`paging_unmap_page` once for all their callers. `Exclusive` extends
`RangesExclusive` to the range being handed out.

**MailboxProofs.** `MailboxInvariant`, `MailboxTypeOK` and
`MailboxImplementsCounts`, for every ring size, every set of lengths, and
wherever the indices start. Each index has one writer, so that the invariant
is small: types, and a receive in progress never copies more than a ring. What
there is to show is arithmetic, from the definition of quotient and remainder
(`RemainderIs`, `AddRemainder`, `SubtractRemainder`): `CountSend`, `CountClaim`
and `CountTail` say that indices kept modulo the ring's size count modulo that
size, through a receive that adds to `tail` what it read several steps ago.
`AbsStoreHead` and `AbsReadUsed` are the two steps in which a call takes effect;
`AbsStoreTail` shows that the last store of a receive leaves the count alone,
because the bytes were claimed before.

**CanNodeProofs.** `CanTypes`, `CanCopiesInOrder`, `CanAccountsForCopies`,
`CanRefusesOnlyWhenFull`. The accesses of `msg.c` are not looked at again: the
refinement proved in `MsgQueueProofs`, instantiated for the two contexts, says
what a step means for the contents of the queue, and the rest of the proof is
about contents. The inductive invariant `CanInv` says where each copy is
(`EachInItsPlace`, with `Places` for the order consumed < task's hands < queue <
handler's hands), that the queue increases, that what was delivered is some of
what was consumed, in order (`Handover`), that the handler sends the copy it
made last (`HandlerAtWork`), and that nothing has used the queue before
`can_init` has emptied it (`QuietBoot`: the handler does not act before a
transmission, and there is none).

**CoresProofs.** The specification the run `cores` checks, all parts together:
`CoresTypes`, `CoresStationsDistinct`, `CoresConnectedOrExcused`,
`CoresWritesItsRange`, and `CoresIsMailbox`, by which the theorems of
`MailboxProofs` hold of it too. `CoresInv` is the conjunction of the parts'
invariants. That of the Wi-Fi has `Progress`: `wifi_connect` goes by the clock,
and at each of its waits the frame it sent last is still in the receive buffer,
or has had its effect, or the board is excused. That an association finds the
right entry needs `StationsDistinct`. The flash loop is about remainders: its
invariant says what has been sent so far, and `ProgramsChunk` that a chunk
never wraps in the chip's page, for every length of a page. The theorems assume
a table, a chip and a page with sizes, and that `2 ^ W`, the words of
`Atomics`, is a positive number (the prover knows nothing of powers);
`CoresTypes` also a table of at most 255 slots, since `sta_count` is a byte
(the code has 8).

**X86Proofs.** All safety properties of the run `x86`, under `X86Assumption`
(sizes are numbers, those of the ring, the descriptors and the nodes not 0; a
node's memory is within the counters' bound, distances are bytes as in
`numa.c`, and the lines are those of two 8259s): `X86TypeOK`, `X86InputInOrder`,
`X86FramesInOrder`, `X86RefusedWhenFull`, `X86InService`. `X86Inv` is the conjunction
of four invariants, one for each part:

- `InpInv`, input. Every byte is in one of four places: read, in the ring and
  not read, in the device, lost (`PlaceInv`). The ring's indices alone do not
  say what is unread. `serial_getc` passes a byte on before it moves the tail,
  and between the two stores of `ps2_kbd_flush` the window holds slots whose
  bytes were read long ago; `Unread` counts a slot only if its byte was not
  read, and every slot, stale ones included, is older than what the device
  holds. Outside the two stores the window is in order as well (`RingInv`).
  Before interrupts are on nobody has touched the ring (`QuietBoot`).
- `RtlInv`, network. Neither side has a count. `TxWindow` supplies it: the card
  owns the descriptors from the one it comes to next up to `tx_current`, one
  for each call accepted and not yet served, and they hold these calls in order.
- `MemInv`, NUMA. A node's counter and what is charged to it are together never
  less than its memory. What is charged is a sum, computed by the recursive
  function inside `SumFunctionOnSet`. `SumExists` shows that this function
  exists and `SumChange` what one term does to the sum; they argue by a least
  counterexample, which needs no induction theorem. Memory and distances of
  the nodes are arbitrary.
- `IrqInv`, interrupts. From the acknowledgement on at most one line of each
  8259 is in service (`OneEach`), so that the two unspecific ends of interrupt
  end just these; and both masks are the driver's from the seventh call of
  `pic_enable_irq` on, before any interrupt is accepted (`MaskInv`), whatever
  masks the BIOS left.

`X86BootStops` is about two defects of section 6: no driver's handler is ever
called, and a boot that waits for the floppy's never ends.

Only model-checked: the three liveness properties (`LockReleased`, `WaiterWakes`,
`RequestsServed`: the prover has no support for fairness and ENABLED), and the
violations of section 6. Every other property of the passing runs is the subject
of a theorem. RECURSIVE operators are out of the prover's reach; no module needs
one.

## 6. Where the code and its documents disagree

In five runs TLC finds the documented property violated.

- `sched_ready_lost` / `ReadyKeepsSlot`. `sched.h:21` calls state 0 "ready",
  `task_create` calls it free. The three creates of `kernel_main` land in
  slot 0 and only the last task is left.
- `can_lock_free` / `HandlerReturns`. `msg.c:2` says lock-free; the handler
  spins on the lock its own task holds, for ever.
- `can_release` / `EachFrameOnce`. `can.c:117` says "release FIFO"; the store goes
  to the transmit status register, and the same frame is delivered again.
- `log_append_only` / `AppendOnly`. `log.c:2` says append-only; after a reset
  the log starts over at block 1.
- `paging_owners` / `OwnersDisjoint`. The unlooked-at failure of
  `paging_map_page` leaves a hole in a range, and the hole is handed out again.

Of two more a theorem says that the opposite of what is documented always holds.

- "load new sp", `context_switch.S:16`; "Switching to first task", `sched.c:97`. The
  routine overwrites `r1`, its second argument, at line 13 before it used it.
  The first switch from a task enters that task anew, later ones go where its
  frames happen to point, and the one of `sched_start`, with no old task, takes
  the vector table for a stack and stores behind the end of RAM. No switch starts
  the task that became current (`NextTaskNeverRuns`).
- "Handle specific IRQs", `idt.c:205`. `irq_common_stub` pushes `ds` on top of the
  number of the line (`interrupt_stubs.S:103`): `irq_handler` gets 16 or more,
  and no driver's handler runs. What it pushed before is 32 to 47, where the
  cases are 0 to 15. And `floppy_init` waits for its handler before `clock_init`
  enables interrupts (`main_weak.c:312`, `348`): boot stops there, the behaviours
  of `Interrupts` with `waits` (`X86BootStops`).

Seen while reading, and not the subject of a run: `wdog_init` and
`wdog_refresh` have no caller, though `docs/safety_manual.md:13` relies on
them; the CRC and the redundant blocks of `safety_manual.md:16,24` do not
exist, `sd.c` sends dummy CRC bytes; after a canary fails the task is set to
0, ready (`safety_manual.md:37` expects a HardFault); the bootloader never calls
`can_init` or `timer_init`. Further:

- `can_init` enables its interrupt (`can.c:63`) before `msg_init` empties the
  queue (`can.c:65`). A handler that looked at the receive FIFO, as it means to,
  would break the ring with an early frame; the one there is does not act
  before a transmission has completed.
- "lock-free", `ipc_mailbox.c:3`: both sides spin on locks, which exclude nothing
  between the cores, and the stores of bytes and `head` are plain: a receiver may
  see `head` before the bytes, and a send that does not fit overwrites what is
  being read. The notification writes bits 55 and 56 of a 32-bit register, so no
  core is interrupted.
- Bus masters read physical memory. `usb_uhci.c` (183-189, 292-312) and `rtl8139.c`
  (178-185) give them the addresses `paging_alloc_pages` returns, which start at
  0xD0000000 (`paging.c:211`); `paging_get_physical_addr` is used inside
  `paging_alloc_pages` only. No USB transfer is ever executed and no packet goes out
  as it was given.
- "Wait for completion", `usb_uhci.c:314`: the result looks at the error bits and
  not at the active bit, so that a transfer that ran out of polls, as all do,
  returns 1. The wait itself is compiled to nothing by gcc `-O2`, since neither
  descriptor nor queue head is volatile.
- `arch/x86/README.md:113` has interrupts routed through the 8259s. With a local
  APIC, `irq_handler` sends the end of interrupt to the APIC only (`idt.c:244`),
  which has nothing in service for an ExtINT: the first line served shuts out
  itself and all below it. With x2APIC LINT0 is masked (`x2apic.c:159`) and the
  8259s do not reach the processor at all. `InService` excepts the one,
  `RequestsServed` both; without the exceptions TLC finds them violated.
- The handler of a serial line error returns without reading the data that came
  with it (`serial.c:306`): that byte waits for the next one's edge, which never
  comes while it is unread.
- `wifi_ap.c:22` holds the constant `0xAP`, which does not compile. The access
  point answers no probe, sends no beacon (its clock is the constant 0) and
  ignores what a station that leaves sends, so an entry stays until
  `wifi_ap_init`.
- `numa_free` credits every node (`numa.c:329`): the counters drift upwards. No
  caller sets `current_node`, so that node 0 is always the local one.

## 7. Plan

Done: scheduler with its context switch, queue, CAN, log, paging; mailboxes,
Wi-Fi, serial flashes, MWAIT; serial and keyboard input, RTL8139 transmission,
NUMA; the interrupt path of the PC; the safety properties of all of these
proved.

Left: a pager of frames under `Numa`, so that its counters can be compared with
`Paging`'s bitmap; the context switch of the other architectures.

## 8. Not modelled, and why

Bit timing, baud rates and formatting: no property here could tell them apart.
Register addresses matter where the code gets them wrong; `CanNode` follows those
the code uses. Of the assembly, `context_switch.S` for ARM and
`interrupt_stubs.S` are modelled.

*Broken before anything interesting can happen.* A model would stop at the
first step.

- Bootloader: `flash_erase` writes `1 << 11` into the sector field, which
  selects sector 0, the bootloader's own; messages that need more than one CAN
  frame are dropped, and image blocks do not fit in one.
- RP2040 multicore: the waits of the inter-core FIFO test the status bits in
  the wrong sense; the first push waits for ever.
- `dual_scheduler.c` initialises and starts two pools of its own, and includes
  a file that does not exist.
- RTL8139 reception: the driver moves CAPR by other amounts than the card moves
  CBR, so that after one frame they no longer agree on where the next begins.
- `hw_transactional.c` counts nesting in one variable for all cores and takes
  the offset 0 for the abort path of `xbegin`.
- `floppy.c`: boot never gets past the first wait of `floppy_init` (section 6), and
  the handler that would end it is never called.
- `usb_uhci.c`: the controller never finds the descriptors (section 6). What it
  would do with them, had it their physical addresses, is another program.
- `ata.c` writes its next command to a drive that may still be busy with the
  sector before.

*No promise to check.* What the atomic operations return besides their effect (a second read of the variable, used by nobody); `serial.c` and the
UART drivers' polled sending; keyboard modifiers (one variable, one writer);
`timer.c`'s comparison with a wrapped end time (plain to see); AC97, RTC, PIT,
VGA, PCI (register access); `wifi_sec.c` (cipher code, its key is not used).

*Left out of a modelled part.* The rest of `pic.c` and `apic.c`, which has no
caller (the I/O APIC's entries stay masked); exceptions, which print and halt;
the system call stub, whose `syscall_dispatch` does not exist; page migration
and the counters in `numa.c` that nothing reads; what the flash chips do with
the commands they get (the RP2040 keeps the chip selected between WRITE ENABLE
and PAGE PROGRAM, the STM32H7 sends writes without an instruction phase); `sd_read`;
the ISO-TP frames the code leaves as TODO; the bytes in a mailbox.

*The x86 feature, timer, cache, power, debug, performance, virtualization and
security drivers, the statistics of `interrupt_mgmt.c`, `interrupt_routing.c` and
`exception_mgmt.c`* detect features and program registers,
once and on one core; their event rings overwrite the oldest entry by design
and nobody reads them concurrently. They are most of the tree's lines.
