-------------------------------- MODULE Sched --------------------------------
(****************************************************************************)
(* The round-robin scheduler of src/kernel/sched.c as kernel_main           *)
(* (src/kernel/main.c) drives it, with the context_switch of                *)
(* arch/arm/cortex-m/context_switch.S, for a build with __arm__ defined.    *)
(*                                                                          *)
(* One core, no preemption: SysTick_Handler only sets PendSV, and no vector *)
(* table of the repository installs a PendSV handler, so another task runs  *)
(* only through context_switch.  Every function of sched.c is therefore one *)
(* action of the code that calls it; sched_lock is never contended.  A task *)
(* is named by the pid its task_create call drew.                           *)
(*                                                                          *)
(* context_switch never looks at new_sp.  It makes the stack pointer        *)
(* old->sp, where task_create left the words 0x01000000 and entry, and pops *)
(* r0 and pc from there: the processor jumps to the entry of the task it    *)
(* was to leave.  With old = 0 it takes the first word of the vector table  *)
(* for a stack and stores behind the end of RAM.  Since what executes is    *)
(* then beyond the scheduler's control, no guard below reads cpu: any       *)
(* function of sched.c may be called at any time.                           *)
(****************************************************************************)
EXTENDS Naturals

CONSTANTS
    MAX_TASKS,   \* slots of task_pool
    MaxPid       \* bound: task_create calls a behaviour makes

ASSUME PoolAssumption == MAX_TASKS \in Nat /\ MAX_TASKS >= 2
ASSUME PidAssumption  == MaxPid \in Nat

VARIABLES
    pid,         \* task_pool[s].pid, 0 for a slot never used
    state,       \* task_pool[s].state: 0 (ready or free) or 1 (running)
    canaryOk,    \* does the word at stack_base still hold the canary?
    fresh,       \* is the word behind task_pool[s].sp still the task's entry?
    current,     \* current_task, as a slot index or NoTask
    nextPid,     \* next_pid
    cpu          \* what executes: Boot, the pid of a task, or Lost

vars == <<pid, state, canaryOk, fresh, current, nextPid, cpu>>

Slots  == 0 .. MAX_TASKS - 1
NoTask == MAX_TASKS
Boot   == 0
Pids   == 1 .. MaxPid
Lost   == MaxPid + 1

TypeOK ==
    /\ pid \in [Slots -> {0} \cup Pids]
    /\ state \in [Slots -> {0, 1}]
    /\ canaryOk \in [Slots -> BOOLEAN]
    /\ fresh \in [Slots -> BOOLEAN]
    /\ current \in Slots \cup {NoTask}
    /\ nextPid \in 1 .. MaxPid + 1
    /\ cpu \in {Boot, Lost} \cup Pids

\* What sched_init leaves: every slot free, and kernel_main executing.
Init ==
    /\ pid = [s \in Slots |-> 0]
    /\ state = [s \in Slots |-> 0]
    /\ canaryOk = [s \in Slots |-> TRUE]
    /\ fresh = [s \in Slots |-> FALSE]
    /\ current = NoTask
    /\ nextPid = 1
    /\ cpu = Boot

----------------------------------------------------------------------------
\* The test both scans of the pool make before they pick a slot.
Ready(s) == state[s] = 0 /\ pid[s] # 0

\* The slot task_create takes: the first whose state is 0, used or not.  (As
\* mutated: the pool is searched from its end.)
LastZeroState(s) ==
    /\ state[s] = 0
    /\ \A r \in Slots : r > s => state[r] # 0
FirstZeroState(s) ==
    /\ state[s] = 0
    /\ \A r \in Slots : r < s => state[r] # 0

\* task_create: the slot keeps state 0, its canary is written afresh and its
\* entry is the second word above its sp.  When the pool has no slot with state 0
\* nothing changes.
task_create(s) ==
    /\ nextPid <= MaxPid
    /\ FirstZeroState(s)
    /\ pid' = [pid EXCEPT ![s] = nextPid]
    /\ canaryOk' = [canaryOk EXCEPT ![s] = TRUE]
    /\ fresh' = [fresh EXCEPT ![s] = TRUE]
    /\ nextPid' = nextPid + 1
    /\ UNCHANGED <<state, current, cpu>>

\* A task writes below its stack: the word at its stack_base goes.
SmashStack(s) ==
    /\ pid[s] # 0
    /\ canaryOk[s]
    /\ canaryOk' = [canaryOk EXCEPT ![s] = FALSE]
    /\ UNCHANGED <<pid, state, fresh, current, nextPid, cpu>>

\* The states task_stack_check leaves: 0 for every used slot with a bad canary.
\* (As mutated: 2, which sched.h calls blocked.)
CheckedBlocks(st) ==
    [s \in Slots |-> IF pid[s] # 0 /\ ~canaryOk[s] THEN 2 ELSE st[s]]
Checked(st) ==
    [s \in Slots |-> IF pid[s] # 0 /\ ~canaryOk[s] THEN 0 ELSE st[s]]

task_stack_check ==
    /\ state' = Checked(state)
    /\ UNCHANGED <<pid, canaryOk, fresh, current, nextPid, cpu>>

----------------------------------------------------------------------------
\* How many steps the scan of task_yield takes to reach slot s.  It starts
\* behind the current slot (behind slot 0 when there is none) and reaches the
\* starting slot itself last.  (As mutated: it starts at slot 0 every time.)
ScanStart == IF current = NoTask THEN 0 ELSE current
DistanceFromZero(s) == s
Distance(s) ==
    IF s > ScanStart THEN s - ScanStart ELSE s + MAX_TASKS - ScanStart

\* The slot the scan stops at, in the pool whose states are st.
ScanStopsAt(st, s) ==
    /\ st[s] = 0 /\ pid[s] # 0
    /\ \A r \in Slots : st[r] = 0 /\ pid[r] # 0 => Distance(s) <= Distance(r)

\* current_task becomes n, and context_switch(&old->sp, next->sp) is called with
\* the task left behind as old.  That task is entered anew, and its first frame
\* overwrites the word its entry was popped from: a second switch from the same
\* slot pops what the task's frames left there.  With no task to leave the
\* store behind the end of RAM ends in hardfault_handler's endless loop.  (As
\* mutated: the task of the new sp is resumed.)
SwitchResumesNext(n) ==
    /\ current' = n
    /\ cpu' = pid[n]
    /\ fresh' = [s \in Slots |-> fresh[s] /\ s # n]
Switch(n) ==
    /\ current' = n
    /\ cpu' = IF current # NoTask /\ fresh[current] THEN pid[current] ELSE Lost
    /\ fresh' = [s \in Slots |-> fresh[s] /\ s # current]

\* The states after a switch to n: the old slot 0, the next slot 1.  (As
\* mutated: the old slot stays marked running.)
SwitchedOldStaysRunning(st, n) == [st EXCEPT ![n] = 1]
SwitchedStates(st, n) ==
    [s \in Slots |-> IF s = n THEN 1 ELSE IF s = current THEN 0 ELSE st[s]]

\* task_yield on a pool whose states were st when it took the lock.
YieldFrom(st) ==
    \/ \E n \in Slots \ {current} :
          /\ ScanStopsAt(Checked(st), n)
          /\ state' = SwitchedStates(Checked(st), n)
          /\ Switch(n)
          /\ UNCHANGED <<pid, canaryOk, nextPid>>
    \/ /\ \A n \in Slots \ {current} : ~ScanStopsAt(Checked(st), n)
       /\ state' = Checked(st)
       /\ UNCHANGED <<pid, canaryOk, fresh, current, nextPid, cpu>>

task_yield == YieldFrom(state)

\* task_exit: state 0, then task_yield.  A task with no ready peer goes on
\* executing behind its call.
task_exit ==
    /\ current # NoTask
    /\ YieldFrom([state EXCEPT ![current] = 0])

\* sched_start, the last statement of kernel_main: the first ready slot becomes
\* current and context_switch is called with no task to leave.  With a current
\* task it only makes that call, or returns to find no task at all.
sched_start ==
    /\ current = NoTask
    /\ \E s \in Slots :
          /\ Ready(s)
          /\ \A r \in Slots : r < s => ~Ready(r)
          /\ state' = [state EXCEPT ![s] = 1]
          /\ Switch(s)
    /\ UNCHANGED <<pid, canaryOk, nextPid>>

sched_start_again ==
    /\ current # NoTask
    /\ cpu' = Lost
    /\ UNCHANGED <<pid, state, canaryOk, fresh, current, nextPid>>

----------------------------------------------------------------------------
Next ==
    \/ \E s \in Slots : task_create(s)
    \/ \E s \in Slots : SmashStack(s)
    \/ task_stack_check
    \/ sched_start
    \/ sched_start_again
    \/ task_yield
    \/ task_exit

Spec == Init /\ [][Next]_vars

----------------------------------------------------------------------------
\* At most one slot is marked running, and it is the slot of current_task: a
\* task marked running anywhere else would never be scheduled again, since
\* task_yield passes over it.
OneRunning == \A s \in Slots : state[s] = 1 => s = current

\* The pool never holds more than two tasks, whatever its size: task_create
\* takes a slot by state 0, which ready tasks have too, so it goes past slot
\* 0 only while slot 0 runs and past slot 1 never.
TwoSlots == \A s \in Slots : s >= 2 => pid[s] = 0

\* A task that waits in its slot is passed over by no task_yield and no
\* task_exit: each call makes its slot the current one, also when the caller
\* marked itself ready again (it exited, or its canary is gone).
YieldTurnsToWaiting ==
    [][task_yield \/ task_exit =>
          \A s \in Slots : s # current /\ pid[s] # 0 => current' = s]_vars

\* sched.h: state "0=ready, 1=running, 2=blocked".  A ready task keeps its
\* slot until it runs; task_create does not give the slot away.
ReadyKeepsSlot ==
    [][\A s \in Slots : Ready(s) /\ s # current => pid'[s] = pid[s]]_vars

\* The pool and the processor part at every switch: what context_switch makes
\* the processor execute is never the task in the slot that became current and
\* is marked running, in whatever order tasks were created, ran and exited.
SwitchMissesCurrent == [][current' # current => cpu' # pid[current']]_vars
=============================================================================
