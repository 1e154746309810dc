----------------------------- MODULE SchedProofs -----------------------------
(****************************************************************************)
(* What holds of the scheduler for every size of the pool: the inductive    *)
(* invariant SchedInv and the safety invariants of module Sched it implies. *)
(****************************************************************************)
EXTENDS Sched, TLAPS

\* No two slots hold the same task, and no task was created before its pid was
\* drawn.
PidsDistinct ==
    /\ \A s \in Slots : pid[s] < nextPid
    /\ \A r, s \in Slots : r # s /\ pid[r] # 0 => pid[r] # pid[s]

\* Before the first switch every task_create takes slot 0; after it the current
\* slot holds a task.
OneBeforeStart ==
    IF current = NoTask THEN \A s \in Slots : s >= 1 => pid[s] = 0
                        ELSE pid[current] # 0

SchedInv == TypeOK /\ OneRunning /\ TwoSlots /\ PidsDistinct /\ OneBeforeStart

\* task_stack_check only clears states: it marks no slot running.
LEMMA CheckedClears ==
    ASSUME NEW st \in [Slots -> {0, 1}], pid \in [Slots -> {0} \cup Pids],
           canaryOk \in [Slots -> BOOLEAN]
    PROVE  /\ Checked(st) \in [Slots -> {0, 1}]
           /\ \A s \in Slots : Checked(st)[s] = 1 => st[s] = 1
  BY DEF Checked

\* sched_init establishes the invariant.
LEMMA InitInv == Init => SchedInv
  BY PoolAssumption, PidAssumption
  DEF Init, SchedInv, TypeOK, OneRunning, TwoSlots, PidsDistinct, OneBeforeStart,
      Slots, NoTask, Boot, Pids, Lost

\* task_create keeps the invariant: the first slot with state 0 is slot 0 or 1,
\* because only one slot can be running.
LEMMA CreateInv == ASSUME SchedInv, NEW t \in Slots, task_create(t) PROVE SchedInv'
<1> USE PoolAssumption, PidAssumption DEF Slots, Pids, Boot, Lost, NoTask
<1>1. TypeOK'
  BY DEF SchedInv, TypeOK, task_create
<1>2. OneRunning'
  BY DEF SchedInv, OneRunning, task_create
<1>3. t < 2
  <2>1. ASSUME t >= 2 PROVE FALSE
    <3>1. state[0] = 1 /\ state[1] = 1
      BY <2>1 DEF SchedInv, TypeOK, task_create, FirstZeroState
    <3>2. current = 0 /\ current = 1
      BY <3>1 DEF SchedInv, OneRunning
    <3> QED BY <3>2
  <2> QED BY <2>1
<1>4. TwoSlots'
  BY <1>3 DEF SchedInv, TypeOK, TwoSlots, task_create
<1>5. PidsDistinct'
  BY DEF SchedInv, TypeOK, PidsDistinct, task_create
<1>6. OneBeforeStart'
  <2>1. current = NoTask => t = 0
    BY DEF SchedInv, TypeOK, OneRunning, task_create, FirstZeroState
  <2> QED BY <2>1 DEF SchedInv, TypeOK, OneBeforeStart, task_create
<1> QED BY <1>1, <1>2, <1>4, <1>5, <1>6 DEF SchedInv

\* A switch to a slot that holds a waiting task keeps the invariant, whatever
\* states st the scan saw.
LEMMA SwitchInv ==
    ASSUME SchedInv, NEW st \in [Slots -> {0, 1}], NEW n \in Slots \ {current},
           \A s \in Slots : st[s] = 1 => s = current,
           pid[n] # 0, state' = SwitchedStates(st, n), Switch(n),
           UNCHANGED <<pid, canaryOk, nextPid>>
    PROVE  SchedInv'
<1> USE PoolAssumption, PidAssumption DEF Slots, Pids, Boot, Lost, NoTask
<1>1. TypeOK'
  <2>1. state' \in [Slots -> {0, 1}]
    BY DEF SwitchedStates
  <2>2. fresh' \in [Slots -> BOOLEAN]
    BY DEF SchedInv, TypeOK, Switch
  <2>3. cpu' \in {Boot, Lost} \cup Pids
    BY DEF SchedInv, TypeOK, Switch
  <2> QED BY <2>1, <2>2, <2>3 DEF SchedInv, TypeOK, Switch
<1>2. OneRunning'
  BY DEF OneRunning, SwitchedStates, Switch
<1>3. TwoSlots' /\ PidsDistinct'
  BY DEF SchedInv, TwoSlots, PidsDistinct
<1>4. OneBeforeStart'
  BY DEF OneBeforeStart, Switch
<1> QED BY <1>1, <1>2, <1>3, <1>4 DEF SchedInv

\* task_yield keeps the invariant from any states st that mark no slot running
\* but the current one.
LEMMA YieldInv ==
    ASSUME SchedInv, NEW st \in [Slots -> {0, 1}],
           \A s \in Slots : st[s] = 1 => s = current,
           YieldFrom(st)
    PROVE  SchedInv'
<1> DEFINE ck == Checked(st)
<1>1. ck \in [Slots -> {0, 1}] /\ \A s \in Slots : ck[s] = 1 => s = current
  BY CheckedClears DEF SchedInv, TypeOK
<1>2. CASE \E n \in Slots \ {current} :
              /\ ScanStopsAt(Checked(st), n)
              /\ state' = SwitchedStates(Checked(st), n)
              /\ Switch(n)
              /\ UNCHANGED <<pid, canaryOk, nextPid>>
  <2>1. PICK n \in Slots \ {current} :
              /\ pid[n] # 0
              /\ state' = SwitchedStates(ck, n)
              /\ Switch(n)
              /\ UNCHANGED <<pid, canaryOk, nextPid>>
    BY <1>2 DEF ScanStopsAt
  <2> HIDE DEF ck
  <2> QED BY <1>1, <2>1, SwitchInv
<1>3. CASE state' = Checked(st)
           /\ UNCHANGED <<pid, canaryOk, fresh, current, nextPid, cpu>>
  BY <1>1, <1>3
  DEF SchedInv, TypeOK, OneRunning, TwoSlots, PidsDistinct, OneBeforeStart
<1> QED BY <1>2, <1>3 DEF YieldFrom

\* What task_exit hands to task_yield: no slot but the current one is marked.
LEMMA ExitStates ==
    ASSUME SchedInv
    PROVE  LET st == [state EXCEPT ![current] = 0]
           IN  st \in [Slots -> {0, 1}] /\ \A s \in Slots : st[s] = 1 => s = current
  BY DEF SchedInv, TypeOK, OneRunning

\* Every step of the scheduler and of its tasks keeps the invariant.
LEMMA NextInv == SchedInv /\ [Next]_vars => SchedInv'
<1> SUFFICES ASSUME SchedInv, [Next]_vars PROVE SchedInv'
  OBVIOUS
<1>1. ASSUME NEW t \in Slots, task_create(t) PROVE SchedInv'
  BY <1>1, CreateInv
<1>2. ASSUME NEW t \in Slots, SmashStack(t) PROVE SchedInv'
  BY <1>2 DEF SmashStack, SchedInv, TypeOK, OneRunning, TwoSlots, PidsDistinct,
              OneBeforeStart
<1>3. CASE task_stack_check
  <2>1. state' \in [Slots -> {0, 1}] /\ \A s \in Slots : state'[s] = 1 => state[s] = 1
    BY <1>3, CheckedClears DEF task_stack_check, SchedInv, TypeOK
  <2> QED BY <1>3, <2>1 DEF task_stack_check, SchedInv, TypeOK, OneRunning, TwoSlots,
                             PidsDistinct, OneBeforeStart
<1>4. CASE task_yield
  BY <1>4, YieldInv DEF task_yield, SchedInv, TypeOK, OneRunning
<1>5. CASE task_exit
  <2> DEFINE st == [state EXCEPT ![current] = 0]
  <2>1. st \in [Slots -> {0, 1}] /\ \A s \in Slots : st[s] = 1 => s = current
    BY ExitStates
  <2>2. YieldFrom(st)
    BY <1>5 DEF task_exit
  <2> HIDE DEF st
  <2> QED BY <2>1, <2>2, YieldInv
<1>6. CASE sched_start
  <2>1. PICK s \in Slots : Ready(s) /\ state' = [state EXCEPT ![s] = 1] /\ Switch(s)
    BY <1>6 DEF sched_start
  <2>2. current = NoTask /\ UNCHANGED <<pid, canaryOk, nextPid>>
    BY <1>6 DEF sched_start
  <2>3. s \in Slots \ {current} /\ pid[s] # 0 /\ \A r \in Slots : r # current
    BY <2>1, <2>2, PoolAssumption DEF Ready, Slots, NoTask
  <2>4. state' = SwitchedStates(state, s)
    BY <2>1, <2>3 DEF SwitchedStates, SchedInv, TypeOK
  <2> QED BY <2>1, <2>2, <2>3, <2>4, SwitchInv DEF SchedInv, TypeOK, OneRunning
<1>7. CASE sched_start_again
  BY <1>7 DEF sched_start_again, SchedInv, TypeOK, OneRunning, TwoSlots, PidsDistinct,
              OneBeforeStart
<1>8. CASE UNCHANGED vars
  BY <1>8 DEF vars, SchedInv, TypeOK, OneRunning, TwoSlots, PidsDistinct,
              OneBeforeStart
<1> QED BY <1>1, <1>2, <1>3, <1>4, <1>5, <1>6, <1>7, <1>8 DEF Next

\* The inductive invariant holds in every reachable state.
THEOREM SchedInvariant == Spec => []SchedInv
  BY InitInv, NextInv, PTL DEF Spec

\* Type correctness of the scheduler's state, for every pool size and bound.
THEOREM TypeCorrect == Spec => []TypeOK
<1>1. SchedInv => TypeOK
  BY DEF SchedInv
<1> QED BY <1>1, SchedInvariant, PTL

\* At most one slot is ever marked running, and it is current_task's.
THEOREM OneRunningAlways == Spec => []OneRunning
<1>1. SchedInv => OneRunning
  BY DEF SchedInv
<1> QED BY <1>1, SchedInvariant, PTL

\* No pool, however large, ever holds more than two tasks.
THEOREM AtMostTwoTasks == Spec => []TwoSlots
<1>1. SchedInv => TwoSlots
  BY DEF SchedInv
<1> QED BY <1>1, SchedInvariant, PTL

----------------------------------------------------------------------------
\* A scan that starts from any states with no other slot marked running stops
\* at the one slot that waits.
LEMMA YieldTurns ==
    ASSUME SchedInv, NEW st \in [Slots -> {0, 1}],
           \A s \in Slots : st[s] = 1 => s = current,
           YieldFrom(st), NEW w \in Slots, w # current, pid[w] # 0
    PROVE  current' = w
<1> USE PoolAssumption DEF Slots, NoTask
<1> DEFINE ck == Checked(st)
<1>1. ck \in [Slots -> {0, 1}] /\ \A s \in Slots : ck[s] = 1 => s = current
  BY CheckedClears DEF SchedInv, TypeOK
<1>2. ck[w] = 0
  BY <1>1
<1>3. ASSUME NEW n \in Slots, n # current, pid[n] # 0 PROVE n = w
  <2>1. n \in {0, 1} /\ w \in {0, 1}
    BY <1>3 DEF SchedInv, TwoSlots
  <2>2. CASE current = NoTask
    BY <1>3, <2>2 DEF SchedInv, OneBeforeStart
  <2>3. CASE current \in {0, 1}
    BY <1>3, <2>1, <2>3
  <2>4. CASE current \in Slots /\ current >= 2
    <3>1. pid[current] = 0
      BY <2>4 DEF SchedInv, TwoSlots
    <3> QED BY <3>1, <2>4 DEF SchedInv, OneBeforeStart
  <2> QED BY <2>2, <2>3, <2>4 DEF SchedInv, TypeOK
<1>4. ScanStopsAt(ck, w)
  <2>1. ASSUME NEW r \in Slots, ck[r] = 0, pid[r] # 0 PROVE Distance(w) <= Distance(r)
    <3>1. CASE r = w
      BY <3>1 DEF Distance, ScanStart, SchedInv, TypeOK
    <3>2. CASE r = current
      BY <3>2 DEF Distance, ScanStart, SchedInv, TypeOK
    <3>3. CASE r # w /\ r # current
      BY <3>3, <2>1, <1>3
    <3> QED BY <3>1, <3>2, <3>3
  <2> QED BY <1>2, <2>1 DEF ScanStopsAt
<1>5. CASE \E n \in Slots \ {current} : ScanStopsAt(ck, n) /\ Switch(n)
  BY <1>3, <1>5 DEF ScanStopsAt, Switch
<1>6. CASE \A n \in Slots \ {current} : ~ScanStopsAt(ck, n)
  BY <1>4, <1>6
<1> QED BY <1>5, <1>6 DEF YieldFrom

\* No task_yield and no task_exit passes over a task that waits in its slot, in
\* a pool of any size.
THEOREM YieldsTurnToWaiting == Spec => YieldTurnsToWaiting
<1>1. SchedInv /\ [Next]_vars =>
        [task_yield \/ task_exit =>
            \A s \in Slots : s # current /\ pid[s] # 0 => current' = s]_vars
  <2> SUFFICES ASSUME SchedInv, task_yield \/ task_exit, NEW s \in Slots,
                      s # current, pid[s] # 0
               PROVE  current' = s
    OBVIOUS
  <2>1. CASE task_yield
    BY <2>1, YieldTurns DEF task_yield, SchedInv, TypeOK, OneRunning
  <2>2. CASE task_exit
    <3> DEFINE st == [state EXCEPT ![current] = 0]
    <3>1. st \in [Slots -> {0, 1}] /\ \A r \in Slots : st[r] = 1 => r = current
      BY ExitStates
    <3>2. YieldFrom(st)
      BY <2>2 DEF task_exit
    <3> HIDE DEF st
    <3> QED BY <3>1, <3>2, YieldTurns
  <2> QED BY <2>1, <2>2
<1> QED BY <1>1, SchedInvariant, PTL DEF Spec, YieldTurnsToWaiting

\* With a pool of any size, and whatever went on before, context_switch never
\* starts the task in the slot that became current.
THEOREM NextTaskNeverRuns == Spec => SwitchMissesCurrent
<1>1. SchedInv /\ [Next]_vars => [current' # current => cpu' # pid[current']]_vars
  <2> SUFFICES ASSUME SchedInv, Next, current' # current
               PROVE  cpu' # pid[current']
    BY DEF vars
  <2> USE PoolAssumption, PidAssumption
  <2>1. ASSUME NEW n \in Slots \ {current}, pid[n] # 0, pid' = pid, Switch(n)
        PROVE  cpu' # pid[current']
    <3>1. pid[n] \in Pids /\ current' = n
      BY <2>1 DEF SchedInv, TypeOK, Switch
    <3>2. CASE current # NoTask /\ fresh[current]
      BY <2>1, <3>1, <3>2 DEF Switch, SchedInv, TypeOK, PidsDistinct, Pids
    <3>3. CASE ~(current # NoTask /\ fresh[current])
      BY <2>1, <3>1, <3>3 DEF Switch, Pids, Lost
    <3> QED BY <3>2, <3>3
  <2>2. ASSUME \E n \in Slots \ {current} : pid[n] # 0 /\ pid' = pid /\ Switch(n)
        PROVE  cpu' # pid[current']
    BY <2>1, <2>2
  <2>3. CASE task_yield
    BY <2>2, <2>3 DEF task_yield, YieldFrom, ScanStopsAt
  <2>4. CASE task_exit
    BY <2>2, <2>4 DEF task_exit, YieldFrom, ScanStopsAt
  <2>5. CASE sched_start
    BY <2>2, <2>5 DEF sched_start, Ready, Slots, NoTask
  <2>6. ~(\E t \in Slots : task_create(t) \/ SmashStack(t))
          /\ ~task_stack_check /\ ~sched_start_again
    BY DEF task_create, SmashStack, task_stack_check, sched_start_again
  <2> QED BY <2>3, <2>4, <2>5, <2>6 DEF Next
<1> QED BY <1>1, SchedInvariant, PTL DEF Spec, SwitchMissesCurrent
=============================================================================
