------------------------------ MODULE Atomics ------------------------------
(****************************************************************************)
(* atomic_wait_for_change (src/drivers/atomic.c): a CPU waits for a word to *)
(* leave an expected value while others change it with the locked           *)
(* operations of the same file.  Where the CPU has MONITOR/MWAIT it arms a  *)
(* monitor on the word and sleeps; otherwise it polls.                      *)
(*                                                                          *)
(* External: MWAIT sleeps unless the word was written since MONITOR, and    *)
(* any write of the word ends the sleep.                                    *)
(****************************************************************************)
EXTENDS Naturals

CONSTANT W                         \* width of the word: 32

Words == 0 .. 2^W - 1

VARIABLES
    supported,   \* monitor_mwait_supported
    word,        \* the word
    expected,    \* expected_value of the call
    armed,       \* the monitor is armed and saw no write
    waiter       \* the next step of the call, "idle" outside it
atomicsVars == <<supported, word, expected, armed, waiter>>

TypeOK ==
    /\ supported \in BOOLEAN
    /\ word \in Words /\ expected \in Words
    /\ armed \in BOOLEAN
    /\ waiter \in {"idle", "load", "monitor", "reload", "mwait", "asleep"}

Init ==
    /\ supported \in BOOLEAN
    /\ word = 0 /\ expected = 0
    /\ armed = FALSE /\ waiter = "idle"

\* Another CPU stores, exchanges or adds: one locked write, which is seen by an
\* armed monitor also when it leaves the value as it was.
Write ==
    /\ word' \in Words
    /\ armed' = FALSE
    /\ waiter' = IF waiter = "asleep" THEN "load" ELSE waiter
    /\ UNCHANGED <<supported, expected>>

CallWait ==
    /\ waiter = "idle"
    /\ waiter' = "load"
    /\ expected' \in Words
    /\ UNCHANGED <<supported, word, armed>>

\* Line 345, or line 352 without MONITOR.
Load ==
    /\ waiter = "load"
    /\ waiter' = IF word # expected THEN "idle"
                 ELSE IF supported THEN "monitor" ELSE "load"
    /\ UNCHANGED <<supported, word, expected, armed>>

\* (As mutated: the word is not loaded again after the monitor is armed.)
MonitorOnly ==
    /\ waiter = "monitor"
    /\ armed' = TRUE
    /\ waiter' = "mwait"
    /\ UNCHANGED <<supported, word, expected>>
Monitor ==
    /\ waiter = "monitor"
    /\ armed' = TRUE
    /\ waiter' = "reload"
    /\ UNCHANGED <<supported, word, expected>>

Reload ==
    /\ waiter = "reload"
    /\ waiter' = IF word = expected THEN "mwait" ELSE "load"
    /\ UNCHANGED <<supported, word, expected, armed>>

Mwait ==
    /\ waiter = "mwait"
    /\ waiter' = IF armed THEN "asleep" ELSE "load"
    /\ armed' = FALSE
    /\ UNCHANGED <<supported, word, expected>>

Waiting == Load \/ Monitor \/ Reload \/ Mwait

Next == Write \/ CallWait \/ Waiting

----------------------------------------------------------------------------
(* Properties *)

\* A call returns, or finds the word at its expected value again and again: a
\* change that stays is never slept through, not even one that comes between
\* the test of the word, the arming of the monitor and the sleep.
WaiterWakes == []<>(waiter = "idle") \/ []<>(word = expected)

\* The waiting CPU goes on unless it sleeps.
Spec == Init /\ [][Next]_atomicsVars /\ WF_atomicsVars(Waiting)
=============================================================================
