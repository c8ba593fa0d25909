---------------------------- MODULE KernelTimers ----------------------------
(***************************************************************************)
(* The kernel's timers as the board's drivers use them.  A timer is the    *)
(* number of clock ticks until it is due, or NONE.  A tick is the third of *)
(* a second of SCAN_RATE.  All timer functions run in one softirq: when    *)
(* one of them never returns, or the kernel panics in it, none runs again. *)
(***************************************************************************)
EXTENDS Integers

CONSTANT SECOND   \* HZ, in ticks

ASSUME SecondAssumption == SECOND \in Nat \ {0}

VARIABLE hung     \* the timer softirq does not run any more

NONE == -1

Due(t)    == t = 0
Elapse(t) == IF t > 0 THEN t - 1 ELSE t

\* mod_timer(jiffies + m seconds); a timer set to the present is due at the next
\* tick.
Delay(m) == IF m = 0 THEN 1 ELSE SECOND * m

=============================================================================
