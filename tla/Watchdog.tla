------------------------------ MODULE Watchdog ------------------------------
(***************************************************************************)
(* The watchdog driver (drivers/char/watchdog/str9100_wdt.c, built with    *)
(* CONFIG_HW_RST) and the chip's watchdog timer.  The driver's own kernel  *)
(* timer restarts the hardware; so do writes and ioctls of any number of   *)
(* open files.  The functions run to their end on this uniprocessor, which *)
(* does not preempt the kernel; the timer function interrupts none of      *)
(* their effects, so each is one step.                                     *)
(***************************************************************************)
EXTENDS KernelTimers

CONSTANTS
    TIMER_MARGIN,  \* soft_margin when the module is loaded
    Margin,        \* the margins that SETTIMEOUT is called with, of 0 .. 60
    HW_RATIO,      \* the hardware's period, as a multiple of the kernel timer's
    HW_RESET,      \* the hardware's counter after a reset of the chip
    MAX_FILES      \* bound: files open at a time

ASSUME WatchdogAssumption ==
    /\ Margin \subseteq 0 .. 60
    /\ TIMER_MARGIN \in Margin \ {0}
    /\ HW_RATIO \in Nat /\ HW_RATIO > 1
    /\ HW_RESET \in Nat /\ HW_RESET > SECOND * TIMER_MARGIN
    /\ MAX_FILES \in Nat

VARIABLES
    loaded,        \* the module is loaded
    files,         \* open files of /dev/watchdog
    soft_margin,
    wdTimer,       \* the module's kernel timer
    orphan,        \* the timer of an unloaded module, in freed memory
    hw,            \* [on, rst, count]: enabled; resets the chip; ticks until then
    shared,        \* history: a file was closed with another one open, and the
                   \* hardware not initialised since
    unfed          \* history: module loaded over a running counter, no ping since

wdVars == <<loaded, files, soft_margin, wdTimer, orphan, hw, shared, unfed>>

HwExpired == hw.on /\ hw.rst /\ hw.count = 0

\* Faulty forms of the definitions below, each with one plausible mistake.
Hwinit_InterruptOnly(h) == [h EXCEPT !.on = TRUE]

watchdog_open_NoInit ==
    /\ loaded /\ files < MAX_FILES
    /\ files' = files + 1
    /\ wdTimer' = Delay(soft_margin)
    /\ hw' = [hw EXCEPT !.count = HW_RATIO * SECOND * soft_margin]
    /\ unfed' = FALSE
    /\ UNCHANGED <<loaded, soft_margin, orphan, shared>>

watchdog_settimeout_NoPing(m) ==
    /\ files > 0
    /\ soft_margin' = m
    /\ hw' = [hw EXCEPT !.on = TRUE, !.rst = TRUE, !.count = HW_RATIO * SECOND * m]
    /\ shared' = FALSE
    /\ UNCHANGED <<loaded, files, orphan, wdTimer, unfed>>

-----------------------------------------------------------------------------
\* After a reset of the chip.
WatchdogInit ==
    /\ loaded = FALSE
    /\ files = 0
    /\ soft_margin = TIMER_MARGIN
    /\ wdTimer = NONE
    /\ orphan = NONE
    /\ hw = [on |-> FALSE, rst |-> FALSE, count |-> HW_RESET]
    /\ shared = FALSE
    /\ unfed = FALSE

WatchdogBoot ==
    /\ loaded' = FALSE
    /\ files' = 0
    /\ soft_margin' = TIMER_MARGIN
    /\ wdTimer' = NONE
    /\ orphan' = NONE
    /\ hw' = [on |-> FALSE, rst |-> FALSE, count |-> HW_RESET]
    /\ shared' = FALSE
    /\ unfed' = FALSE

\* watchdog_str9100_hwinit: enable the hardware, but not load its counter.
Hwinit(h) == [h EXCEPT !.on = TRUE, !.rst = TRUE]

\* The module's timer set anew, and the magic value in the restart register,
\* which loads the counter but enables nothing.
watchdog_ping(m, h) ==
    /\ wdTimer' = Delay(m)
    /\ hw' = [h EXCEPT !.count = HW_RATIO * SECOND * m]
    /\ unfed' = FALSE

\* The timer starts, but no ping loads the counter of the hardware.
str9100_watchdog_init ==
    /\ ~loaded
    /\ loaded' = TRUE
    /\ soft_margin' = TIMER_MARGIN
    /\ wdTimer' = Delay(TIMER_MARGIN)
    /\ hw' = Hwinit(hw)
    /\ shared' = FALSE
    /\ unfed' = (hw.count # HW_RESET)
    /\ UNCHANGED <<files, orphan>>

\* str9100_watchdog_exit, when no file is open: the timer stays pending.
str9100_watchdog_exit ==
    /\ loaded /\ files = 0
    /\ loaded' = FALSE
    /\ orphan' = IF orphan = NONE \/ orphan > wdTimer THEN wdTimer ELSE orphan
    /\ wdTimer' = NONE
    /\ UNCHANGED <<files, soft_margin, hw, shared, unfed>>

watchdog_open ==
    /\ loaded /\ files < MAX_FILES
    /\ files' = files + 1
    /\ watchdog_ping(soft_margin, Hwinit(hw))
    /\ shared' = FALSE
    /\ UNCHANGED <<loaded, soft_margin, orphan>>

\* The close of any file disables the hardware.
watchdog_release ==
    /\ files > 0
    /\ files' = files - 1
    /\ hw' = [hw EXCEPT !.on = FALSE]
    /\ shared' = (files > 1)
    /\ UNCHANGED <<loaded, soft_margin, wdTimer, orphan, unfed>>

\* watchdog_write of something, and WDIOC_KEEPALIVE.
watchdog_write ==
    /\ files > 0
    /\ watchdog_ping(soft_margin, hw)
    /\ UNCHANGED <<loaded, files, soft_margin, orphan, shared>>

\* WDIOC_SETTIMEOUT: hwinit and ping with the new margin.
watchdog_settimeout(m) ==
    /\ files > 0
    /\ soft_margin' = m
    /\ watchdog_ping(m, Hwinit(hw))
    /\ shared' = FALSE
    /\ UNCHANGED <<loaded, files, orphan>>

\* The module's timer is due: watchdog_ping again, whether a file is open or not.
WatchdogTimer ==
    /\ Due(wdTimer)
    /\ watchdog_ping(soft_margin, hw)
    /\ UNCHANGED <<loaded, files, soft_margin, orphan, shared>>

\* An orphan is due: the kernel calls a function in freed memory, and hangs or
\* not.
OrphanTimer(hangs) ==
    /\ Due(orphan)
    /\ orphan' = NONE
    /\ hung' = hangs
    /\ UNCHANGED <<loaded, files, soft_margin, wdTimer, hw, shared, unfed>>

\* A tick of the clock.
WatchdogTick ==
    /\ wdTimer' = Elapse(wdTimer)
    /\ orphan' = Elapse(orphan)
    /\ hw' = IF hw.on THEN [hw EXCEPT !.count = Elapse(@)] ELSE hw
    /\ UNCHANGED <<loaded, files, soft_margin, shared, unfed>>

-----------------------------------------------------------------------------
(* Properties.                                                             *)

\* The types of the variables.
WatchdogTypeOK ==
    /\ loaded \in BOOLEAN /\ shared \in BOOLEAN /\ unfed \in BOOLEAN
    /\ files \in 0 .. MAX_FILES
    /\ soft_margin \in Margin
    /\ wdTimer \in Nat \cup {NONE} /\ orphan \in Nat \cup {NONE}
    /\ hw \in [on : BOOLEAN, rst : BOOLEAN, count : Nat]

\* The hardware resets no board whose timers run, whatever the files do or fail
\* to do, but in three cases: a margin of 0, the module unloaded, or loaded again
\* over the counter of an earlier load and not pinged since.
ResetOnlyWhenHung == HwExpired => hung \/ soft_margin = 0 \/ ~loaded \/ unfed

\* While a file is open the hardware is enabled, unless another file's close has
\* disabled it under this one.
OnWhileOpen == files > 0 => hw.on \/ shared

=============================================================================
