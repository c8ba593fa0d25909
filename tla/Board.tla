-------------------------------- MODULE Board --------------------------------
(***************************************************************************)
(* The reset button and the watchdog on one board.  They share the timer   *)
(* softirq, whose end stops both, and a restart of the board starts both   *)
(* anew: the button restarts it, and so does the watchdog's hardware.      *)
(***************************************************************************)
EXTENDS Watchdog, PushButton

vars == <<hung, wdVars, pbVars>>

Init == hung = FALSE /\ pressed = FALSE /\ WatchdogInit /\ ButtonInit

\* The chip is reset; the button stays as it is.
Restart == hung' = FALSE /\ pressed' = pressed /\ WatchdogBoot /\ ButtonBoot

\* The counter of the hardware has run out.
HwReset == HwExpired /\ Restart

\* machine_restart, called by push_button_polling.
ButtonRestart == ~hung /\ MustRestart /\ Restart

\* User space has seen the file.
UserRestart == ~hung /\ file # "none" /\ Restart

\* A fault: some code does not return with interrupts or softirqs off.
Hang == ~hung /\ hung' = TRUE /\ UNCHANGED <<wdVars, pbVars>>

\* Calls of the watchdog driver from user space.
DriverCall ==
    /\ ~hung
    /\ \/ str9100_watchdog_init \/ str9100_watchdog_exit
       \/ watchdog_open \/ watchdog_release \/ watchdog_write
       \/ \E m \in Margin : watchdog_settimeout(m)
    /\ UNCHANGED <<hung, pbVars>>

\* The timer softirq: the watchdog's timer, an orphan of it, the button's timer.
TimerCall == ~hung /\ WatchdogTimer /\ UNCHANGED <<hung, pbVars>>

OrphanCall == ~hung /\ (\E hangs \in BOOLEAN : OrphanTimer(hangs)) /\ UNCHANGED pbVars

ButtonPoll(opened) ==
    /\ ~hung
    /\ PollPressed(opened) \/ PollReleased(opened)
    /\ UNCHANGED wdVars

UserStep == (Press \/ Release) /\ UNCHANGED <<hung, wdVars>>

\* Time passes when nothing that is due is left.  What the hardware does with a
\* reload value of 0 is not known: it may reset the board or not.
Tick ==
    /\ hung \/ \A t \in {wdTimer, orphan, pbTimer} : ~Due(t)
    /\ HwExpired => soft_margin = 0
    /\ WatchdogTick
    /\ ButtonTick
    /\ UNCHANGED hung

Next ==
    \/ DriverCall \/ TimerCall \/ OrphanCall
    \/ \E opened \in BOOLEAN : ButtonPoll(opened)
    \/ UserStep \/ Hang \/ Tick
    \/ HwReset \/ ButtonRestart \/ UserRestart

Spec == Init /\ [][Next]_vars

\* The clock runs, what is due in a running kernel is called, and an expired
\* counter resets the chip.
Fairness ==
    /\ WF_vars(Tick)
    /\ WF_vars(TimerCall)
    /\ WF_vars(OrphanCall)
    /\ WF_vars(ButtonRestart \/ \E opened \in BOOLEAN : ButtonPoll(opened))
    /\ WF_vars(HwReset /\ soft_margin # 0)

FairSpec == Spec /\ Fairness

-----------------------------------------------------------------------------
(* Properties.                                                             *)

TypeOK == hung \in BOOLEAN /\ WatchdogTypeOK /\ ButtonTypeOK

\* What one press without bouncing comes to depends on how long it lasted: the
\* factory defaults need the whole threshold, a custom reset a time between one
\* second less than each of the two thresholds, and what restarts the board is
\* shorter than that or, in the last second before the factory threshold, longer.
HoldDecides ==
    [][~bounced =>
        /\ file # "factory" /\ file' = "factory" => held >= SECOND * FACTORY_RESET_THRESHOLD
        /\ file # "custom" /\ file' = "custom" =>
               held \in SECOND * (CUSTOM_FACTORY_THRESHOLD - 1) ..
                        SECOND * (FACTORY_RESET_THRESHOLD - 1) + SCAN_RATE
        /\ MustRestart /\ ~hung /\ ~HwExpired /\ ~button_pressed' =>
               \/ held <= SECOND * (CUSTOM_FACTORY_THRESHOLD - 1) + SCAN_RATE
               \/ held >= SECOND * (FACTORY_RESET_THRESHOLD - 1)]_vars

\* A board that hangs, by a fault or by a failed filp_open in the button's timer
\* function, comes up again, if the watchdog's hardware was enabled: by a module
\* loaded, or a file opened, and no file closed since.
HangEnds == hung /\ hw.on /\ soft_margin # 0 ~> ~hung

\* A button that is down, and goes on being looked at, is answered by a file, or
\* the board hangs or is reset under it, or the user lets go.
HeldIsAnswered ==
    pressed /\ pbTimer # NONE ~> ~pressed \/ file # "none" \/ hung \/ HwExpired

=============================================================================
