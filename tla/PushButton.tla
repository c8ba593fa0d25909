----------------------------- MODULE PushButton -----------------------------
(***************************************************************************)
(* The reset button (drivers/net/str9100/push_button.c): a timer function  *)
(* that looks at the button three times a second, once a second while it   *)
(* is pressed, and decides on what it saw when the button is released or   *)
(* FACTORY_RESET_THRESHOLD is reached.                                     *)
(***************************************************************************)
EXTENDS KernelTimers

CONSTANTS
    FACTORY_RESET_THRESHOLD,
    CUSTOM_FACTORY_THRESHOLD

ASSUME ButtonAssumption ==
    /\ CUSTOM_FACTORY_THRESHOLD \in Nat \ {0}
    /\ FACTORY_RESET_THRESHOLD \in Nat
    /\ CUSTOM_FACTORY_THRESHOLD < FACTORY_RESET_THRESHOLD

VARIABLES
    pressed,         \* the button, which survives a restart
    counter,
    button_pressed,
    pbTimer,         \* push_button_timer
    file,            \* the reset file in /tmp: "none", "factory" or "custom"
    held,            \* history: ticks that the button has been down in this press
    bounced          \* history: pressed again before the release was seen

pbVars == <<pressed, counter, button_pressed, pbTimer, file, held, bounced>>

SCAN_RATE == 1
HeldMax   == SECOND * (FACTORY_RESET_THRESHOLD + 1)   \* bound of the history

\* Faulty forms of the definitions below, each with one plausible mistake.
IsCustom_WithBoundary == counter >= CUSTOM_FACTORY_THRESHOLD /\ counter <= FACTORY_RESET_THRESHOLD

LookAgain_NoCount == button_pressed' = TRUE /\ pbTimer' = SECOND /\ UNCHANGED counter

-----------------------------------------------------------------------------
\* push_module_init; the button itself is as it is.
ButtonInit ==
    /\ counter = 0
    /\ button_pressed = FALSE
    /\ pbTimer = SCAN_RATE
    /\ file = "none"
    /\ held = 0
    /\ bounced = FALSE

ButtonBoot ==
    /\ counter' = 0
    /\ button_pressed' = FALSE
    /\ pbTimer' = SCAN_RATE
    /\ file' = "none"
    /\ held' = 0
    /\ bounced' = FALSE

\* The user.
Press ==
    /\ ~pressed
    /\ pressed' = TRUE
    /\ held' = IF button_pressed THEN held ELSE 0
    /\ bounced' = button_pressed
    /\ UNCHANGED <<counter, button_pressed, pbTimer, file>>

Release ==
    /\ pressed
    /\ pressed' = FALSE
    /\ UNCHANGED <<counter, button_pressed, pbTimer, file, held, bounced>>

-----------------------------------------------------------------------------
(* push_button_polling.                                                    *)

IsFactory == counter = FACTORY_RESET_THRESHOLD

IsCustom == counter >= CUSTOM_FACTORY_THRESHOLD /\ counter < FACTORY_RESET_THRESHOLD

\* Blink the LED, create the file and let the timer be.  If filp_open fails,
\* filp_close is called with its error value: an oops in interrupt context, which
\* is a panic.
Announce(which, opened) ==
    /\ file' = IF opened THEN which ELSE file
    /\ hung' = ~opened
    /\ pbTimer' = NONE
    /\ UNCHANGED <<pressed, counter, button_pressed, held, bounced>>

\* One second more.
LookAgain == button_pressed' = TRUE /\ counter' = counter + 1 /\ pbTimer' = SECOND

PollPressed(opened) ==
    /\ Due(pbTimer) /\ pressed
    /\ \/ IsFactory /\ Announce("factory", opened)
       \/ /\ ~IsFactory
          /\ LookAgain
          /\ UNCHANGED <<hung, pressed, file, held, bounced>>

PollReleased(opened) ==
    /\ Due(pbTimer) /\ ~pressed
    /\ \/ IsCustom /\ Announce("custom", opened)
       \/ /\ ~IsCustom /\ ~button_pressed
          /\ pbTimer' = SCAN_RATE
          /\ UNCHANGED <<hung, pressed, counter, button_pressed, file, held, bounced>>

\* Seen released, and not a custom reset: machine_restart.
MustRestart == Due(pbTimer) /\ ~pressed /\ ~IsCustom /\ button_pressed

ButtonTick ==
    /\ pbTimer' = Elapse(pbTimer)
    /\ held' = IF pressed /\ held < HeldMax THEN held + 1 ELSE held
    /\ UNCHANGED <<pressed, counter, button_pressed, file, bounced>>

-----------------------------------------------------------------------------
(* Properties.                                                             *)

\* The types of the variables.
ButtonTypeOK ==
    /\ pressed \in BOOLEAN /\ button_pressed \in BOOLEAN /\ bounced \in BOOLEAN
    /\ counter \in 0 .. FACTORY_RESET_THRESHOLD
    /\ pbTimer \in {NONE} \cup 0 .. SECOND
    /\ file \in {"none", "factory", "custom"}
    /\ held \in 0 .. HeldMax

\* A button that stays down is never looked at again when it has been down for
\* longer than the threshold: each second of the counter was one of the button's.
AnsweredInTime ==
    pressed /\ ~bounced /\ pbTimer > 0 /\ ~hung
        => held <= SECOND * FACTORY_RESET_THRESHOLD

=============================================================================
