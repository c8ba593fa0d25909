CONSTANTS
    SECOND = 3
    TIMER_MARGIN = 2
    Margin = {0, 1, 2}
    HW_RATIO = 2
    HW_RESET = 13
    MAX_FILES = 2
    FACTORY_RESET_THRESHOLD = 4
    CUSTOM_FACTORY_THRESHOLD = 2
SPECIFICATION FairSpec
INVARIANT ResetOnlyWhenHung OnWhileOpen AnsweredInTime
PROPERTY HoldDecides HangEnds HeldIsAnswered
