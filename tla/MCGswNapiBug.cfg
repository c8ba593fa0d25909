CONSTANTS
    Dev = {lan, wan}
    RING = 2
    RequestMayFail = FALSE
SPECIFICATION Spec
CHECK_DEADLOCK FALSE
INVARIANT NoNapiBug
