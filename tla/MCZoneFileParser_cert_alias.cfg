CONSTANTS
    Inputs <- MCInputsLarge
    Numbers <- MCNumbers

SPECIFICATION Spec
INVARIANT ParseRoundTrip
CHECK_DEADLOCK FALSE
