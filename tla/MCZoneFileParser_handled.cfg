CONSTANTS
    Inputs <- MCInputsHandled
    Numbers <- MCNumbers

SPECIFICATION Spec
INVARIANT ParseRoundTrip
INVARIANT TruncatedRejected
CHECK_DEADLOCK FALSE
