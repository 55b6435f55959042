CONSTANTS
    Msgs <- MCMsgsContinue

SPECIFICATION Spec
INVARIANT RoundTrip
