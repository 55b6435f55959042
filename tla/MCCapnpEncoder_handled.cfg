CONSTANTS
    Msgs <- MCMsgsHandled

SPECIFICATION Spec
INVARIANT RoundTrip
