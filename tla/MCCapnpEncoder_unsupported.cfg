CONSTANTS
    Msgs <- MCMsgsUnsupported

SPECIFICATION Spec
INVARIANT EncodeReportsFailure
