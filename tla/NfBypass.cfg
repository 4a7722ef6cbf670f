SPECIFICATION Spec
CONSTANTS
    Slot = {1}
    SockBuf = 1
INVARIANT BypassWithoutListener
