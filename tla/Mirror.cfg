\* Three clients, a buffer of two messages, four messages.
SPECIFICATION Spec
CONSTANTS
    Clients = {c1, c2, c3}
    Cap = 2
    MaxMessages = 4
INVARIANTS MirrorExact NoSleeper
