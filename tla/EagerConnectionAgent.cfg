SPECIFICATION Spec
CONSTANTS
    MaxBuffer = 1
    Unterminated = {2, 3}
    HasInitialData = TRUE
    EarlyRead = TRUE
    CloseOnDisconnect = FALSE
    Jitters = {0}
    BigJitters = {0}
    MaxChunks = 3
    MaxFaults = 3
INVARIANTS OutputHasACarrier SentInOrder
PROPERTIES Reconnects
