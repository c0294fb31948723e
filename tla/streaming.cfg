SPECIFICATION Spec
CONSTANTS
    None = None
    Protocols = {"chat", "responses", "anthropic"}
    Tools = {0, 1}
    Chunks <- MCChunks
    MaxAttempts = 2
    MaxFrames = 6
INVARIANTS
    StreamInv
    DeltasAsReceived
    EndTellsTheTruth
PROPERTIES
    RetryIsFresh
