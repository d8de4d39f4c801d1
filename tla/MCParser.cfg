CONSTANTS
    Kinds = {"ws", "open", "close", "word", "number", "quote"}
    MaxTokens = 6
    TokenStreams <- MCTokenStreams
SPECIFICATION Spec
INVARIANTS BlocksHeldOnce DepthIsNesting NodesInSourceOrder SpacedParseMirrorsSource
