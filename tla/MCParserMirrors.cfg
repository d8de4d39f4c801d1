SPECIFICATION Spec
CONSTANTS
    Kinds = {"ws", "open", "close", "word"}
    MaxTokens = 6
    TokenStreams <- MCTokenStreams
INVARIANT ParseMirrorsSource
