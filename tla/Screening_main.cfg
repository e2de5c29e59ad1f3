SPECIFICATION ScreenSpec
CONSTANTS
    None = None
    Broken = Broken
    Empty = Empty
    PatchLists <- MCPatchLists
    PatchRequests <- MCPatchRequests
    Modes = {"block", "detect"}
    Texts <- MCTexts
INVARIANTS FirstPatchWins NarrowerMatchesLess EncodingDoesNotMatter
CHECK_DEADLOCK FALSE
