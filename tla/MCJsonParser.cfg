CONSTANTS
    Symbols = {"{", "}", "[", "]", ",", ":", "q", "w", "a", "1", "0", "-", "+", ".", "e", "t"}
    StringSymbols = {"q", "esc", "a", "u0", "u2", "u3", "ux"}
    MaxLen = 6
    Documents <- MCDocuments
SPECIFICATION FairSpec
INVARIANTS
    BuffersFit
    ParsesTheGrammar
    MemoryAccounted
    HandlersReadTheirEntries
PROPERTY
    ParserEnds
CHECK_DEADLOCK FALSE
