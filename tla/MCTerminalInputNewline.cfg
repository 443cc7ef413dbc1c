CONSTANTS
    TERMINAL_BUFFER_SIZE <- MCBufferSize
    NUM_COLS <- MCNumCols
    NUM_ROWS <- MCNumRows
    NUM_TERMINALS <- MCNumTerminals
    Chars <- MCChars
    TapKeys <- MCTapKeys
    ModKeys <- MCModKeys
    PrefixOutcomes = {TRUE}
    ReadSizes <- MCReadSizesAll
    WriteStrings <- MCWriteStrings
    MAX_KEYS <- MCMaxKeys
    StrayOutcomes = {FALSE, TRUE}
SPECIFICATION Spec
\* Every process may be blocked in terminal_read waiting for keys that the
\* user never types: the kernel then idles, which ends a behaviour here.
CHECK_DEADLOCK FALSE
PROPERTIES
    NewlineReleasesRead
