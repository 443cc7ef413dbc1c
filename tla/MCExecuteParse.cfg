CONSTANTS
    FILENAME_LEN = 2
    TERMINAL_BUFFER_SIZE = 4
    USER_BASE = 4
    USER_SIZE = 4
    Chars <- MCChars
    Commands <- MCCommands
    Programs <- MCPrograms
    Bufs <- MCBufs
    NBytes <- MCNBytes
SPECIFICATION Spec
INVARIANTS
    TypeOK
    ParseMatchesReference
    GetArgsReturnsArgs
